------------------------------ MODULE MCLazyLive ------------------------------
(*****************************************************************************)
(* What must eventually happen in the lazy device, side by side: part says   *)
(* which system this behaviour is about, the variables it does not have are 0. *)
(*   live       the device, a request of up to two stripes; a fault anywhere *)
(*              but on the metadata device;                                  *)
(*   tracked    the same with track_written, where a write also waits for its *)
(*              bits, and two requests of one stripe;                        *)
(*   flusher    the flusher alone, one sector of two stripes: an update that *)
(*              fails must free its sector for the request that waits for it; *)
(*   fetcher    the fetcher alone, with one buffer and a retry.              *)
(*****************************************************************************)
EXTENDS Naturals, Sequences

CONSTANTS r1, r2, c1    \* model values

VARIABLES
    part,
    stripe_fetch_states, stripe_write_states, fetched_stripes_count,
    source_stripes_count, headers, queued_requests, header_updates,
    sectors_being_updated, free_buffers, meta_io, meta_cache, meta_durable, fetch_queue,
    autofetch_queue, stripe_states, stripe_fetch_retries, allocated_buffers,
    fetch_buffers, finished_fetches, disconnected, null_source, source_io, target_io,
    disk_cache, disk_durable, bgworker_ch, worker_pc, done, queued_rw_requests,
    finished_requests, stripe_fetches_requested, base_io, image_io, owner, req, faults,
    power_losses

Dev == INSTANCE LazyDevice WITH
    StripeCount <- 2, HeadersPerSector <- 2, SourceStripes <- {0},
    MaxConcurrentChanges <- 1, MaxQueue <- 4, SourceStripeCount <- 1,
    MaxConcurrentFetches <- 1, MaxFetchRetries <- 0, Autofetch <- FALSE,
    Channels <- {c1}, Requests <- {r1}, HasImage <- FALSE, TrackWritten <- FALSE,
    MaxSpan <- 2, MaxFaults <- 1, MetaMayFail <- FALSE, MaxPowerLosses <- 0,
    MayShutdown <- FALSE
Trk == INSTANCE LazyDevice WITH
    StripeCount <- 2, HeadersPerSector <- 2, SourceStripes <- {0},
    MaxConcurrentChanges <- 1, MaxQueue <- 4, SourceStripeCount <- 1,
    MaxConcurrentFetches <- 1, MaxFetchRetries <- 0, Autofetch <- FALSE,
    Channels <- {c1}, Requests <- {r1, r2}, HasImage <- FALSE, TrackWritten <- TRUE,
    MaxSpan <- 1, MaxFaults <- 1, MetaMayFail <- FALSE, MaxPowerLosses <- 0,
    MayShutdown <- FALSE
Fl == INSTANCE MetadataFlusher WITH
    StripeCount <- 2, HeadersPerSector <- 2, SourceStripes <- {0, 1},
    MaxConcurrentChanges <- 1, MaxQueue <- 2
Fe == INSTANCE StripeFetcher WITH
    StripeCount <- 2, HeadersPerSector <- 2, SourceStripes <- {0, 1},
    SourceStripeCount <- 2, MaxConcurrentFetches <- 1, MaxFetchRetries <- 1,
    Autofetch <- TRUE

MetaVars ==
    <<headers, queued_requests, header_updates, sectors_being_updated, free_buffers,
    meta_io, meta_cache, meta_durable>>
FetchVars ==
    <<fetch_queue, autofetch_queue, stripe_states, stripe_fetch_retries,
    allocated_buffers, fetch_buffers, finished_fetches, disconnected, null_source,
    source_io, target_io, disk_cache, disk_durable>>
GuestVars ==
    <<bgworker_ch, worker_pc, done, queued_rw_requests, finished_requests,
    stripe_fetches_requested, base_io, image_io, owner, req, faults, power_losses>>

NoMeta ==
    headers = 0 /\ queued_requests = 0 /\ header_updates = 0 /\
    sectors_being_updated = 0 /\ free_buffers = 0 /\ meta_io = 0 /\ meta_cache = 0 /\
    meta_durable = 0
NoFetch ==
    fetch_queue = 0 /\ autofetch_queue = 0 /\ stripe_states = 0 /\
    stripe_fetch_retries = 0 /\ allocated_buffers = 0 /\ fetch_buffers = 0 /\
    finished_fetches = 0 /\ disconnected = 0 /\ null_source = 0 /\ source_io = 0 /\
    target_io = 0 /\ disk_cache = 0 /\ disk_durable = 0
NoGuest ==
    bgworker_ch = 0 /\ worker_pc = 0 /\ done = 0 /\ queued_rw_requests = 0 /\
    finished_requests = 0 /\ stripe_fetches_requested = 0 /\ base_io = 0 /\
    image_io = 0 /\ owner = 0 /\ req = 0 /\ faults = 0 /\ power_losses = 0

Init ==
    \/ part = "live" /\ Dev!LInit
    \/ part = "tracked" /\ Trk!LInit
    \/ part = "flusher" /\ Fl!MFInit /\ NoFetch /\ NoGuest
    \/ part = "fetcher" /\ Fe!FInit /\ NoMeta /\ NoGuest

Next ==
    \/ part = "live" /\ Dev!LNext /\ UNCHANGED <<part>>
    \/ part = "tracked" /\ Trk!LNext /\ UNCHANGED <<part>>
    \/ part = "flusher" /\ Fl!MFNext /\ UNCHANGED <<part, FetchVars, GuestVars>>
    \/ part = "fetcher" /\ Fe!FNext /\ UNCHANGED <<part, MetaVars, GuestVars>>

vars == <<part, Dev!sharedVars, MetaVars, FetchVars, GuestVars>>

Spec == Init /\ [][Next]_vars

\* The fairness of LFairSpec, MFFairSpec and FFairSpec: threads run, a busy
\* channel is polled, devices answer.
WorkerRuns ==
    /\ UNCHANGED part
    /\ \/ part = "live" /\ Dev!WorkerStep
       \/ part = "tracked" /\ Trk!WorkerStep
       \/ part = "flusher" /\ Fl!FlusherUpdate /\ UNCHANGED <<FetchVars, GuestVars>>
       \/ part = "fetcher" /\ (Fe!FetcherUpdate \/ Fe!TakeFinished) /\ UNCHANGED <<MetaVars, GuestVars>>
ChannelPolled ==
    /\ UNCHANGED part
    /\ \/ part = "live" /\ Dev!PollStep(c1)
       \/ part = "tracked" /\ Trk!PollStep(c1)
DeviceAnswers ==
    /\ UNCHANGED part
    /\ \/ /\ part = "live"
          /\ \/ Dev!GuestIoStep(r1)
             \/ \E s \in 0 .. 1 : Dev!MetaStep(s) \/ Dev!SourceStep(s) \/ Dev!TargetStep(s)
       \/ /\ part = "tracked"
          /\ \/ \E r \in {r1, r2} : Trk!GuestIoStep(r)
             \/ \E s \in 0 .. 1 : Trk!MetaStep(s) \/ Trk!SourceStep(s) \/ Trk!TargetStep(s)
       \/ /\ part = "flusher" /\ UNCHANGED <<FetchVars, GuestVars>>
          /\ \E s \in 0 .. 1, result \in {"ok", "err"} : Fl!MetaIoDone(s, result)
       \/ /\ part = "fetcher" /\ UNCHANGED <<MetaVars, GuestVars>>
          /\ \E s \in 0 .. 1 : Fe!FetchIoDone(s)

FairSpec ==
    /\ Spec
    /\ WF_vars(WorkerRuns) /\ WF_vars(ChannelPolled) /\ WF_vars(DeviceAnswers)

-----------------------------------------------------------------------------
Waits(r) == part \in {"live", "tracked"} /\ req[r].st = "open"

\* A request of the guest is answered, with a fault anywhere but on the
\* metadata device, with track_written and without.  (The requests are
\* interchangeable: what holds of r1 holds of r2.)
RequestsAnswered == Waits(r1) ~> ~Waits(r1)

Queued(s) == /\ part = "fetcher" /\ s \in DOMAIN stripe_states
             /\ stripe_states[s] # "Fetched"

\* The worker's two halves get on by themselves.  A full queue of the flusher
\* moves: no failed write or flush leaves its sector blocked for the request at
\* the head.  A stripe in the fetcher's queue ends up fetched or failed: retries
\* are bounded and every failure gives the one buffer back (stripe 1 waits
\* behind stripe 0).
WorkerGetsOn ==
    /\ (part = "flusher" /\ Len(queued_requests) = 2)
        ~> (part = "flusher" /\ Len(queued_requests) < 2)
    /\ Queued(1) ~> ~Queued(1)
=============================================================================
