------------------------------ MODULE MCLazyModes ------------------------------
(*****************************************************************************)
(* The lazy device under three configurations, side by side: part says which *)
(* one this behaviour is about.  LazyDevice itself is checked with an image  *)
(* and track_written; here are                                               *)
(*   copy_on_read    copy_on_read on, one I/O thread, one fault anywhere, a  *)
(*                   power loss;                                             *)
(*   two_threads     two I/O threads and two fetch buffers;                  *)
(*   autofetch       autofetch beside a request of two stripes, a retry, a   *)
(*                   shutdown.                                               *)
(*****************************************************************************)
EXTENDS Naturals, TLC

CONSTANTS r1, r2, c1, c2    \* model values

VARIABLES
    part,
    stripe_fetch_states, stripe_write_states, fetched_stripes_count,
    source_stripes_count, headers, queued_requests, header_updates,
    sectors_being_updated, free_buffers, meta_io, meta_cache, meta_durable, fetch_queue,
    autofetch_queue, stripe_states, stripe_fetch_retries, allocated_buffers,
    fetch_buffers, finished_fetches, disconnected, null_source, source_io, target_io,
    disk_cache, disk_durable, bgworker_ch, worker_pc, done, queued_rw_requests,
    finished_requests, stripe_fetches_requested, base_io, image_io, owner, req, faults,
    power_losses

Copy == INSTANCE LazyDevice WITH
    StripeCount <- 2, HeadersPerSector <- 2, SourceStripes <- {0, 1},
    MaxConcurrentChanges <- 1, MaxQueue <- 4, SourceStripeCount <- 2,
    MaxConcurrentFetches <- 1, MaxFetchRetries <- 0, Autofetch <- FALSE,
    Channels <- {c1}, Requests <- {r1, r2}, HasImage <- FALSE,
    TrackWritten <- FALSE, MaxSpan <- 1, MaxFaults <- 1, MetaMayFail <- TRUE,
    MaxPowerLosses <- 1, MayShutdown <- FALSE
Two == INSTANCE LazyDevice WITH
    StripeCount <- 2, HeadersPerSector <- 2, SourceStripes <- {0, 1},
    MaxConcurrentChanges <- 1, MaxQueue <- 4, SourceStripeCount <- 2,
    MaxConcurrentFetches <- 2, MaxFetchRetries <- 0, Autofetch <- FALSE,
    Channels <- {c1, c2}, Requests <- {r1, r2}, HasImage <- FALSE,
    TrackWritten <- FALSE, MaxSpan <- 1, MaxFaults <- 1, MetaMayFail <- TRUE,
    MaxPowerLosses <- 0, MayShutdown <- FALSE
Auto == INSTANCE LazyDevice WITH
    StripeCount <- 2, HeadersPerSector <- 2, SourceStripes <- {0, 1},
    MaxConcurrentChanges <- 1, MaxQueue <- 4, SourceStripeCount <- 2,
    MaxConcurrentFetches <- 1, MaxFetchRetries <- 1, Autofetch <- TRUE,
    Channels <- {c1}, Requests <- {r1}, HasImage <- FALSE, TrackWritten <- FALSE,
    MaxSpan <- 2, MaxFaults <- 1, MetaMayFail <- TRUE, MaxPowerLosses <- 0,
    MayShutdown <- TRUE

RequestSymmetry == Permutations({r1, r2})
vars == <<part, Two!lazyVars>>

Init ==
    \/ part = "copy_on_read" /\ Copy!LInit
    \/ part = "two_threads" /\ Two!LInit
    \/ part = "autofetch" /\ Auto!LInit

Next ==
    /\ UNCHANGED part
    /\ \/ part = "copy_on_read" /\ Copy!LNext
       \/ part = "two_threads" /\ Two!LNext
       \/ part = "autofetch" /\ Auto!LNext

Spec == Init /\ [][Next]_vars

-----------------------------------------------------------------------------
\* Towards the guest the device is a plain disk that held the source's data
\* from the start, whichever thread serves a request: with copy_on_read through
\* a fault and a power loss, with two threads, and with autofetch and a shutdown.
\* Meanwhile a request waits in one place until it is answered, and so is
\* answered once; fetch and guest never mix; the source is let go only when
\* every stripe of it has been fetched; the state keeps its types and, with
\* autofetch, all of the device's inductive invariant.
EveryModeIsADisk ==
    /\ part = "copy_on_read" => Copy!Disk!GInit
    /\ part = "two_threads" => Two!Disk!GInit
    /\ part = "autofetch" => Auto!Disk!GInit
    /\ [](/\ part = "copy_on_read" => Copy!OnePlace /\ Copy!CopiedSafely
          /\ part = "two_threads" => Two!LTypeOK /\ Two!OnePlace
          /\ part = "autofetch" => Auto!LInv /\ Auto!DisconnectedMeansFetched)
    /\ [][/\ part = "copy_on_read" => UNCHANGED Copy!Disk!diskSpecVars \/ Copy!Disk!GNext
          /\ part = "two_threads" => UNCHANGED Two!Disk!diskSpecVars \/ Two!Disk!GNext
          /\ part = "autofetch" => UNCHANGED Auto!Disk!diskSpecVars \/ Auto!Disk!GNext]_vars
=============================================================================
