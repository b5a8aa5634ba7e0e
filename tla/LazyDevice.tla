-------------------------------- MODULE LazyDevice --------------------------------
(***************************************************************************)
(* The whole lazy block device: I/O threads with their LazyIoChannels, the *)
(* background worker with its fetcher and flusher, the base device, the    *)
(* metadata device, the stripe source, and power losses followed by a      *)
(* restart from the media.                                                 *)
(*                                                                         *)
(* Everything that can fail draws on one budget of faults, so that an      *)
(* instance is finite and a liveness property can be stated.               *)
(***************************************************************************)
EXTENDS LazyIoChannel

CONSTANTS
    MaxFaults,          \* bound on failed I/O requests and failed submits
    MetaMayFail,        \* faults may hit the metadata device
    MaxPowerLosses,     \* bound on power losses
    MayShutdown         \* BackendEnv may stop the worker

VARIABLES faults, power_losses

ASSUME DeviceAssumption ==
    /\ MaxFaults \in Nat /\ MaxPowerLosses \in Nat
    /\ MetaMayFail \in BOOLEAN /\ MayShutdown \in BOOLEAN

boundVars  == <<faults, power_losses>>
mediaVars  == <<meta_cache, meta_durable, diskVars>>
allWorker  == <<bgVars, flusherVars, fetcherVars, allIoVars, sharedVars>>
allGuest   == <<channelVars, guestIoVars, owner, req>>
lazyVars   == <<allWorker, allGuest, mediaVars, boundVars>>

LInit ==
    /\ WorkerInit(FreshHeaders)
    /\ meta_cache = FreshHeaders /\ meta_durable = FreshHeaders
    /\ DiskInit
    /\ ChannelsInit
    /\ faults = 0 /\ power_losses = 0

\* A step that goes wrong costs one fault.
Faulty(wrong) ==
    /\ wrong => faults < MaxFaults
    /\ faults' = IF wrong THEN faults + 1 ELSE faults
    /\ UNCHANGED power_losses

NoFault == UNCHANGED boundVars

-----------------------------------------------------------------------------
(* The guest and its I/O threads.                                          *)

WorkerUnchangedButChannel ==
    UNCHANGED <<worker_pc, done, flusherVars, fetcherVars, allIoVars, sharedVars,
                mediaVars>>

Issue(c, r) ==
    /\ req[r].st = "new"
    /\ \/ AddFlush(c, r)
       \/ \E first, last \in Stripes :
             /\ first <= last /\ last - first < MaxSpan
             /\ AddRead(c, r, first, last) \/ AddWrite(c, r, first, last)
    /\ WorkerUnchangedButChannel
    /\ NoFault

PollStep(c) ==
    /\ \E n \in 0 .. Len(queued_rw_requests[c]), submitted \in BOOLEAN :
          Poll(c, n, submitted) /\ Faulty(~submitted)
    /\ WorkerUnchangedButChannel

GuestIoStep(r) ==
    /\ \E result \in {"ok", "err"} :
          /\ \/ /\ \E S \in SUBSET Stripes : BaseIoDone(r, result, S)
                /\ UNCHANGED image_io
             \/ ImageIoDone(r, result) /\ UNCHANGED <<base_io, diskVars>>
          /\ Faulty(result = "err")
    /\ UNCHANGED <<channelVars, owner, allWorker, meta_cache, meta_durable>>

-----------------------------------------------------------------------------
(* The worker thread.                                                      *)

WorkerStep ==
    /\ \/ /\ \/ ProcessRequest \/ ReceiveDone \/ AutofetchStep \/ FetcherLoopDone
             \/ TakeFinishedFetches \/ DisconnectStep
          /\ NoFault
       \/ \E ok \in BOOLEAN :
             /\ \/ StartFetchStep(ok)
                \/ \E s \in Stripes : PollSourceStep(s, ok) \/ PollTargetStep(s, ok)
             /\ Faulty(~ok)
       \/ \E ok \in BOOLEAN :
             /\ StartWritesStep(ok) \/ PollChannelStep(ok)
             /\ ok \/ MetaMayFail
             /\ Faulty(~ok)
    /\ UNCHANGED allGuest

StopWorker ==
    /\ MayShutdown /\ ~done
    /\ \A i \in DOMAIN bgworker_ch : bgworker_ch[i] # Shutdown
    /\ bgworker_ch' = Append(bgworker_ch, Shutdown)
    /\ UNCHANGED <<worker_pc, done, flusherVars, fetcherVars, allIoVars, sharedVars,
                   mediaVars, allGuest>>
    /\ NoFault

-----------------------------------------------------------------------------
(* The devices.                                                            *)

SourceStep(s) ==
    /\ \E result \in {"ok", "err"} : SourceIoDone(s, result) /\ Faulty(result = "err")
    /\ UNCHANGED <<bgVars, flusherVars, meta_io, allGuest, meta_cache, meta_durable>>

TargetStep(s) ==
    /\ \E result \in {"ok", "err"} : TargetIoDone(s, result) /\ Faulty(result = "err")
    /\ UNCHANGED <<bgVars, flusherVars, meta_io, allGuest, meta_cache, meta_durable>>

MetaStep(s) ==
    /\ \E result \in {"ok", "err"} :
          /\ MetaIoDone(s, result)
          /\ result = "ok" \/ MetaMayFail
          /\ Faulty(result = "err")
    /\ UNCHANGED <<bgVars, fetcherVars, fetchIoVars, diskVars, allGuest>>

\* Write-back matters only for what a power loss leaves.
WriteBackStep ==
    /\ power_losses < MaxPowerLosses
    /\ \/ /\ \E s \in Stripes : DiskWriteBack(s)
          /\ UNCHANGED <<flusherVars, meta_io, meta_cache, meta_durable>>
       \/ /\ \E sector \in Sectors : MetaWriteBack(sector)
          /\ UNCHANGED <<fetcherVars, fetchIoVars, diskVars>>
    /\ UNCHANGED <<bgVars, allGuest>>
    /\ NoFault

PowerLoss ==
    /\ power_losses < MaxPowerLosses
    /\ power_losses' = power_losses + 1
    /\ UNCHANGED faults
    /\ WorkerReload
    /\ disk_cache' = disk_durable
    /\ UNCHANGED <<disk_durable, owner>>
    /\ queued_rw_requests' = [c \in Channels |-> <<>>]
    /\ finished_requests' = [c \in Channels |-> {}]
    /\ stripe_fetches_requested' = [c \in Channels |-> {}]
    /\ base_io' = <<>>
    /\ image_io' = <<>>
    /\ req' = [r \in Requests |-> IF req[r].st = "open"
                                  THEN [req[r] EXCEPT !.st = "lost"] ELSE req[r]]

LNext ==
    \/ \E c \in Channels : (\E r \in Requests : Issue(c, r)) \/ PollStep(c)
    \/ \E r \in Requests : GuestIoStep(r)
    \/ WorkerStep
    \/ StopWorker
    \/ \E s \in Stripes : SourceStep(s) \/ TargetStep(s) \/ MetaStep(s)
    \/ WriteBackStep
    \/ PowerLoss

LSpec == LInit /\ [][LNext]_lazyVars

\* Threads run, the frontends poll a busy channel, and devices answer.
LFairSpec ==
    /\ LSpec
    /\ WF_lazyVars(WorkerStep)
    /\ \A c \in Channels : WF_lazyVars(PollStep(c))
    /\ \A r \in Requests : WF_lazyVars(GuestIoStep(r))
    /\ \A s \in Stripes : /\ WF_lazyVars(SourceStep(s))
                          /\ WF_lazyVars(TargetStep(s))
                          /\ WF_lazyVars(MetaStep(s))

-----------------------------------------------------------------------------
(* Properties.                                                             *)

LTypeOK ==
    /\ MFTypeOK /\ FTypeOK /\ BgTypeOK /\ ChannelTypeOK
    /\ faults \in 0 .. MaxFaults /\ power_losses \in 0 .. MaxPowerLosses

\* The base device's content that survives a power loss, as the guest will
\* see it after the restart.
Medium(s) ==
    IF HAS_SOURCE \in meta_durable[s] /\ FETCHED \notin meta_durable[s]
    THEN SourceData ELSE disk_durable[s]

Disk == INSTANCE GuestDisk WITH
    content <- [s \in Stripes |-> Content(s)],
    media <- [s \in Stripes |-> Medium(s)],
    InitialContent <- [s \in Stripes |-> IF s \in SourceStripes
                                         THEN SourceData ELSE BlankData]

\* With all its background copying, failures and restarts, the lazy device
\* behaves towards the guest as a plain disk that held the source's data from
\* the start: no fetch overwrites a guest write, no read returns data that
\* was never there, an acknowledged flush holds across a power loss.
ImplementsGuestDisk == Disk!GSpec

\* The comment at metadata_flags::FETCHED: the bit means that the stripe's
\* data is present in the disk device.  On the media it holds at every
\* moment, whatever was in progress when power is lost: a stripe with the
\* bit has the source's data or a guest's write.
FetchedMeansPresent ==
    \A s \in SourceStripes :
        FETCHED \in meta_durable[s] => disk_durable[s] # BlankData

\* While a fetch of a stripe is under way nobody else writes the stripe: the
\* write of the fetcher cannot land on top of a guest write.
FetchExcludesGuestWrites ==
    \A s \in DOMAIN target_io, r \in DOMAIN base_io :
        ~(req[r].kind = Out /\ s \in Covered(r))

\* A fetch and the guest never mix: a stripe with a durable FETCHED bit has the
\* source's data or a guest's write on the medium, whatever was in progress when
\* power is lost, and while the fetcher writes a stripe nobody else does.
CopiedSafely == FetchedMeansPresent /\ FetchExcludesGuestWrites

\* With track_written, a write reaches the base device only after the
\* WRITTEN bit of its stripes is durable: the archive and the stripe server
\* decide from that bit whether a stripe has data.
MarkedBeforeWritten ==
    TrackWritten => \A s \in Stripes :
        disk_cache[s] \in Requests => WRITTEN \in meta_durable[s]

\* What the archive command reads of a stripe of a stopped device, and which
\* stripes it skips: start_fetch_stripe and stripe_should_be_archived.
ArchiverReads(s) ==
    IF {WRITTEN, FETCHED} \cap meta_durable[s] # {} THEN disk_durable[s] ELSE SourceData
ArchiverSkips(s) == {WRITTEN, HAS_SOURCE} \cap meta_durable[s] = {}

\* With track_written, the archive command, which goes by the durable headers,
\* skips only blank stripes and takes of the others what the device itself would
\* show after a restart, whenever power is lost: but for a stripe with a source
\* that is marked WRITTEN before its fetch is durable.
ArchiverSeesTheDevice ==
    TrackWritten => \A s \in Stripes :
        IF ArchiverSkips(s) THEN Medium(s) = BlankData
        ELSE meta_durable[s] # {HAS_SOURCE, WRITTEN} => ArchiverReads(s) = Medium(s)

\* With track_written a guest's data is on the disk only under a durable
\* WRITTEN bit, also when power is lost between the two; and the archive of the
\* device as it then is holds what the device would show after a restart, but for
\* a stripe with a source that is marked before its fetch is durable.
TrackedWritesAreMarked == MarkedBeforeWritten /\ ArchiverSeesTheDevice

\* Where an open request may be, besides on a channel of a device.
Waits(r) ==
    \E c \in Channels : \E i \in DOMAIN queued_rw_requests[c] : queued_rw_requests[c][i] = r
Rejected(r) == \E c \in Channels : r \in finished_requests[c]

PlacedOnce(r) ==
    /\ req[r].st = "open" <=> \/ Waits(r) \/ Rejected(r)
                              \/ r \in DOMAIN base_io \/ r \in DOMAIN image_io
    /\ Waits(r) => ~Rejected(r) /\ r \notin DOMAIN base_io /\ r \notin DOMAIN image_io
    /\ Rejected(r) => r \notin DOMAIN base_io /\ r \notin DOMAIN image_io
    /\ r \in DOMAIN base_io => r \notin DOMAIN image_io

OwnRequests(c) ==
    /\ \A i, j \in DOMAIN queued_rw_requests[c] :
          queued_rw_requests[c][i] = queued_rw_requests[c][j] => i = j
    /\ \A i \in DOMAIN queued_rw_requests[c] : owner[queued_rw_requests[c][i]] = c
    /\ \A r \in finished_requests[c] : owner[r] = c

\* Every request is in exactly one place until it is answered, on the channel it
\* was issued on and once, so that it is answered once, and by its own thread.
OnePlace ==
    /\ \A r \in Requests : PlacedOnce(r)
    /\ \A c \in Channels : OwnRequests(c)

\* The README on copy_on_read = true: a read of an unfetched stripe "completes
\* once the stripe has been copied to the base device".
CopiedReadsComplete ==
    \A r \in Requests :
        (/\ req[r].st = "open" /\ req[r].kind = In
         /\ \A s \in Covered(r) : Medium(s) = disk_durable[s] \/ disk_durable[s] = SourceData)
        ~> req[r].st # "open"

\* Every request is answered, or lost to a power loss.
RequestsAnswered ==
    \A r \in Requests : req[r].st = "open" ~> req[r].st # "open"

-----------------------------------------------------------------------------
(* The inductive invariant behind these properties.                        *)

\* The fetch of the stripe is done: the I/O threads see it, or the fetcher has
\* its data on the medium and waits for the metadata.
Secured(s) ==
    \/ stripe_fetched_if_needed(s)
    \/ s \in DOMAIN stripe_states /\ stripe_states[s] = "Fetched"

\* FETCHED appears in a copy of the headers, in the flusher's queue, on the
\* metadata device, only for a stripe whose fetch is done.
MarksSecured ==
    /\ \A s \in Stripes :
          FETCHED \in headers[s] \cup meta_cache[s] \cup meta_durable[s] => Secured(s)
    /\ \A i \in DOMAIN queued_requests :
          queued_requests[i].bit = FETCHED => Secured(queued_requests[i].stripe_id)

\* The base device has the data of every published stripe, in its cache and on
\* its medium, and copies of the source only of stripes that have one.
CopiesPresent ==
    /\ \A s \in SourceStripes : stripe_fetched_if_needed(s) =>
          disk_cache[s] # BlankData /\ disk_durable[s] # BlankData
    /\ \A s \in Stripes \ SourceStripes :
          disk_cache[s] # SourceData /\ disk_durable[s] # SourceData

\* With track_written, a guest's data is only where the I/O threads see the
\* stripe as written.
WritesPublished ==
    TrackWritten => \A s \in Stripes :
        disk_cache[s] \in Requests \/ disk_durable[s] \in Requests => stripe_written(s)

\* A request on the base device touches published stripes only, a read from the
\* image is of the source's data, and a read has seen what its stripes hold.  A
\* request is served only on the channel of a device.
RequestSound(r) ==
    /\ req[r].st = "new" \/ Waits(r) => ~req[r].done
    /\ req[r].st = "open" /\ req[r].kind = In =>
          \A s \in Covered(r) : Content(s) \in req[r].seen[s]
    /\ r \in DOMAIN base_io =>
          /\ req[r].kind # Flush => \A s \in Covered(r) : stripe_fetched_if_needed(s)
          /\ TrackWritten /\ req[r].kind = Out => AllWritten(Covered(r))
          /\ base_io[r] = "none" => ~req[r].done
          /\ base_io[r] = "ok" => req[r].done
    /\ r \in DOMAIN image_io =>
          /\ req[r].kind = In
          /\ \A s \in Covered(r) : SourceData \in req[r].seen[s]
          /\ image_io[r] = "none" => ~req[r].done
          /\ image_io[r] = "ok" => req[r].done

RequestsSound == \A r \in Requests : RequestSound(r)

LInv ==
    /\ LTypeOK
    /\ MFInv /\ FInv
    /\ MarksSecured
    /\ CopiesPresent
    /\ WritesPublished
    /\ OnePlace
    /\ RequestsSound

-----------------------------------------------------------------------------
\* Requests are interchangeable: TLC explores one of two states that differ only
\* by an exchange of two of them.
RequestSymmetry ==
    {[r \in Requests |-> IF r = p THEN q ELSE IF r = q THEN p ELSE r] : p, q \in Requests}
=============================================================================
