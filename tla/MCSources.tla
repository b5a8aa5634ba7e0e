----------------------------- MODULE MCSources -----------------------------
(*****************************************************************************)
(* Archives and remote stripe servers, side by side: part says which         *)
(* component this behaviour is about, the variables it does not have are 0.  *)
(*   store           a caller of an S3 store with two workers, of which one  *)
(*                   may not start;                                          *)
(*   archiver_s3     two runs of the archiver on one bucket, with a source   *)
(*                   that ends inside its last stripe;                       *)
(*   archiver_fs     two runs on one directory, encrypted, where a kill may  *)
(*                   cut an object short;                                    *)
(*   archiver_live   one run on a bucket, for its end;                       *)
(*   format          an archive with one damaged field;                      *)
(*   source          the export of an archive in a bucket;                   *)
(*   source_fs       the export of an encrypted archive in a directory;      *)
(*   server          the stripe server on any volume of three stripes, and   *)
(*                   its shell;                                              *)
(*   remote          the remote source with two workers, three faults, and   *)
(*                   an address that is repointed once;                      *)
(*   remote_live     the same with one retry and no repointing, for its end; *)
(*   remote_late     the same where a connection the client has given up on  *)
(*                   may still deliver.                                      *)
(*****************************************************************************)
EXTENDS Naturals, Sequences, FiniteSets, TLC

CONSTANTS
    Parts,
    w1, w2      \* the threads of an S3Store, or of the remote source

VARIABLES
    part,
    request_tx, finished_puts, finished_gets, bucket,
    requests, worker, results,
    started, answered, dropped,
    headers, disk, source, run, next_stripe_id, available, stripe_fetch_buffers,
    reading, seen_object_keys, inflight_puts, want,
    pc,
    buffer, faults,
    stripe_hashes,
    archive, damaged, opened,
    pending_requests, buffers, finished_requests, next_submit, written, in_flight, file,
    vol, srv, alive, metadata, fetched_stripes, shown,
    servers, served, phase, conn, dialled, expected, pending, repoints

-----------------------------------------------------------------------------
V == INSTANCE StripeVolume WITH DEFAULT_SHIFT <- 1, MAX_LEGACY_SHIFT <- 2, MaxMetadataSectors <- 4

\* A volume with a written, an unfetched and an empty stripe; another of the same
\* stripe size and fewer stripes; one of the same number and another size.
Stripe(hdr, content) == [hdr |-> hdr, disk |-> content]
Main  == V!Volume("v2", TRUE, TRUE, 1,
           <<Stripe({"WRITTEN"}, "guest"), Stripe({"HAS_SOURCE", "WRITTEN"}, "zero"), Stripe({}, "zero")>>)
Short == V!Volume("none", FALSE, FALSE, 1, <<Stripe({}, "guest"), Stripe({}, "guest")>>)
Other == V!Volume("v0_2", FALSE, TRUE, 2,
           <<Stripe({"bit0"}, "image"), Stripe({}, "zero"), Stripe({}, "zero")>>)
Addressed == [main |-> Main, short |-> Short, other |-> Other]

\* Every volume of three stripes: current metadata, tracked or not, with or
\* without a source; v0.2.x metadata, with a shift in or out of range; none.
Three == 1 .. 3
Volumes ==
    {V!Volume("v2", TRUE, src, 1, st) : src \in BOOLEAN, st \in [Three -> V!V2Stripe(TRUE)]}
    \cup {V!Volume("v2", FALSE, src, 1, st) : src \in BOOLEAN, st \in [Three -> V!V2Stripe(FALSE)]}
    \cup {V!Volume("v0_2", t, src, sh, st) :
            t \in BOOLEAN, src \in BOOLEAN, sh \in {1, 3}, st \in [Three -> V!LegacyStripe]}
    \cup {V!Volume("none", FALSE, FALSE, 1, st) :
            st \in [Three -> {[hdr |-> {}, disk |-> d] : d \in {"zero", "guest"}}]}

C == INSTANCE ArchiveStoreCaller WITH
    Workers <- {w1, w2}, FileSystem <- FALSE, Names <- {"a", "b"}, MaxRequests <- 3,
    Unstartable <- {w1}
A3 == INSTANCE Archiver WITH
    Workers <- {w1, w2}, FileSystem <- FALSE, StripeCount <- 2, Concurrency <- 1,
    Encrypt <- FALSE, Short <- {1}, MaxRuns <- 2, MaxFaults <- 1
AF == INSTANCE Archiver WITH
    Workers <- {}, FileSystem <- TRUE, StripeCount <- 2, Concurrency <- 2,
    Encrypt <- TRUE, Short <- {}, MaxRuns <- 2, MaxFaults <- 1
AL == INSTANCE Archiver WITH
    Workers <- {w1}, FileSystem <- FALSE, StripeCount <- 2, Concurrency <- 1,
    Encrypt <- FALSE, Short <- {}, MaxRuns <- 1, MaxFaults <- 1
D == INSTANCE ArchiveFormat WITH
    SECTOR_SIZE <- 8, MaxLen <- 20
S == INSTANCE ArchiveSource WITH
    Workers <- {w1, w2}, FileSystem <- FALSE, StripeCount <- 3, MAX_FETCHES <- 2,
    Encrypt <- FALSE
SF == INSTANCE ArchiveSource WITH
    Workers <- {}, FileSystem <- TRUE, StripeCount <- 3, MAX_FETCHES <- 2,
    Encrypt <- TRUE
H == INSTANCE StripeShell WITH
    DEFAULT_SHIFT <- 1, MAX_LEGACY_SHIFT <- 2, MaxMetadataSectors <- 4,
    Volumes <- Volumes, MaxStripe <- 4
R == INSTANCE RemoteSource WITH
    DEFAULT_SHIFT <- 1, MAX_LEGACY_SHIFT <- 2, MaxMetadataSectors <- 4,
    Workers <- {w1, w2}, Volumes <- Addressed, First <- "main", Shift <- 1,
    Stripes <- {1, 2, 3}, MAX_ATTEMPTS <- 2, MaxFaults <- 3, MaxRepoints <- 1,
    LateReplies <- FALSE, RepointInBuild <- FALSE
RL == INSTANCE RemoteSource WITH
    DEFAULT_SHIFT <- 1, MAX_LEGACY_SHIFT <- 2, MaxMetadataSectors <- 4,
    Workers <- {w1, w2}, Volumes <- Addressed, First <- "main", Shift <- 1,
    Stripes <- {1, 2, 3}, MAX_ATTEMPTS <- 1, MaxFaults <- 3, MaxRepoints <- 0,
    LateReplies <- FALSE, RepointInBuild <- FALSE
RT == INSTANCE RemoteSource WITH
    DEFAULT_SHIFT <- 1, MAX_LEGACY_SHIFT <- 2, MaxMetadataSectors <- 4,
    Workers <- {w1, w2}, Volumes <- Addressed, First <- "main", Shift <- 1,
    Stripes <- {1, 2, 3}, MAX_ATTEMPTS <- 1, MaxFaults <- 3, MaxRepoints <- 1,
    LateReplies <- TRUE, RepointInBuild <- FALSE

StoreVars ==
    <<request_tx, finished_puts, finished_gets, bucket>>
PoolVars == <<requests, worker, results>>
CallerVars == <<started, answered, dropped>>
RunVars ==
    <<headers, disk, source, run, next_stripe_id, available, stripe_fetch_buffers,
    reading, seen_object_keys, inflight_puts, want>>
PcVars == <<pc>>
BufferVars == <<buffer, faults>>
HashesVars == <<stripe_hashes>>
DamageVars == <<archive, damaged, opened>>
ExportVars ==
    <<pending_requests, buffers, finished_requests, next_submit, written, in_flight,
    file>>
ShellVars ==
    <<vol, srv, alive, metadata, fetched_stripes, shown>>
RemoteVars ==
    <<servers, served, phase, conn, dialled, expected, pending, repoints>>

NoStore ==
    /\ request_tx = 0 /\ finished_puts = 0 /\ finished_gets = 0 /\ bucket = 0
NoPool ==
    /\ requests = 0 /\ worker = 0 /\ results = 0
NoCaller ==
    /\ started = 0 /\ answered = 0 /\ dropped = 0
NoRun ==
    /\ headers = 0 /\ disk = 0 /\ source = 0 /\ run = 0 /\ next_stripe_id = 0
    /\ available = 0 /\ stripe_fetch_buffers = 0 /\ reading = 0 /\ seen_object_keys = 0
    /\ inflight_puts = 0 /\ want = 0
NoPc == pc = 0
NoBuffer == buffer = 0 /\ faults = 0
NoHashes == stripe_hashes = 0
NoDamage ==
    /\ archive = 0 /\ damaged = 0 /\ opened = 0
NoExport ==
    /\ pending_requests = 0 /\ buffers = 0 /\ finished_requests = 0 /\ next_submit = 0
    /\ written = 0 /\ in_flight = 0 /\ file = 0
NoShell ==
    /\ vol = 0 /\ srv = 0 /\ alive = 0 /\ metadata = 0 /\ fetched_stripes = 0
    /\ shown = 0
NoRemote ==
    /\ servers = 0 /\ served = 0 /\ phase = 0 /\ conn = 0 /\ dialled = 0 /\ expected = 0
    /\ pending = 0 /\ repoints = 0

Init ==
    /\ part \in Parts
    /\ \/ part = "store" /\ C!CInit
       \/ part = "archiver_s3" /\ A3!AInit
       \/ part = "archiver_fs" /\ AF!AInit
       \/ part = "archiver_live" /\ AL!AInit
       \/ part = "format" /\ D!FInit
       \/ part = "source" /\ S!SInit
       \/ part = "source_fs" /\ SF!SInit
       \/ part = "server" /\ H!HInit
       \/ part = "remote" /\ R!RInit
       \/ part = "remote_live" /\ RL!RInit
       \/ part = "remote_late" /\ RT!RInit
    /\ IF part \in {"store", "archiver_s3", "archiver_fs", "archiver_live", "source", "source_fs"} THEN TRUE ELSE NoStore
    /\ IF part \in {"store", "archiver_s3", "archiver_fs", "archiver_live", "source", "source_fs", "remote", "remote_live", "remote_late"} THEN TRUE ELSE NoPool
    /\ IF part = "store" THEN TRUE ELSE NoCaller
    /\ IF part \in {"archiver_s3", "archiver_fs", "archiver_live"} THEN TRUE ELSE NoRun
    /\ IF part \in {"archiver_s3", "archiver_fs", "archiver_live", "source", "source_fs", "server"} THEN TRUE ELSE NoPc
    /\ IF part \in {"archiver_s3", "archiver_fs", "archiver_live", "remote", "remote_live", "remote_late"} THEN TRUE ELSE NoBuffer
    /\ IF part \in {"archiver_s3", "archiver_fs", "archiver_live", "source", "source_fs"} THEN TRUE ELSE NoHashes
    /\ IF part = "format" THEN TRUE ELSE NoDamage
    /\ IF part \in {"source", "source_fs"} THEN TRUE ELSE NoExport
    /\ IF part = "server" THEN TRUE ELSE NoShell
    /\ IF part \in {"remote", "remote_live", "remote_late"} THEN TRUE ELSE NoRemote

Next ==
    /\ UNCHANGED part
    /\ \/ part = "store" /\ C!CNext
       \/ part = "archiver_s3" /\ A3!ANext
       \/ part = "archiver_fs" /\ AF!ANext
       \/ part = "archiver_live" /\ AL!ANext
       \/ part = "format" /\ D!FNext
       \/ part = "source" /\ S!SNext
       \/ part = "source_fs" /\ SF!SNext
       \/ part = "server" /\ H!HNext
       \/ part = "remote" /\ R!RNext
       \/ part = "remote_live" /\ RL!RNext
       \/ part = "remote_late" /\ RT!RNext
    /\ IF part \in {"store", "archiver_s3", "archiver_fs", "archiver_live", "source", "source_fs"} THEN TRUE ELSE UNCHANGED StoreVars
    /\ IF part \in {"store", "archiver_s3", "archiver_fs", "archiver_live", "source", "source_fs", "remote", "remote_live", "remote_late"} THEN TRUE ELSE UNCHANGED PoolVars
    /\ IF part = "store" THEN TRUE ELSE UNCHANGED CallerVars
    /\ IF part \in {"archiver_s3", "archiver_fs", "archiver_live"} THEN TRUE ELSE UNCHANGED RunVars
    /\ IF part \in {"archiver_s3", "archiver_fs", "archiver_live", "source", "source_fs", "server"} THEN TRUE ELSE UNCHANGED PcVars
    /\ IF part \in {"archiver_s3", "archiver_fs", "archiver_live", "remote", "remote_live", "remote_late"} THEN TRUE ELSE UNCHANGED BufferVars
    /\ IF part \in {"archiver_s3", "archiver_fs", "archiver_live", "source", "source_fs"} THEN TRUE ELSE UNCHANGED HashesVars
    /\ IF part = "format" THEN TRUE ELSE UNCHANGED DamageVars
    /\ IF part \in {"source", "source_fs"} THEN TRUE ELSE UNCHANGED ExportVars
    /\ IF part = "server" THEN TRUE ELSE UNCHANGED ShellVars
    /\ IF part \in {"remote", "remote_live", "remote_late"} THEN TRUE ELSE UNCHANGED RemoteVars

vars ==
    <<part, StoreVars, PoolVars, CallerVars, RunVars, PcVars, BufferVars, HashesVars,
    DamageVars, ExportVars, ShellVars, RemoteVars>>
Spec == Init /\ [][Next]_vars

\* The commands' loops run and their callers poll, the worker threads and the
\* server's sessions run, the service answers or its client times out, and the
\* stripe fetcher asks again for what has failed.
FairSpec ==
    /\ Spec
    /\ WF_(C!callerVars)(part = "store" /\ C!PollStep)
    /\ \A w \in {w1, w2} : WF_(C!callerVars)(part = "store" /\ C!ThreadStep(w))
    /\ WF_(AL!vars)(part = "archiver_live" /\ AL!ArchiverStep)
    /\ WF_(AL!vars)(part = "archiver_live" /\ AL!StoreStep)
    /\ WF_(S!vars)(part = "source" /\ S!ExportStep)
    /\ WF_(S!vars)(part = "source" /\ S!StoreStep)
    /\ WF_(RL!vars)(part = "remote_live" /\ (RL!New \/ \E w \in {w1, w2} : RL!BuildConnect(w)))
    /\ WF_(RL!vars)(part = "remote_live" /\ RL!Poll)
    /\ WF_(RL!vars)(part = "remote_live" /\ \E s \in 1 .. 3 : RL!Request(s))
    /\ WF_(RL!vars)(part = "remote_live" /\ \E w \in {w1, w2} : RL!SessionStep(w))
    /\ \A w \in {w1, w2} : WF_(RL!vars)(part = "remote_live" /\ RL!WorkerStep(w))

-----------------------------------------------------------------------------
(* Archives.                                                               *)

\* Every request to an S3 store is in one place, in the channel, with a worker
\* or answered, and is answered once, unless no worker could start; a put that
\* was reported as done is stored, and a get returns what some put of that name
\* wrote; and Drop leaves no queued put of a store with a live worker undone.
StoreSound ==
    part = "store" => C!RequestsConserved /\ C!DoneIsStored /\ C!DropFlushes

\* A target that opens is complete, however often the command was killed,
\* failed or run again on it: every object the mapping names is there, whole,
\* and encrypted with the key of metadata.json.  What it restores is what the
\* guest saw when its run began: stripes come from the disk or the source as the
\* headers say, a reused buffer leaves nothing of an earlier stripe, the mapping
\* no stripe out.  A run that reports success has made an archive that opens,
\* its own, and put_object starts polling for its object when no answer to an
\* upload is left, since it throws others away.
RestoresTheDevice ==
    /\ part = "archiver_s3" => /\ A3!OpensOnlyComplete /\ A3!RestoresTheDevice
                               /\ A3!SuccessOpens /\ A3!UploadsAwaited
    /\ part = "archiver_fs" => /\ AF!OpensOnlyComplete /\ AF!RestoresTheDevice
                               /\ AF!SuccessOpens

\* What the archiver wrote opens, and any archive that opens has the stripe
\* size, the compression and the mapping it wrote, whatever single field was
\* damaged or belongs to another run; a compressed stripe comes back whole, and
\* one that lost compressed bytes is refused.
DamageDetected == part = "format" => D!DamageDetected /\ D!FrameRoundTrip

\* A finished export is the archived device, holes and zero stripes included;
\* lost or damaged objects end it in an error instead.  A buffer that is written
\* to the file has the stripe's own data, when stripes share an object and are
\* answered together too, and each stripe in flight is reported by one poll.
ExportIsArchive ==
    /\ part = "source" => S!ExportIsArchive /\ S!BuffersRight /\ S!InFlightAwaited
    /\ part = "source_fs" => SF!ExportIsArchive /\ SF!BuffersRight

-----------------------------------------------------------------------------
(* The stripe server and the remote stripe source.                         *)

\* A fetched stripe is what a guest of the volume reads, whatever the format of
\* its metadata and whether or not it tracks writes; a source built from the
\* server's metadata knows of every stripe with contents; what the metadata
\* announces is never refused; and no volume is refused that has all its
\* contents at hand.
ServedIsVisible ==
    part = "server" => /\ H!ServedIsVisible
                       /\ H!NothingHidden
                       /\ H!AnnouncedIsServed
                       /\ H!StartsWhenComplete

\* The bytes in a buffer are those of the stripe it was for, as a guest of the
\* volume they came from reads it: never an answer to an earlier request.
DeliveredIsRequested ==
    /\ part = "remote" => R!DeliveredIsRequested
    /\ part = "remote_late" => RT!DeliveredIsRequested

\* That, and: a request of the fetcher is in one place, the channel, a worker or
\* the results, whatever the workers' connections do, and what is delivered for
\* it comes from a server of the geometry the source was built with, also when
\* the address has been repointed since.
DeliveredOnceFromExpected ==
    /\ DeliveredIsRequested
    /\ part = "remote" => R!RequestsOnce /\ R!DeliveredFromExpected

-----------------------------------------------------------------------------
(* What must end.                                                          *)

\* Nobody waits for ever.  As long as one worker of an S3 store starts, all
\* requests are answered or the store is dropped: that archiver and fetcher wait
\* without a timeout is safe.  Every archiver run ends, as no buffer is lost that
\* a later stripe waits for and no upload is waited for that nobody does; and so
\* does every export, with an error or with every stripe written.  Once faults
\* stop, every stripe the stripe server has is fetched: each request is answered,
\* the fetcher asks again for what failed, and a worker whose connection has
\* died, after a server error too, finds its way back.
SourcesGetOn ==
    /\ (part = "store" /\ Len(started) = 3)
        ~> (part = "store" /\ (Len(answered) = 3 \/ request_tx = "gone"))
    /\ (part = "archiver_live" /\ AL!Running) ~> (part = "archiver_live" /\ ~AL!Running)
    /\ part = "source" ~> (part = "source" /\ pc \in {"done", "failed"})
    /\ (part = "remote_live" /\ phase = "run")
        ~> (part = "remote_live" /\ phase = "run"
            /\ \A s \in 1 .. 3 : RL!HasStripe(expected, s) => s \in RL!Data)
=============================================================================
