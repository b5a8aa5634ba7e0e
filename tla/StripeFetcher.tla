------------------------------- MODULE StripeFetcher -------------------------------
(***************************************************************************)
(* The stripe fetcher of the background worker (stripe_fetcher.rs): it     *)
(* copies stripes from the stripe source to the base device, each with a   *)
(* read from the source, a write to the device and a flush, and tries a    *)
(* stripe again up to MaxFetchRetries times when any of these fails.       *)
(*                                                                         *)
(* The base device is a disk with a volatile cache, as in MetadataFlusher; *)
(* a stripe is one datum.  The source is any StripeSource: it answers a    *)
(* request for a stripe with its data or with an error.  One iteration of  *)
(* a loop of the code is one action: an iteration makes its own submit and *)
(* touches one stripe.                                                     *)
(***************************************************************************)
EXTENDS SharedMetadataState, Sequences

CONSTANTS
    SourceStripeCount,      \* source_sector_count.div_ceil(stripe_sector_count)
    MaxConcurrentFetches,   \* MAX_CONCURRENT_FETCHES, the size of the pool
    MaxFetchRetries,        \* MAX_FETCH_RETRIES
    Autofetch               \* the autofetch setting of the stripe source

ASSUME FetcherAssumption ==
    /\ SourceStripeCount \in 0 .. StripeCount
    /\ SourceStripes \subseteq 0 .. (SourceStripeCount - 1)
    /\ MaxConcurrentFetches \in Nat \ {0}
    /\ MaxFetchRetries \in Nat
    /\ Autofetch \in BOOLEAN

VARIABLES
    fetch_queue,            \* stripes waiting for a buffer
    autofetch_queue,        \* stripes that autofetch has not looked at
    stripe_states,          \* stripe -> Queued, Fetching, Flushing, Fetched
    stripe_fetch_retries,   \* retries so far; 0 stands for no entry
    allocated_buffers,      \* stripe -> what the buffer it holds contains
    fetch_buffers,          \* buffers left in buffer_pool
    finished_fetches,       \* results the worker has not taken
    disconnected,
    null_source,            \* stripe_source is the null device
    source_io,              \* stripe -> result of its request to the source
    target_io,              \* stripe -> its request on fetch_target_channel
    disk_cache,             \* stripe -> what a read of the base device returns
    disk_durable            \* stripe -> what survives a power loss

fetcherVars == <<fetch_queue, autofetch_queue, stripe_states, stripe_fetch_retries,
                 allocated_buffers, fetch_buffers, finished_fetches, disconnected,
                 null_source>>
diskVars    == <<disk_cache, disk_durable>>
fetchIoVars == <<source_io, target_io>>

SourceData == "source"      \* the stripe's data in the stripe source
BlankData  == "blank"       \* what the base device holds before any write

\* f with the keys of S removed, and f with key k set to v.
Without(f, S) == [k \in DOMAIN f \ S |-> f[k]]
With(f, k, v) == [j \in DOMAIN f \cup {k} |-> IF j = k THEN v ELSE f[j]]

\* has_fetched_all_stripes: the builder then connects no source at all.
AllFetched(h) == \A s \in Stripes : HAS_SOURCE \in h[s] => FETCHED \in h[s]

AutofetchQueue(h) ==
    IF Autofetch /\ ~AllFetched(h)
    THEN [i \in 1 .. SourceStripeCount |-> i - 1] ELSE <<>>

\* StripeFetcher::new, with the headers that were loaded.
FetcherInit(h) ==
    /\ fetch_queue = <<>>
    /\ autofetch_queue = AutofetchQueue(h)
    /\ stripe_states = <<>>
    /\ stripe_fetch_retries = [s \in Stripes |-> 0]
    /\ allocated_buffers = <<>>
    /\ fetch_buffers = MaxConcurrentFetches
    /\ finished_fetches = <<>>
    /\ disconnected = FALSE
    /\ null_source = AllFetched(h)
    /\ source_io = <<>>
    /\ target_io = <<>>

FetcherReload(h) ==
    /\ fetch_queue' = <<>>
    /\ autofetch_queue' = AutofetchQueue(h)
    /\ stripe_states' = <<>>
    /\ stripe_fetch_retries' = [s \in Stripes |-> 0]
    /\ allocated_buffers' = <<>>
    /\ fetch_buffers' = MaxConcurrentFetches
    /\ finished_fetches' = <<>>
    /\ disconnected' = FALSE
    /\ null_source' = AllFetched(h)
    /\ source_io' = <<>>
    /\ target_io' = <<>>

DiskInit ==
    /\ disk_cache = [s \in Stripes |-> BlankData]
    /\ disk_durable = [s \in Stripes |-> BlankData]

fetcher_busy ==
    \/ fetch_queue # <<>> \/ source_io # <<>> \/ target_io # <<>>
    \/ finished_fetches # <<>> \/ autofetch_queue # <<>>

-----------------------------------------------------------------------------
(* handle_fetch_request and update_autofetch.                              *)

\* Mutants of SkipsFetch: without the test of stripe_states; with one of the
\* fetches in progress only.
SkipsFetchedOnly(s) == stripe_fetched_if_needed(s)
SkipsInProgress(s) == s \in DOMAIN stripe_states /\ stripe_states[s] # "Fetched"

SkipsFetch(s) == stripe_fetched_if_needed(s) \/ s \in DOMAIN stripe_states

HandleFetchRequest(s) ==
    /\ \/ SkipsFetch(s) /\ UNCHANGED <<fetch_queue, stripe_states>>
       \/ /\ ~SkipsFetch(s)
          /\ fetch_queue' = Append(fetch_queue, s)
          /\ stripe_states' = With(stripe_states, s, "Queued")
    /\ UNCHANGED <<stripe_fetch_retries, allocated_buffers, fetch_buffers,
                   finished_fetches, disconnected, null_source, fetchIoVars, sharedVars>>

UpdateAutofetch ==
    /\ Autofetch /\ fetch_queue = <<>> /\ autofetch_queue # <<>>
    /\ autofetch_queue' = Tail(autofetch_queue)
    /\ HandleFetchRequest(Head(autofetch_queue))

-----------------------------------------------------------------------------
(* fetch_completed, with the queue the stripe is taken from or put back on.*)

\* Mutant of ReturnBuffer: the buffer does not go back to the pool.
ForgetBuffer(s, held) ==
    /\ allocated_buffers' = Without(allocated_buffers, {s})
    /\ fetch_buffers' = IF held THEN fetch_buffers ELSE fetch_buffers - 1

\* `held` tells whether the pool count already excludes the stripe's buffer.
ReturnBuffer(s, held) ==
    /\ allocated_buffers' = Without(allocated_buffers, {s})
    /\ fetch_buffers' = IF held THEN fetch_buffers + 1 ELSE fetch_buffers

MayRetry(s) == stripe_fetch_retries[s] < MaxFetchRetries

FetchSucceeded(s) ==
    /\ ReturnBuffer(s, TRUE)
    /\ stripe_states' = With(stripe_states, s, "Fetched")
    /\ stripe_fetch_retries' = [stripe_fetch_retries EXCEPT ![s] = 0]
    /\ finished_fetches' = Append(finished_fetches, [stripe_id |-> s, success |-> TRUE])
    /\ UNCHANGED <<fetch_queue, sharedVars>>

FetchFailed(s, queue, held) ==
    /\ ReturnBuffer(s, held)
    /\ \/ /\ MayRetry(s)
          /\ stripe_fetch_retries' = [stripe_fetch_retries EXCEPT ![s] = @ + 1]
          /\ fetch_queue' = Append(queue, s)
          /\ stripe_states' = With(stripe_states, s, "Queued")
          /\ UNCHANGED <<finished_fetches, sharedVars>>
       \/ /\ ~MayRetry(s)
          /\ stripe_fetch_retries' = [stripe_fetch_retries EXCEPT ![s] = 0]
          /\ fetch_queue' = queue
          /\ stripe_states' = Without(stripe_states, {s})
          /\ finished_fetches' =
               Append(finished_fetches, [stripe_id |-> s, success |-> FALSE])
          /\ SetStripeFailed(s)

-----------------------------------------------------------------------------
(* start_fetches: one iteration takes the head of the queue.               *)

StartFetch(accepted) ==
    LET s == Head(fetch_queue) IN
    /\ fetch_queue # <<>> /\ fetch_buffers > 0
    /\ \/ /\ accepted
          /\ fetch_queue' = Tail(fetch_queue)
          /\ fetch_buffers' = fetch_buffers - 1
          /\ allocated_buffers' = With(allocated_buffers, s, BlankData)
          /\ source_io' = With(source_io, s, "none")
          /\ stripe_states' = With(stripe_states, s, "Fetching")
          /\ UNCHANGED <<stripe_fetch_retries, finished_fetches, sharedVars>>
       \/ /\ ~accepted
          /\ FetchFailed(s, Tail(fetch_queue), FALSE)
          /\ UNCHANGED source_io
    /\ UNCHANGED <<autofetch_queue, disconnected, null_source, target_io>>

-----------------------------------------------------------------------------
(* poll_fetches: one completion of the source, one of the target channel.  *)

NewIo(op) == [op |-> op, result |-> "none"]

PollSource(s, submitted) ==
    /\ s \in DOMAIN source_io /\ source_io[s] # "none"
    /\ source_io' = Without(source_io, {s})
    /\ \/ /\ source_io[s] = "ok" /\ submitted
          /\ target_io' = With(target_io, s, NewIo("write"))
          /\ UNCHANGED <<fetch_queue, stripe_states, stripe_fetch_retries,
                         allocated_buffers, fetch_buffers, finished_fetches, sharedVars>>
       \/ /\ source_io[s] = "err" \/ ~submitted
          /\ FetchFailed(s, fetch_queue, TRUE)
          /\ UNCHANGED target_io
    /\ UNCHANGED <<autofetch_queue, disconnected, null_source>>

\* Mutant of PollTarget: the stripe is done when the write is, unflushed.
PollTargetNoFlush(s, submitted) ==
    /\ s \in DOMAIN target_io /\ target_io[s].result # "none"
    /\ target_io' = Without(target_io, {s})
    /\ \/ target_io[s].result = "ok" /\ FetchSucceeded(s)
       \/ target_io[s].result = "err" /\ FetchFailed(s, fetch_queue, TRUE)
    /\ UNCHANGED <<autofetch_queue, disconnected, null_source, source_io>>

PollTarget(s, submitted) ==
    /\ s \in DOMAIN target_io /\ target_io[s].result # "none"
    /\ \/ /\ target_io[s].result = "ok" /\ stripe_states[s] = "Fetching" /\ submitted
          /\ target_io' = With(target_io, s, NewIo("flush"))
          /\ stripe_states' = With(stripe_states, s, "Flushing")
          /\ UNCHANGED <<fetch_queue, stripe_fetch_retries, allocated_buffers,
                         fetch_buffers, finished_fetches, sharedVars>>
       \/ /\ target_io[s].result = "ok" /\ stripe_states[s] = "Flushing"
          /\ target_io' = Without(target_io, {s})
          /\ FetchSucceeded(s)
       \/ /\ \/ target_io[s].result = "err"
             \/ stripe_states[s] = "Fetching" /\ ~submitted
          /\ target_io' = Without(target_io, {s})
          /\ FetchFailed(s, fetch_queue, TRUE)
    /\ UNCHANGED <<autofetch_queue, disconnected, null_source, source_io>>

-----------------------------------------------------------------------------
(* disconnect_from_source_if_all_fetched: the source object is dropped.    *)

\* Mutant of AllCounted: an idle fetcher disconnects.
NotCounted == TRUE

AllCounted == source_stripes_count = fetched_stripes_count

DisconnectFromSource ==
    /\ ~disconnected /\ ~fetcher_busy /\ AllCounted
    /\ disconnected' = TRUE
    /\ null_source' = TRUE
    /\ source_io' = <<>>
    /\ UNCHANGED <<fetch_queue, autofetch_queue, stripe_states, stripe_fetch_retries,
                   allocated_buffers, fetch_buffers, finished_fetches, target_io,
                   sharedVars>>

-----------------------------------------------------------------------------
(* The source and the base device (external).                              *)

SourceIoDone(s, result) ==
    /\ s \in DOMAIN source_io /\ source_io[s] = "none"
    /\ source_io' = [source_io EXCEPT ![s] = result]
    /\ \/ /\ result = "ok"
          /\ allocated_buffers' =
               [allocated_buffers EXCEPT ![s] =
                   IF null_source THEN BlankData ELSE SourceData]
       \/ result = "err" /\ UNCHANGED allocated_buffers
    /\ UNCHANGED <<fetch_queue, autofetch_queue, stripe_states, stripe_fetch_retries,
                   fetch_buffers, finished_fetches, disconnected, null_source, target_io,
                   diskVars, sharedVars>>

TargetIoDone(s, result) ==
    /\ s \in DOMAIN target_io /\ target_io[s].result = "none"
    /\ target_io' = [target_io EXCEPT ![s].result = result]
    /\ \/ /\ target_io[s].op = "write"
          /\ disk_cache' = [disk_cache EXCEPT ![s] = allocated_buffers[s]]
          /\ UNCHANGED disk_durable
       \/ /\ target_io[s].op = "flush"
          /\ disk_durable' = disk_cache
          /\ UNCHANGED disk_cache
       \/ result = "err" /\ UNCHANGED diskVars
    /\ UNCHANGED <<fetcherVars, source_io, sharedVars>>

DiskWriteBack(s) ==
    /\ disk_durable' = [disk_durable EXCEPT ![s] = disk_cache[s]]
    /\ UNCHANGED <<fetcherVars, fetchIoVars, disk_cache, sharedVars>>

-----------------------------------------------------------------------------
(* The fetcher alone.  The rest of the worker and the guest are reduced to *)
(* what they do to the fetcher: a fetch may be requested at any time,      *)
(* results are taken, a stripe fetched with success is published some time *)
(* later, and from then on the guest writes to it.                         *)

GuestData == "guest"

FInit ==
    /\ FetcherInit(FreshHeaders)
    /\ DiskInit
    /\ SharedInit(FreshHeaders)

\* The worker receives requests, and starts an update, after it took the
\* results of the update before.
RequestFetch(s) ==
    /\ finished_fetches = <<>>
    /\ HandleFetchRequest(s)
    /\ UNCHANGED <<autofetch_queue, diskVars>>

TakeFinished ==
    /\ finished_fetches # <<>>
    /\ finished_fetches' = <<>>
    /\ UNCHANGED <<fetch_queue, autofetch_queue, stripe_states, stripe_fetch_retries,
                   allocated_buffers, fetch_buffers, disconnected, null_source,
                   fetchIoVars, diskVars, sharedVars>>

Unpublished(s) ==
    s \in DOMAIN stripe_states /\ stripe_states[s] = "Fetched" /\ ~stripe_fetched_if_needed(s)

Publish(s) ==
    /\ Unpublished(s) /\ finished_fetches = <<>>
    /\ SetStripeHeaders({s}, [t \in {s} |-> {HAS_SOURCE, FETCHED}])
    /\ UNCHANGED <<fetcherVars, fetchIoVars, diskVars>>

GuestWrite(s) ==
    /\ stripe_fetched_if_needed(s)
    /\ disk_cache' = [disk_cache EXCEPT ![s] = GuestData]
    /\ UNCHANGED <<fetcherVars, fetchIoVars, disk_durable, sharedVars>>

FetcherUpdate ==
    /\ \/ finished_fetches = <<>> /\ UpdateAutofetch
       \/ \E ok \in BOOLEAN : StartFetch(ok)
       \/ \E s \in Stripes, ok \in BOOLEAN : PollSource(s, ok) \/ PollTarget(s, ok)
       \/ DisconnectFromSource
    /\ UNCHANGED diskVars

FetchIoDone(s) ==
    \E result \in {"ok", "err"} : SourceIoDone(s, result) \/ TargetIoDone(s, result)

fVars == <<fetcherVars, fetchIoVars, diskVars, sharedVars>>

FNext ==
    \/ \E s \in Stripes : RequestFetch(s) \/ Publish(s) \/ GuestWrite(s)
                           \/ FetchIoDone(s) \/ DiskWriteBack(s)
    \/ TakeFinished
    \/ FetcherUpdate

FSpec == FInit /\ [][FNext]_fVars

\* The worker keeps calling update() and taking results while the fetcher is
\* busy, and the source and the device answer every request.
FFairSpec ==
    /\ FSpec
    /\ WF_fVars(FetcherUpdate)
    /\ WF_fVars(TakeFinished)
    /\ \A s \in Stripes : WF_fVars(FetchIoDone(s))

-----------------------------------------------------------------------------
FTypeOK ==
    /\ SharedTypeOK
    /\ fetch_queue \in Seq(Stripes)
    /\ autofetch_queue \in Seq(Stripes)
    /\ DOMAIN stripe_states \subseteq Stripes
    /\ \A s \in DOMAIN stripe_states :
          stripe_states[s] \in {"Queued", "Fetching", "Flushing", "Fetched"}
    /\ stripe_fetch_retries \in [Stripes -> 0 .. MaxFetchRetries]
    /\ DOMAIN allocated_buffers \subseteq Stripes
    /\ fetch_buffers \in 0 .. MaxConcurrentFetches
    /\ finished_fetches \in Seq([stripe_id : Stripes, success : BOOLEAN])
    /\ disconnected \in BOOLEAN /\ null_source \in BOOLEAN
    /\ DOMAIN source_io \subseteq Stripes
    /\ \A s \in DOMAIN source_io : source_io[s] \in {"none", "ok", "err"}
    /\ DOMAIN target_io \subseteq Stripes
    /\ \A s \in DOMAIN target_io :
          target_io[s] \in [op : {"write", "flush"}, result : {"none", "ok", "err"}]
    /\ DOMAIN disk_cache = Stripes /\ DOMAIN disk_durable = Stripes

\* No buffer is lost or returned twice by any of the failure paths that end in
\* fetch_completed, and a buffer stays with its stripe from the request to the
\* source until the flush: it never goes back to the pool under an I/O.
FetchBuffersHeld ==
    /\ fetch_buffers + Cardinality(DOMAIN allocated_buffers) = MaxConcurrentFetches
    /\ DOMAIN allocated_buffers = DOMAIN source_io \cup DOMAIN target_io

\* A stripe waits in the queue exactly while its state says so, and only once:
\* retries, manual requests and autofetch never queue it twice.
QueueExact ==
    /\ {fetch_queue[i] : i \in DOMAIN fetch_queue} =
         {s \in DOMAIN stripe_states : stripe_states[s] = "Queued"}
    /\ \A i, j \in DOMAIN fetch_queue : fetch_queue[i] = fetch_queue[j] => i = j

\* The comment in poll_fetches: read, write, flush, and only then mark the
\* stripe.  A stripe reported as fetched is on the durable medium.
FinishedIsDurable ==
    \A s \in Stripes : Unpublished(s) => disk_durable[s] = SourceData

\* The source is let go only when no stripe needs it any more.
DisconnectedMeansFetched ==
    null_source => \A s \in SourceStripes : stripe_fetch_states[s] = Fetched

\* A fetch never overwrites what the guest wrote, however often the stripe is
\* requested, retried, failed and requested again.
GuestDataKept ==
    [][\A s \in Stripes : disk_cache[s] = GuestData => disk_cache'[s] = GuestData]_fVars

-----------------------------------------------------------------------------
(* The inductive invariant behind these properties.                        *)

\* The fetcher keeps a state only for stripes of the source, and until the
\* fetch of such a stripe is done nothing publishes it as fetched.
TrackedUnfetched ==
    /\ DOMAIN stripe_states \subseteq SourceStripes
    /\ \A s \in DOMAIN stripe_states :
          stripe_states[s] # "Fetched" => ~stripe_fetched_if_needed(s)

\* A stripe has at most one request under way, the one its state names.
IoMatchesState ==
    /\ DOMAIN source_io \cap DOMAIN target_io = {}
    /\ \A s \in DOMAIN source_io :
          s \in DOMAIN stripe_states /\ stripe_states[s] = "Fetching"
    /\ \A s \in DOMAIN target_io :
          /\ s \in DOMAIN stripe_states
          /\ \/ target_io[s].op = "write" /\ stripe_states[s] = "Fetching"
             \/ target_io[s].op = "flush" /\ stripe_states[s] = "Flushing"

\* Where the source's data is at each point of a fetch: in the buffer once the
\* source answered, in the disk's cache once the write did, on the medium once
\* the flush did, and there until the stripe is published.
FetchDataSound ==
    /\ \A s \in DOMAIN source_io :
          source_io[s] = "ok" => allocated_buffers[s] = SourceData
    /\ \A s \in DOMAIN target_io :
          /\ target_io[s].op = "write" => allocated_buffers[s] = SourceData
          /\ target_io[s].op = "flush" \/ target_io[s].result = "ok"
                => disk_cache[s] = SourceData
          /\ target_io[s].op = "flush" /\ target_io[s].result = "ok"
                => disk_durable[s] = SourceData
    /\ \A s \in Stripes :
          Unpublished(s) => disk_cache[s] = SourceData /\ disk_durable[s] = SourceData

\* A success the worker has not taken yet is about a stripe that is done.
FinishedMatchesState ==
    \A i \in DOMAIN finished_fetches :
        finished_fetches[i].success =>
            /\ finished_fetches[i].stripe_id \in DOMAIN stripe_states
            /\ stripe_states[finished_fetches[i].stripe_id] = "Fetched"

FInv ==
    /\ FTypeOK
    /\ CountersExact /\ NoSourceExact
    /\ FetchBuffersHeld
    /\ QueueExact
    /\ TrackedUnfetched
    /\ IoMatchesState
    /\ FetchDataSound
    /\ FinishedMatchesState
    /\ DisconnectedMeansFetched

\* In the fetcher's own specification: guest data is only where the guest may
\* write.
GuestWritesFetched ==
    \A s \in Stripes : disk_cache[s] = GuestData => stripe_fetched_if_needed(s)

=============================================================================
