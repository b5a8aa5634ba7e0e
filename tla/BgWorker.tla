---------------------------------- MODULE BgWorker ----------------------------------
(***************************************************************************)
(* The background worker (bgworker.rs): one thread that takes requests     *)
(* from the I/O threads' channel and drives the stripe fetcher and the     *)
(* metadata flusher.                                                       *)
(*                                                                         *)
(* worker_pc is the place of the thread in run(): receive_requests, which  *)
(* first blocks in recv() if nothing was busy at the top of the loop, then *)
(* the parts of update() in the code's order.  A poll takes the            *)
(* completions that are visible to it; one that becomes visible while the  *)
(* loop runs is handled by the same loop.                                  *)
(***************************************************************************)
EXTENDS MetadataFlusher, StripeFetcher

VARIABLES
    bgworker_ch,    \* requests sent and not received, oldest first
    worker_pc,
    done            \* a Shutdown request was received

bgVars     == <<bgworker_ch, worker_pc, done>>
workerVars == <<bgVars, flusherVars, fetcherVars>>
allIoVars  == <<fetchIoVars, meta_io>>

Fetch(s)      == [kind |-> "Fetch", stripe_id |-> s]
SetWritten(s) == [kind |-> "SetWritten", stripe_id |-> s]
Shutdown      == [kind |-> "Shutdown", stripe_id |-> 0]

BgWorkerRequest == [kind : {"Fetch", "SetWritten", "Shutdown"}, stripe_id : Stripes]

WorkerPc == {"blocked", "receive", "autofetch", "start_fetches", "poll_source", "poll_target",
             "start_writes", "poll_meta", "disconnect", "stopped"}

worker_busy == fetcher_busy \/ flusher_busy

\* The metadata device is not touched, nor is the base device.
MediaUnchanged == UNCHANGED <<meta_cache, meta_durable, diskVars>>

-----------------------------------------------------------------------------
(* receive_requests: one request, and the end of the loop.                 *)

ProcessRequest ==
    LET req == Head(bgworker_ch) IN
    /\ worker_pc \in {"blocked", "receive"} /\ bgworker_ch # <<>>
    /\ worker_pc' = "receive"
    /\ bgworker_ch' = Tail(bgworker_ch)
    /\ \/ /\ req.kind = "Fetch"
          /\ HandleFetchRequest(req.stripe_id)
          /\ UNCHANGED <<autofetch_queue, flusherVars, done>>
       \/ /\ req.kind = "SetWritten"
          /\ SetStripeWritten(req.stripe_id)
          /\ UNCHANGED <<fetcherVars, fetchIoVars, sharedVars, done>>
       \/ /\ req.kind = "Shutdown"
          /\ done' = TRUE
          /\ UNCHANGED <<fetcherVars, fetchIoVars, sharedVars, flusherVars>>
    /\ UNCHANGED meta_io
    /\ MediaUnchanged

\* try_recv finds the channel empty.
ReceiveDone ==
    /\ worker_pc = "receive" /\ bgworker_ch = <<>>
    /\ worker_pc' = "autofetch"
    /\ UNCHANGED <<bgworker_ch, done, flusherVars, fetcherVars, allIoVars, sharedVars>>
    /\ MediaUnchanged

-----------------------------------------------------------------------------
(* update.                                                                 *)

GoTo(from, to) == worker_pc = from /\ worker_pc' = to /\ UNCHANGED <<bgworker_ch, done>>

AutofetchStep ==
    /\ GoTo("autofetch", "start_fetches")
    /\ \/ UpdateAutofetch
       \/ /\ ~(Autofetch /\ fetch_queue = <<>> /\ autofetch_queue # <<>>)
          /\ UNCHANGED <<fetcherVars, fetchIoVars, sharedVars>>
    /\ UNCHANGED <<flusherVars, meta_io>>
    /\ MediaUnchanged

StartFetchStep(accepted) ==
    /\ GoTo("start_fetches", "start_fetches")
    /\ StartFetch(accepted)
    /\ UNCHANGED <<flusherVars, meta_io>>
    /\ MediaUnchanged

PollSourceStep(s, submitted) ==
    /\ GoTo("poll_source", "poll_source")
    /\ PollSource(s, submitted)
    /\ UNCHANGED <<flusherVars, meta_io>>
    /\ MediaUnchanged

PollTargetStep(s, submitted) ==
    /\ GoTo("poll_target", "poll_target")
    /\ PollTarget(s, submitted)
    /\ UNCHANGED <<flusherVars, meta_io>>
    /\ MediaUnchanged

\* The loops of start_fetches and of the source poll end.
FetcherLoopDone ==
    /\ \/ /\ GoTo("start_fetches", "poll_source")
          /\ fetch_queue = <<>> \/ fetch_buffers = 0
       \/ /\ GoTo("poll_source", "poll_target")
          /\ \A s \in DOMAIN source_io : source_io[s] = "none"
    /\ UNCHANGED <<flusherVars, fetcherVars, allIoVars, sharedVars>>
    /\ MediaUnchanged

\* The elements of S, a finite set of numbers, in ascending order: there is
\* exactly one such sequence.
Ascending(S) ==
    {q \in [1 .. Cardinality(S) -> S] : \A i, j \in DOMAIN q : i < j => q[i] < q[j]}

\* take_finished_fetches: every success becomes a request to the flusher, in
\* the order of the results.
Successes == {i \in DOMAIN finished_fetches : finished_fetches[i].success}

FetchedRequests(order) ==
    [i \in DOMAIN order |->
        [stripe_id |-> finished_fetches[order[i]].stripe_id, bit |-> FETCHED]]

TakeFinishedFetches ==
    /\ GoTo("poll_target", "start_writes")
    /\ \A s \in DOMAIN target_io : target_io[s].result = "none"
    /\ finished_fetches' = <<>>
    /\ \E order \in Ascending(Successes) : EnqueueAll(FetchedRequests(order))
    /\ UNCHANGED <<fetch_queue, autofetch_queue, stripe_states, stripe_fetch_retries,
                   allocated_buffers, fetch_buffers, disconnected, null_source,
                   allIoVars, sharedVars>>
    /\ MediaUnchanged

StartWritesStep(submitted) ==
    /\ GoTo("start_writes", "poll_meta")
    /\ \E n \in 0 .. Len(queued_requests) :
          \/ submitted /\ StartWrites(n)
          \/ ~submitted /\ StartWritesSubmitFails(n)
    /\ UNCHANGED <<fetcherVars, fetchIoVars, diskVars>>

PollChannelStep(submitted) ==
    /\ GoTo("poll_meta", "disconnect")
    /\ PollChannel(submitted)
    /\ UNCHANGED <<fetcherVars, fetchIoVars, diskVars>>

\* The end of update() and the top of run()'s next iteration, where `block` is
\* computed; disconnecting changes nothing that makes the worker busy.
DisconnectStep ==
    /\ GoTo("disconnect", IF done THEN "stopped"
                          ELSE IF worker_busy THEN "receive" ELSE "blocked")
    /\ \/ DisconnectFromSource
       \/ /\ disconnected \/ fetcher_busy \/ ~AllCounted
          /\ UNCHANGED <<fetcherVars, fetchIoVars, sharedVars>>
    /\ UNCHANGED <<flusherVars, meta_io>>
    /\ MediaUnchanged

-----------------------------------------------------------------------------
(* BgWorker::new on freshly loaded headers.                                *)

\* A new worker is busy only with autofetch.
FirstPc(h) == IF AutofetchQueue(h) # <<>> THEN "receive" ELSE "blocked"

WorkerInit(h) ==
    /\ FlusherFresh(h) /\ FetcherInit(h) /\ SharedInit(h)
    /\ bgworker_ch = <<>> /\ worker_pc = FirstPc(h) /\ done = FALSE

WorkerReload ==
    /\ MetaReload /\ FetcherReload(meta_durable)
    /\ bgworker_ch' = <<>> /\ worker_pc' = FirstPc(meta_durable) /\ done' = FALSE

BgTypeOK ==
    /\ worker_pc \in WorkerPc
    /\ done \in BOOLEAN
    /\ bgworker_ch \in Seq(BgWorkerRequest)

=============================================================================
