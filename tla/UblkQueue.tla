----------------------------- MODULE UblkQueue -----------------------------
(***************************************************************************)
(* One queue of the ublk frontend: UblkIoHandler of backends/ublk, over an  *)
(* io_uring channel, with the ublk driver that hands out tags.              *)
(*                                                                          *)
(* The driver delivers commands in batches and handle() is called once for  *)
(* each; the last call of a batch runs process_pending_requests, which      *)
(* returns when the channel is idle or a submit failed.                     *)
(***************************************************************************)
EXTENDS UringChannel

CONSTANTS OpOf,      \* UblkOp of each request
          Oversized  \* requests of more than max_io_bytes

UblkOp == {"Read", "Write", "Flush", "Unsupported"}

VARIABLES
    tag_req,           \* the request the driver has outstanding on each tag
    fetched,           \* commands delivered and not yet seen by the handler
    batch,             \* commands of the batch being handled
    pending_requests,  \* tags
    inflight_requests, \* the request of each tag, or NoRequest
    tracker,           \* IoTracker: kind of I/O per tag
    done,              \* the results that each request was completed with
    step,              \* where process_pending_requests is
    queued             \* its local variable
driverVars == <<tag_req, fetched>>
qVars == <<ringVars, driverVars, batch, pending_requests, inflight_requests, tracker, done,
           step, queued>>

QInit ==
    /\ RingInit
    /\ tag_req = [t \in Ids |-> NoRequest]
    /\ fetched = <<>> /\ batch = <<>> /\ pending_requests = <<>>
    /\ done = [r \in Requests \cup {NoRequest} |-> <<>>]
    /\ inflight_requests = [t \in Ids |-> NoRequest]
    /\ tracker = [t \in Ids |-> "none"]
    /\ step = "wait" /\ queued = FALSE

Completed == {r \in Requests : done[r] # <<>>}

DriverIssues(t, r) ==
    /\ tag_req[t] = NoRequest
    /\ r \notin Completed \cup {tag_req[u] : u \in Ids}
    /\ tag_req' = [tag_req EXCEPT ![t] = r]
    /\ fetched' = Append(fetched, t)
    /\ UNCHANGED <<ringVars, batch, pending_requests, inflight_requests, tracker, done, step,
                   queued>>

\* complete_io_cmd_unified with a result for each of some tags: the driver takes
\* the answer for whatever is outstanding on the tag, if anything is.
Complete(result) ==
    LET tagged(r) == {t \in DOMAIN result : tag_req[t] = r}
    IN  /\ done' = [r \in DOMAIN done |->
                      IF tagged(r) = {} THEN done[r]
                      ELSE Append(done[r], result[CHOOSE t \in tagged(r) : TRUE])]
        /\ tag_req' = [t \in Ids |-> IF t \in DOMAIN result THEN NoRequest ELSE tag_req[t]]
        /\ UNCHANGED fetched

\* wait_and_handle_io of libublk (external) starts with a batch of commands.
DeliverBatch(n) ==
    /\ step = "wait" /\ batch = <<>>
    /\ batch' = SubSeq(fetched, 1, n)
    /\ fetched' = SubSeq(fetched, n + 1, Len(fetched))
    /\ UNCHANGED <<ringVars, tag_req, pending_requests, inflight_requests, tracker, done, step,
                   queued>>

\* Mutant of Handle: only the first command of a batch starts the processing.
HandleFirst(t) ==
    /\ step = "wait" /\ batch # <<>> /\ t = Head(batch)
    /\ batch' = Tail(batch)
    /\ pending_requests' = Append(pending_requests, t)
    /\ step' = IF pending_requests = <<>> /\ Len(batch) = 1 THEN "drain" ELSE "wait"
    /\ queued' = FALSE
    /\ UNCHANGED <<ringVars, inflight_requests, tracker, done, driverVars>>

\* handle: an oversized request is refused and returns early, also when it is
\* the last of its batch.
Handle(t) ==
    /\ step = "wait" /\ batch # <<>> /\ t = Head(batch)
    /\ batch' = Tail(batch)
    /\ \/ /\ tag_req[t] \in Oversized
          /\ Complete([u \in {t} |-> "invalid"])
          /\ UNCHANGED <<pending_requests, step, queued>>
       \/ /\ tag_req[t] \notin Oversized
          /\ pending_requests' = Append(pending_requests, t)
          /\ step' = IF Len(batch) = 1 THEN "drain" ELSE "wait"
          /\ queued' = FALSE
          /\ UNCHANGED <<done, driverVars>>
    /\ UNCHANGED <<ringVars, inflight_requests, tracker>>

\* The inner loop of process_pending_requests with enqueue_request.
Enqueue(t) ==
    /\ step = "drain" /\ pending_requests # <<>> /\ t = Head(pending_requests)
    /\ pending_requests' = Tail(pending_requests)
    /\ LET r == tag_req[t]
           e == [id |-> t, req |-> r]
       IN  \/ /\ OpOf[r] = "Unsupported"
              /\ Complete([u \in {t} |-> "invalid"])
              /\ UNCHANGED <<ringVars, inflight_requests, tracker, queued>>
           \/ /\ OpOf[r] # "Unsupported"
              /\ IF OpOf[r] = "Flush" THEN RingAddFlush(e) ELSE RingAdd(e)
              /\ tracker' = [tracker EXCEPT ![t] = OpOf[r]]
              /\ inflight_requests' = [inflight_requests EXCEPT ![t] = r]
              /\ queued' = TRUE
              /\ UNCHANGED <<driverVars, done>>
    /\ UNCHANGED <<batch, step>>

Inflight == {t \in Ids : inflight_requests[t] # NoRequest}

\* submit, only when something was queued; after a failure every request in
\* flight is completed with an error, and the loop is left.
Submit(ok) ==
    /\ step = "drain" /\ pending_requests = <<>>
    /\ \/ ~queued /\ ok /\ UNCHANGED ringVars
       \/ queued /\ RingSubmit(ok)
    /\ \/ /\ ok
          /\ step' = "poll"
          /\ UNCHANGED <<inflight_requests, driverVars, done>>
       \/ /\ ~ok
          /\ step' = "wait"
          /\ Complete([t \in Inflight |-> "invalid"])
          /\ inflight_requests' = [t \in Ids |-> NoRequest]
    /\ UNCHANGED <<batch, pending_requests, tracker, queued>>

\* The tags of a poll that have a request in flight.  The first answer for a tag
\* is the one that counts, since slot.take() empties the slot.
KnownIds == {t \in Inflight : \E k \in DOMAIN Polled : Polled[k].id = t}
FirstAnswer(t) ==
    Polled[CHOOSE k \in DOMAIN Polled :
             Polled[k].id = t /\ \A j \in 1 .. k - 1 : Polled[j].id # t]

\* complete_request: what a request in flight is completed with.
CompleteRequest(a) == IF a.ok THEN "ok" ELSE "error"

\* Mutant of Poll: the slot is read but not emptied.
PollKeepsSlot ==
    /\ step = "poll"
    /\ RingPoll
    /\ Complete([t \in KnownIds |-> CompleteRequest(FirstAnswer(t))])
    /\ tracker' = [t \in Ids |-> IF t \in KnownIds THEN "none" ELSE tracker[t]]
    /\ step' = IF ring_busy' THEN "drain" ELSE "wait"
    /\ queued' = FALSE
    /\ UNCHANGED <<batch, pending_requests, inflight_requests>>

\* poll, complete_request, and the condition of the outer loop.
Poll ==
    /\ step = "poll"
    /\ RingPoll
    /\ Complete([t \in KnownIds |-> CompleteRequest(FirstAnswer(t))])
    /\ inflight_requests' = [t \in Ids |-> IF t \in KnownIds THEN NoRequest
                                                             ELSE inflight_requests[t]]
    /\ tracker' = [t \in Ids |-> IF t \in KnownIds THEN "none" ELSE tracker[t]]
    /\ step' = IF ring_busy' THEN "drain" ELSE "wait"
    /\ queued' = FALSE
    /\ UNCHANGED <<batch, pending_requests>>

DeviceAnswers(e, ok) ==
    /\ KernelAnswers(e, ok)
    /\ UNCHANGED <<driverVars, batch, pending_requests, inflight_requests, tracker, done, step,
                   queued>>

QueueStep ==
    \/ \E n \in 1 .. Len(fetched) : DeliverBatch(n)
    \/ \E t \in Ids : Handle(t) \/ Enqueue(t)
    \/ \E ok \in BOOLEAN : Submit(ok)
    \/ Poll
DeviceStep == \E e \in kernel, ok \in BOOLEAN : DeviceAnswers(e, ok)

QNext == (\E t \in Ids, r \in Requests : DriverIssues(t, r)) \/ QueueStep \/ DeviceStep

QSpec == QInit /\ [][QNext]_qVars

-----------------------------------------------------------------------------
Results == {"ok", "error", "invalid"}

QTypeOK ==
    /\ tag_req \in [Ids -> Requests \cup {NoRequest}]
    /\ {fetched, batch, pending_requests} \subseteq Seq(Ids)
    /\ inflight_requests \in [Ids -> Requests \cup {NoRequest}]
    /\ tracker \in [Ids -> UblkOp \cup {"none"}]
    /\ done \in [Requests \cup {NoRequest} -> Seq(Results)]
    /\ step \in {"wait", "drain", "poll"} /\ queued \in BOOLEAN

\* No command of the driver is completed twice, no tag is completed that has no
\* command outstanding, and what is in flight is outstanding: also after failed
\* and short submits, whose answers come when the tag may have been reused.
CompletedOnce ==
    /\ \A r \in Requests : Len(done[r]) <= 1
    /\ done[NoRequest] = <<>>
    /\ \A t \in Inflight : inflight_requests[t] = tag_req[t]

\* What the kernel works on is the request that its tag stands for.  This is
\* the contract of bdev_uring.rs: a slot is not reused until its completion.
EntriesOwned == \A e \in kernel : inflight_requests[e.id] = e.req

\* The tracker shows exactly the requests in flight.
TrackerShowsInflight ==
    \A t \in Ids : tracker[t] # "none" <=> t \in Inflight

-----------------------------------------------------------------------------
(* The queue as an owner of the ring, as long as no submit fails.          *)

Issued == Completed \cup {inflight_requests[t] : t \in Inflight}

Owner == INSTANCE UringOwner WITH
    slot <- inflight_requests, issued <- Issued, answered <- Completed, GivesUp <- FALSE

KeepsRingContract == Owner!USpec

\* No submit fails; some may still be short.
SubmitsSucceed == [][~Submit(FALSE)]_qVars

-----------------------------------------------------------------------------
(* The inductive invariants behind these properties.                       *)

Once(s) == \A j, k \in DOMAIN s : s[j] = s[k] => j = k
Apart(s, u) == \A j \in DOMAIN s, k \in DOMAIN u : s[j] # u[k]

\* A tag whose command waits for the handler or for the channel.
Waits(t) == tag_req[t] \in Requests /\ inflight_requests[t] = NoRequest

\* A command waits in one place, or is in flight, until it is completed.
TagsOnce ==
    /\ Once(fetched) /\ Once(batch) /\ Once(pending_requests)
    /\ Apart(fetched, batch) /\ Apart(fetched, pending_requests)
    /\ Apart(batch, pending_requests)
    /\ \A s \in {fetched, batch, pending_requests} : \A k \in DOMAIN s : Waits(s[k])

\* A command is outstanding on one tag, and not completed.
OutstandingOnce ==
    /\ \A t, u \in Ids : tag_req[t] = tag_req[u] /\ tag_req[t] # NoRequest => t = u
    /\ \A t \in Ids : tag_req[t] # NoRequest => done[tag_req[t]] = <<>>

QInv == QTypeOK /\ CompletedOnce /\ TagsOnce /\ OutstandingOnce

\* While no submit fails, the ring and the tracker agree with what is in flight.
QRingInv == QInv /\ Owner!UInv /\ TrackerShowsInflight
=============================================================================
