---------------------------- MODULE UringChannel ----------------------------
(***************************************************************************)
(* The io_uring channel of block_device/bdev_uring.rs and the kernel under *)
(* it.  A submission entry carries the owner's id as user_data; the field   *)
(* req is a ghost that tells apart two requests that use the same id.       *)
(*                                                                          *)
(* A submit that fails leaves its entries in the submission queue, and a    *)
(* short one leaves some of them: the kernel takes entries from the front   *)
(* and returns how many it took.  Both are counted by faults.  What the     *)
(* kernel answers is not bounded by the completion ring here.               *)
(*                                                                          *)
(* The Ring... operators are the calls of the trait IoChannel; the module   *)
(* of an owner conjoins them with its own steps.                            *)
(***************************************************************************)
EXTENDS Integers, Sequences, FiniteSets, SequencesExt

CONSTANTS Ids,         \* the ids the owner uses (slots, tags or stripes)
          Requests,    \* the requests of the owner, each issued once
          NoRequest,
          QueueSize,   \* entries of the submission queue
          SyncIo,      \* the file is opened with O_SYNC
          MaxFaults    \* bound: submits that fail or are short

VARIABLES sq,                 \* the submission queue shared with the kernel
          pending,            \* entries pushed since the last submit
          submissions, completions,
          finished_requests,  \* answers the channel gives by itself
          kernel,             \* entries the kernel works on
          cq,                 \* the completion queue
          faults              \* submits that have failed or were short

ringVars == <<sq, pending, submissions, completions, finished_requests, kernel, cq, faults>>

Entry == [id : Ids, req : Requests]
Answer(e, ok) == [id |-> e.id, req |-> e.req, ok |-> ok]

RingInit ==
    /\ sq = <<>> /\ cq = <<>> /\ finished_requests = <<>>
    /\ pending = 0 /\ submissions = 0 /\ completions = 0
    /\ kernel = {}
    /\ faults = 0

\* add_read and add_write: push, or report a failure when the queue is full.
RingAdd(e) ==
    /\ UNCHANGED <<submissions, completions, kernel, cq, faults>>
    /\ \/ /\ Len(sq) < QueueSize
          /\ sq' = Append(sq, e)
          /\ pending' = pending + 1
          /\ UNCHANGED finished_requests
       \/ /\ Len(sq) = QueueSize
          /\ finished_requests' = Append(finished_requests, Answer(e, FALSE))
          /\ UNCHANGED <<sq, pending>>

\* add_flush: with O_SYNC there is nothing to flush.
RingAddFlush(e) ==
    \/ ~SyncIo /\ RingAdd(e)
    \/ /\ SyncIo
       /\ finished_requests' = Append(finished_requests, Answer(e, TRUE))
       /\ UNCHANGED <<sq, pending, submissions, completions, kernel, cq, faults>>

\* The kernel takes the first n entries of the submission queue.
Take(n) ==
    /\ kernel' = kernel \cup {sq[i] : i \in 1 .. n}
    /\ sq' = SubSeq(sq, n + 1, Len(sq))

\* submit: nothing is sent when nothing was added since the last call.
RingSubmit(ok) ==
    /\ UNCHANGED <<completions, finished_requests, cq>>
    /\ \/ /\ pending = 0
          /\ ok
          /\ UNCHANGED <<sq, pending, submissions, kernel, faults>>
       \/ /\ pending > 0
          /\ submissions' = submissions + pending
          /\ pending' = 0
          /\ \/ ok /\ Take(Len(sq)) /\ UNCHANGED faults
             \/ /\ faults < MaxFaults
                /\ faults' = faults + 1
                /\ IF ok THEN \E n \in 1 .. Len(sq) - 1 : Take(n)
                         ELSE UNCHANGED <<sq, kernel>>

\* What poll returns, and its effect.
Polled == finished_requests \o cq
RingPoll ==
    /\ finished_requests' = <<>>
    /\ cq' = <<>>
    /\ completions' = completions + Len(cq)
    /\ UNCHANGED <<sq, pending, submissions, kernel, faults>>

ring_busy == submissions > completions \/ finished_requests # <<>> \/ pending > 0

KernelAnswers(e, ok) ==
    /\ e \in kernel
    /\ kernel' = kernel \ {e}
    /\ cq' = Append(cq, Answer(e, ok))
    /\ UNCHANGED <<sq, pending, submissions, completions, finished_requests, faults>>

=============================================================================
