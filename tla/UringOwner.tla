----------------------------- MODULE UringOwner -----------------------------
(***************************************************************************)
(* The io_uring channel with an owner that keeps the contract stated in     *)
(* bdev_uring.rs: a slot is not reused until its completion.                *)
(***************************************************************************)
EXTENDS UringChannel

CONSTANT GivesUp  \* the owner takes a failed submit for failed requests

VARIABLES slot,     \* the request that each id stands for
          issued,   \* requests that were added
          answered  \* requests that were answered or given up
ownerVars == <<slot, issued, answered>>
uVars == <<ringVars, ownerVars>>

UInit ==
    /\ RingInit
    /\ slot = [i \in Ids |-> NoRequest]
    /\ issued = {} /\ answered = {}

OwnerAdd(i, r) ==
    /\ slot[i] = NoRequest /\ r \notin issued
    /\ slot' = [slot EXCEPT ![i] = r]
    /\ issued' = issued \cup {r}
    /\ UNCHANGED answered
    /\ \/ RingAdd([id |-> i, req |-> r])
       \/ RingAddFlush([id |-> i, req |-> r])

\* The owners that give up (cleanup_failed_submission of the flusher, the
\* failure path of the fetcher and of ublk) forget what they have just added.
OwnerSubmit(ok) ==
    /\ RingSubmit(ok)
    /\ LET lost == IF GivesUp /\ ~ok THEN {e.id : e \in ToSet(sq)} ELSE {}
       IN  /\ slot' = [i \in Ids |-> IF i \in lost THEN NoRequest ELSE slot[i]]
           /\ answered' = answered \cup {slot[i] : i \in lost}
    /\ UNCHANGED issued

OwnerPoll ==
    /\ Polled # <<>>
    /\ RingPoll
    /\ slot' = [i \in Ids |-> IF \E a \in ToSet(Polled) : a.id = i THEN NoRequest
                                                                  ELSE slot[i]]
    /\ answered' = answered \cup {a.req : a \in ToSet(Polled)}
    /\ UNCHANGED issued

\* A request that the owner answers without the channel: a chain that cannot be
\* parsed, a type that is not served, a length that is refused.
OwnerAnswers(r) ==
    /\ r \notin issued
    /\ issued' = issued \cup {r} /\ answered' = answered \cup {r}
    /\ UNCHANGED <<ringVars, slot>>

UNext ==
    \/ \E e \in kernel, ok \in BOOLEAN : KernelAnswers(e, ok) /\ UNCHANGED ownerVars
    \/ \E ok \in BOOLEAN : OwnerSubmit(ok)
    \/ OwnerPoll
    \/ \E i \in Ids, r \in Requests : OwnerAdd(i, r)
    \/ \E r \in Requests : OwnerAnswers(r)

USpec == UInit /\ [][UNext]_uVars

-----------------------------------------------------------------------------
AnswerRecord == [id : Ids, req : Requests, ok : BOOLEAN]

UTypeOK ==
    /\ sq \in Seq(Entry) /\ Len(sq) <= QueueSize
    /\ cq \in Seq(AnswerRecord) /\ finished_requests \in Seq(AnswerRecord)
    /\ kernel \subseteq Entry /\ IsFiniteSet(kernel)
    /\ pending \in 0 .. Len(sq)
    /\ submissions \in Nat /\ completions \in Nat /\ faults \in Nat
    /\ slot \in [Ids -> Requests \cup {NoRequest}]
    /\ issued \subseteq Requests /\ answered \subseteq Requests

\* How many entries and answers the channel holds for an id.
Held(i) ==
    LET mine(s) == Cardinality({k \in DOMAIN s : s[k].id = i})
    IN  mine(sq) + mine(cq) + mine(finished_requests) + Cardinality({e \in kernel : e.id = i})

\* An id in use has exactly one entry or answer in the channel, and a free id
\* none, whatever submits fail or fall short: no answer is lost or doubled.
OneAnswerEach ==
    \A i \in Ids : Held(i) = IF slot[i] = NoRequest THEN 0 ELSE 1

\* What the channel holds under an id belongs to the request that the id now
\* stands for, and that request was not answered before: an answer never
\* reaches a later user of its id.
AnswersOwned ==
    \A e \in ToSet(sq) \cup ToSet(cq) \cup ToSet(finished_requests) \cup kernel :
        e.req = slot[e.id] /\ e.req \notin answered

\* busy() is true exactly while a request is unanswered: process_queue and
\* process_pending_requests stop polling when it is false.
BusyWhileOpen == ring_busy <=> \E i \in Ids : slot[i] # NoRequest

-----------------------------------------------------------------------------
(* The inductive invariant behind these properties.                        *)

InSeq(s, i) == \E k \in DOMAIN s : s[k].id = i
InKernel(i) == \E e \in kernel : e.id = i

\* An id is in one of the four places if it is in use, and in none otherwise.
HeldOnce(i) ==
    /\ slot[i] # NoRequest <=>
          \/ InSeq(sq, i) \/ InSeq(cq, i) \/ InSeq(finished_requests, i) \/ InKernel(i)
    /\ InSeq(sq, i) => ~InSeq(cq, i) /\ ~InSeq(finished_requests, i) /\ ~InKernel(i)
    /\ InSeq(cq, i) => ~InSeq(finished_requests, i) /\ ~InKernel(i)
    /\ InSeq(finished_requests, i) => ~InKernel(i)

\* No id is twice in a sequence, and each element is of the id's request.
Exact(s) ==
    /\ \A j, k \in DOMAIN s : s[j].id = s[k].id => j = k
    /\ \A k \in DOMAIN s : s[k].req = slot[s[k].id]

KernelExact ==
    /\ \A e, f \in kernel : e.id = f.id => e = f
    /\ \A e \in kernel : e.req = slot[e.id]

\* A request is issued once, under one id, and answered when its id is free.
SlotsExact ==
    /\ answered \subseteq issued
    /\ \A i \in Ids : slot[i] # NoRequest =>
          slot[i] \in issued \ answered /\ \A j \in Ids : slot[j] = slot[i] => j = i

\* The counters of the channel tell how much is under way.
Balanced ==
    submissions + pending = completions + Len(sq) + Cardinality(kernel) + Len(cq)

UInv ==
    /\ UTypeOK
    /\ \A i \in Ids : HeldOnce(i)
    /\ Exact(sq) /\ Exact(cq) /\ Exact(finished_requests) /\ KernelExact
    /\ SlotsExact
    /\ Balanced
=============================================================================
