--------------------------- MODULE UringOwnerProofs ---------------------------
(***************************************************************************)
(* The io_uring channel keeps its promise to every owner that reuses an id *)
(* only after its answer: whatever submits fail or fall short, whatever    *)
(* order the kernel answers in, for every number of ids and every size of  *)
(* the ring.                                                               *)
(***************************************************************************)
EXTENDS UringOwner, FiniteSetTheorems, TLAPS

\* The owner keeps the contract of bdev_uring.rs, and requests are not nothing.
Contract ==
    /\ NoRequest \notin Requests
    /\ QueueSize \in Nat
    /\ GivesUp = FALSE

-----------------------------------------------------------------------------
(* Sequences of entries or answers.                                        *)

\* An element added at the end.
LEMMA InAppend ==
    ASSUME NEW T, NEW s \in Seq(T), NEW e \in T, NEW i
    PROVE  InSeq(Append(s, e), i) <=> InSeq(s, i) \/ e.id = i
<1> DEFINE t == Append(s, e)
<1>1. DOMAIN s = 1 .. Len(s) /\ DOMAIN t = 1 .. Len(s) + 1 /\ Len(s) \in Nat
  OBVIOUS
<1>2. t[Len(s) + 1] = e /\ \A k \in 1 .. Len(s) : t[k] = s[k]
  OBVIOUS
<1> HIDE DEF t
<1>3. ASSUME InSeq(t, i) PROVE InSeq(s, i) \/ e.id = i
  <2>1. PICK k \in 1 .. Len(s) + 1 : t[k].id = i
    BY <1>1, <1>3 DEF InSeq
  <2>2. CASE k = Len(s) + 1
    BY <1>2, <2>1, <2>2
  <2>3. CASE k \in 1 .. Len(s)
    BY <1>1, <1>2, <2>1, <2>3 DEF InSeq
  <2> QED BY <1>1, <2>2, <2>3
<1>4. ASSUME InSeq(s, i) \/ e.id = i PROVE InSeq(t, i)
  BY <1>1, <1>2, <1>4 DEF InSeq
<1> QED BY <1>3, <1>4 DEF t

LEMMA ExactAppend ==
    ASSUME NEW T, NEW s \in Seq(T), NEW e \in T, Exact(s),
           ~InSeq(s, e.id), e.req = slot[e.id]
    PROVE  Exact(Append(s, e))
BY DEF Exact, InSeq

\* The first n elements taken away.
LEMMA InDrop ==
    ASSUME NEW T, NEW s \in Seq(T), NEW n \in 0 .. Len(s), NEW i
    PROVE  /\ SubSeq(s, n + 1, Len(s)) \in Seq(T)
           /\ Len(SubSeq(s, n + 1, Len(s))) = Len(s) - n
           /\ \A k \in 1 .. Len(s) - n : SubSeq(s, n + 1, Len(s))[k] = s[k + n]
           /\ InSeq(SubSeq(s, n + 1, Len(s)), i) <=>
                \E k \in (n + 1) .. Len(s) : s[k].id = i
<1> DEFINE t == SubSeq(s, n + 1, Len(s))
<1>1. t \in Seq(T) /\ Len(t) = Len(s) - n /\ \A k \in 1 .. Len(s) - n : t[k] = s[k + n]
  OBVIOUS
<1>2. ASSUME NEW k \in (n + 1) .. Len(s), s[k].id = i PROVE InSeq(t, i)
  <2>1. k - n \in 1 .. Len(s) - n /\ k - n + n = k
    OBVIOUS
  <2>2. k - n \in DOMAIN t /\ t[k - n] = s[k]
    BY <1>1, <2>1
  <2> QED BY <1>2, <2>2 DEF InSeq
<1>3. ASSUME NEW k \in DOMAIN t, t[k].id = i
      PROVE  \E j \in (n + 1) .. Len(s) : s[j].id = i
  <2>1. k \in 1 .. Len(s) - n
    BY <1>1
  <2>2. k + n \in (n + 1) .. Len(s) /\ t[k] = s[k + n]
    BY <1>1, <2>1
  <2> QED BY <1>3, <2>2
<1> QED BY <1>1, <1>2, <1>3 DEF InSeq

LEMMA ExactDrop ==
    ASSUME NEW T, NEW s \in Seq(T), NEW n \in 0 .. Len(s), Exact(s)
    PROVE  Exact(SubSeq(s, n + 1, Len(s)))
<1> DEFINE t == SubSeq(s, n + 1, Len(s))
<1>1. t \in Seq(T) /\ Len(t) = Len(s) - n /\ \A k \in 1 .. Len(s) - n : t[k] = s[k + n]
  BY InDrop
<1>2. \A k \in DOMAIN t : k \in 1 .. Len(s) - n /\ t[k] = s[k + n] /\ k + n \in DOMAIN s
  BY <1>1
<1>3. \A k \in DOMAIN t : t[k].req = slot[t[k].id]
  BY <1>2 DEF Exact
<1>4. ASSUME NEW j \in DOMAIN t, NEW k \in DOMAIN t, t[j].id = t[k].id PROVE j = k
  <2>1. j + n = k + n
    BY <1>2, <1>4 DEF Exact
  <2> QED BY <1>2, <2>1
<1> QED BY <1>3, <1>4 DEF Exact

LEMMA EmptyExact ==
    ASSUME NEW s, s = <<>>
    PROVE  Exact(s) /\ \A i : ~InSeq(s, i)
<1>1. \A k \in DOMAIN s : FALSE
  OBVIOUS
<1>2. Exact(s)
  BY <1>1, Zenon DEF Exact
<1>3. \A i : ~InSeq(s, i)
  BY <1>1, Zenon DEF InSeq
<1> QED BY <1>2, <1>3

\* What is there for an id counts one.
LEMMA CountInSeq ==
    ASSUME NEW T, NEW s \in Seq(T), Exact(s), NEW i
    PROVE  Cardinality({k \in DOMAIN s : s[k].id = i}) = IF InSeq(s, i) THEN 1 ELSE 0
<1>1. CASE InSeq(s, i)
  <2>1. PICK k \in DOMAIN s : s[k].id = i
    BY <1>1 DEF InSeq
  <2>2. {j \in DOMAIN s : s[j].id = i} = {k}
    BY <2>1 DEF Exact
  <2> QED BY <1>1, <2>2, FS_Singleton
<1>2. CASE ~InSeq(s, i)
  <2>1. {j \in DOMAIN s : s[j].id = i} = {}
    BY <1>2 DEF InSeq
  <2> QED BY <1>2, <2>1, FS_EmptySet
<1> QED BY <1>1, <1>2

LEMMA CountInKernel ==
    ASSUME KernelExact, NEW i
    PROVE  Cardinality({e \in kernel : e.id = i}) = IF InKernel(i) THEN 1 ELSE 0
<1>1. CASE InKernel(i)
  <2>1. PICK e \in kernel : e.id = i
    BY <1>1 DEF InKernel
  <2>2. {f \in kernel : f.id = i} = {e}
    BY <2>1 DEF KernelExact
  <2> QED BY <1>1, <2>2, FS_Singleton
<1>2. CASE ~InKernel(i)
  <2>1. {f \in kernel : f.id = i} = {}
    BY <1>2 DEF InKernel
  <2> QED BY <1>2, <2>1, FS_EmptySet
<1> QED BY <1>1, <1>2

-----------------------------------------------------------------------------
(* What the invariant gives.                                               *)

LEMMA InvOneAnswer == UInv => OneAnswerEach
<1> SUFFICES ASSUME UInv, NEW i \in Ids
             PROVE  Held(i) = IF slot[i] = NoRequest THEN 0 ELSE 1
  BY DEF OneAnswerEach
<1>1. Cardinality({k \in DOMAIN sq : sq[k].id = i}) = IF InSeq(sq, i) THEN 1 ELSE 0
  BY CountInSeq DEF UInv, UTypeOK
<1>2. Cardinality({k \in DOMAIN cq : cq[k].id = i}) = IF InSeq(cq, i) THEN 1 ELSE 0
  BY CountInSeq DEF UInv, UTypeOK
<1>3. Cardinality({k \in DOMAIN finished_requests : finished_requests[k].id = i})
        = IF InSeq(finished_requests, i) THEN 1 ELSE 0
  BY CountInSeq DEF UInv, UTypeOK
<1>4. Cardinality({e \in kernel : e.id = i}) = IF InKernel(i) THEN 1 ELSE 0
  BY CountInKernel DEF UInv
<1>5. HeldOnce(i)
  BY DEF UInv
<1>6. Held(i) = (IF InSeq(sq, i) THEN 1 ELSE 0) + (IF InSeq(cq, i) THEN 1 ELSE 0)
        + (IF InSeq(finished_requests, i) THEN 1 ELSE 0) + (IF InKernel(i) THEN 1 ELSE 0)
  BY <1>1, <1>2, <1>3, <1>4 DEF Held
<1> QED BY <1>5, <1>6 DEF HeldOnce

\* The ids that are anywhere in the channel are the owner's.
LEMMA ElementIds ==
    ASSUME UTypeOK
    PROVE  /\ \A k \in DOMAIN sq : sq[k] \in Entry /\ sq[k].id \in Ids
           /\ \A k \in DOMAIN cq : cq[k] \in AnswerRecord /\ cq[k].id \in Ids
           /\ \A k \in DOMAIN finished_requests :
                 finished_requests[k] \in AnswerRecord /\ finished_requests[k].id \in Ids
           /\ \A e \in kernel : e \in Entry /\ e.id \in Ids
<1>1. \A k \in DOMAIN sq : sq[k] \in Entry
  BY DEF UTypeOK
<1>2. \A k \in DOMAIN cq : cq[k] \in AnswerRecord
  BY DEF UTypeOK
<1>3. \A k \in DOMAIN finished_requests : finished_requests[k] \in AnswerRecord
  BY DEF UTypeOK
<1> QED BY <1>1, <1>2, <1>3 DEF UTypeOK, Entry, AnswerRecord

LEMMA InvBusy == UInv => BusyWhileOpen
<1> SUFFICES ASSUME UInv PROVE BusyWhileOpen
  OBVIOUS
<1>1. Cardinality(kernel) \in Nat /\ (Cardinality(kernel) = 0 <=> kernel = {})
  BY FS_CardinalityType, FS_EmptySet DEF UInv, UTypeOK
<1>2. /\ \A e \in kernel : e.id \in Ids
      /\ \A k \in DOMAIN sq : sq[k].id \in Ids
      /\ \A k \in DOMAIN cq : cq[k].id \in Ids
      /\ \A k \in DOMAIN finished_requests : finished_requests[k].id \in Ids
  BY ElementIds DEF UInv
<1> DEFINE Quiet == sq = <<>> /\ cq = <<>> /\ finished_requests = <<>> /\ kernel = {}
<1>3. Quiet <=> ~\E i \in Ids : slot[i] # NoRequest
  <2>1. ASSUME Quiet, NEW i \in Ids PROVE slot[i] = NoRequest
    BY <2>1, EmptyExact DEF UInv, HeldOnce, InKernel
  <2>2. ASSUME kernel # {} PROVE \E i \in Ids : slot[i] # NoRequest
    BY <1>2, <2>2 DEF UInv, HeldOnce, InKernel
  <2>3. ASSUME sq # <<>> PROVE \E i \in Ids : slot[i] # NoRequest
    <3>1. 1 \in DOMAIN sq
      BY <2>3 DEF UInv, UTypeOK
    <3> QED BY <1>2, <3>1 DEF UInv, HeldOnce, InSeq
  <2>4. ASSUME cq # <<>> PROVE \E i \in Ids : slot[i] # NoRequest
    <3>1. 1 \in DOMAIN cq
      BY <2>4 DEF UInv, UTypeOK
    <3> QED BY <1>2, <3>1 DEF UInv, HeldOnce, InSeq
  <2>5. ASSUME finished_requests # <<>> PROVE \E i \in Ids : slot[i] # NoRequest
    <3>1. 1 \in DOMAIN finished_requests
      BY <2>5 DEF UInv, UTypeOK
    <3> QED BY <1>2, <3>1 DEF UInv, HeldOnce, InSeq
  <2> QED BY <2>1, <2>2, <2>3, <2>4, <2>5
<1>4. Len(sq) \in Nat /\ Len(cq) \in Nat /\ (Len(sq) = 0 <=> sq = <<>>)
      /\ (Len(cq) = 0 <=> cq = <<>>)
  BY DEF UInv, UTypeOK
<1>5. /\ submissions \in Nat /\ completions \in Nat /\ pending \in 0 .. Len(sq)
      /\ submissions + pending = completions + Len(sq) + Cardinality(kernel) + Len(cq)
  BY DEF UInv, UTypeOK, Balanced
<1>6. ring_busy <=> ~Quiet
  BY <1>1, <1>4, <1>5 DEF ring_busy
<1> QED BY <1>3, <1>6 DEF BusyWhileOpen

LEMMA InvOwned == Contract /\ UInv => AnswersOwned
<1> SUFFICES ASSUME Contract, UInv,
                    NEW e \in ToSet(sq) \cup ToSet(cq) \cup ToSet(finished_requests) \cup kernel
             PROVE  e.req = slot[e.id] /\ e.req \notin answered
  BY DEF AnswersOwned
<1>1. e \in Entry \cup AnswerRecord /\ e.req = slot[e.id]
  BY DEF UInv, UTypeOK, Exact, KernelExact, ToSet
<1>2. e.id \in Ids /\ e.req \in Requests
  BY <1>1 DEF Entry, AnswerRecord
<1> QED BY <1>1, <1>2 DEF UInv, SlotsExact, Contract
-----------------------------------------------------------------------------
(* The steps.                                                              *)

LEMMA UInitInv == Contract /\ UInit => UInv
<1> SUFFICES ASSUME Contract, UInit PROVE UInv
  OBVIOUS
<1> USE DEF UInit, RingInit
<1>1. UTypeOK
  BY FS_EmptySet DEF UTypeOK, Contract
<1>2. \A i \in Ids : HeldOnce(i)
  BY EmptyExact DEF HeldOnce, InKernel
<1>3. Exact(sq) /\ Exact(cq) /\ Exact(finished_requests) /\ KernelExact
  BY EmptyExact DEF KernelExact
<1>4. SlotsExact
  BY DEF SlotsExact
<1>5. Balanced
  BY FS_EmptySet DEF Balanced
<1> QED BY <1>1, <1>2, <1>3, <1>4, <1>5 DEF UInv

\* The owner's side of an add: a free id gets a new request.
LEMMA AddSlots ==
    ASSUME Contract, UInv, NEW i \in Ids, NEW r \in Requests,
           slot[i] = NoRequest, r \notin issued,
           slot' = [slot EXCEPT ![i] = r], issued' = issued \cup {r}, UNCHANGED answered
    PROVE  /\ SlotsExact'
           /\ slot' \in [Ids -> Requests \cup {NoRequest}]
           /\ issued' \subseteq Requests /\ answered' \subseteq Requests
           /\ slot'[i] = r /\ \A j \in Ids : j # i => slot'[j] = slot[j]
BY DEF UInv, UTypeOK, SlotsExact, Contract

LEMMA AddInv ==
    ASSUME Contract, UInv, NEW i \in Ids, NEW r \in Requests, OwnerAdd(i, r)
    PROVE  UInv'
<1> DEFINE e == [id |-> i, req |-> r]
<1>1. /\ slot[i] = NoRequest /\ r \notin issued
      /\ slot' = [slot EXCEPT ![i] = r]
      /\ issued' = issued \cup {r} /\ UNCHANGED answered
      /\ RingAdd(e) \/ RingAddFlush(e)
  BY DEF OwnerAdd
<1>2. /\ SlotsExact'
      /\ slot' \in [Ids -> Requests \cup {NoRequest}]
      /\ issued' \subseteq Requests /\ answered' \subseteq Requests
      /\ slot'[i] = r /\ \A j \in Ids : j # i => slot'[j] = slot[j]
  BY <1>1, AddSlots
<1>3. r # NoRequest
  BY DEF Contract
<1>4. ~InSeq(sq, i) /\ ~InSeq(cq, i) /\ ~InSeq(finished_requests, i) /\ ~InKernel(i)
  BY <1>1 DEF UInv, HeldOnce
<1>5. UTypeOK /\ Exact(sq) /\ Exact(cq) /\ Exact(finished_requests) /\ KernelExact
  BY DEF UInv
<1>6. /\ \A k \in DOMAIN sq : sq[k].id \in Ids \ {i}
      /\ \A k \in DOMAIN cq : cq[k].id \in Ids \ {i}
      /\ \A k \in DOMAIN finished_requests : finished_requests[k].id \in Ids \ {i}
      /\ \A f \in kernel : f.id \in Ids \ {i}
  BY <1>4, <1>5, ElementIds DEF InSeq, InKernel
<1>7. UNCHANGED <<submissions, completions, kernel, cq, faults>>
  BY <1>1 DEF RingAdd, RingAddFlush
<1>8. Exact(cq)' /\ KernelExact'
  BY <1>2, <1>5, <1>6, <1>7 DEF Exact, KernelExact
<1>9. CASE /\ Len(sq) < QueueSize /\ sq' = Append(sq, e) /\ pending' = pending + 1
           /\ UNCHANGED finished_requests
  <2>1. e \in Entry
    BY DEF Entry
  <2>2. UTypeOK'
    BY <1>2, <1>5, <1>7, <1>9, <2>1 DEF UTypeOK, Contract
  <2>3. \A j \in Ids : InSeq(sq', j) <=> InSeq(sq, j) \/ j = i
    BY <1>5, <1>9, <2>1, InAppend DEF UTypeOK
  <2>4. \A j \in Ids : HeldOnce(j)'
    <3> SUFFICES ASSUME NEW j \in Ids PROVE HeldOnce(j)'
      OBVIOUS
    <3>1. InSeq(cq', j) = InSeq(cq, j) /\ InSeq(finished_requests', j) = InSeq(finished_requests, j)
          /\ InKernel(j)' = InKernel(j)
      BY <1>7, <1>9 DEF InKernel
    <3>2. HeldOnce(j)
      BY DEF UInv
    <3> QED BY <1>2, <1>3, <1>4, <2>3, <3>1, <3>2 DEF HeldOnce
  <2>5. Exact(sq)' /\ Exact(finished_requests)'
    BY <1>2, <1>5, <1>6, <1>9 DEF Exact, UTypeOK
  <2>6. Balanced'
    <3>1. Cardinality(kernel) \in Nat
      BY <1>5, FS_CardinalityType DEF UTypeOK
    <3>2. Len(sq) \in Nat /\ Len(cq) \in Nat /\ Len(sq') = Len(sq) + 1
          /\ submissions \in Nat /\ completions \in Nat /\ pending \in Nat
      BY <1>5, <1>9 DEF UTypeOK
    <3>3. submissions + pending = completions + Len(sq) + Cardinality(kernel) + Len(cq)
      BY DEF UInv, Balanced
    <3> HIDE DEF e
    <3> QED BY <1>7, <1>9, <3>1, <3>2, <3>3 DEF Balanced
  <2> QED BY <1>2, <1>8, <2>2, <2>4, <2>5, <2>6 DEF UInv
<1>10. ASSUME NEW ok \in BOOLEAN, NEW a, a = Answer(e, ok),
              finished_requests' = Append(finished_requests, a),
              UNCHANGED <<sq, pending>>
       PROVE  UInv'
  <2>1. a \in AnswerRecord /\ a.id = i /\ a.req = r
    BY <1>10 DEF Answer, AnswerRecord
  <2>2. UTypeOK'
    BY <1>2, <1>5, <1>7, <1>10, <2>1 DEF UTypeOK, Contract
  <2>3. \A j \in Ids : InSeq(finished_requests', j) <=> InSeq(finished_requests, j) \/ j = i
    BY <1>5, <1>10, <2>1, InAppend DEF UTypeOK
  <2>4. \A j \in Ids : HeldOnce(j)'
    <3> SUFFICES ASSUME NEW j \in Ids PROVE HeldOnce(j)'
      OBVIOUS
    <3>1. InSeq(cq', j) = InSeq(cq, j) /\ InSeq(sq', j) = InSeq(sq, j)
          /\ InKernel(j)' = InKernel(j)
      BY <1>7, <1>10 DEF InKernel
    <3>2. HeldOnce(j)
      BY DEF UInv
    <3> QED BY <1>2, <1>3, <1>4, <2>3, <3>1, <3>2 DEF HeldOnce
  <2>5. Exact(sq)' /\ Exact(finished_requests)'
    BY <1>2, <1>5, <1>6, <1>10, <2>1 DEF Exact, UTypeOK
  <2>6. Balanced'
    BY <1>7, <1>10 DEF Balanced, UInv
  <2> QED BY <1>2, <1>8, <2>2, <2>4, <2>5, <2>6 DEF UInv
<1> QED BY <1>1, <1>9, <1>10 DEF RingAdd, RingAddFlush

\* The kernel takes the first n entries: as many as are missing in the queue.
LEMMA TakeCount ==
    ASSUME UInv, NEW n \in 0 .. Len(sq), Take(n)
    PROVE  IsFiniteSet(kernel') /\ Cardinality(kernel') = Cardinality(kernel) + n
<1> DEFINE T == {sq[k] : k \in 1 .. n}
           f == [k \in 1 .. n |-> sq[k]]
<1>1. sq \in Seq(Entry) /\ Exact(sq) /\ IsFiniteSet(kernel) /\ 1 .. n \subseteq DOMAIN sq
  BY DEF UInv, UTypeOK
<1>2. f \in Bijection(1 .. n, T)
  <2>1. f \in [1 .. n -> T] /\ \A t \in T : \E k \in 1 .. n : f[k] = t
    OBVIOUS
  <2>2. \A j, k \in 1 .. n : f[j] = f[k] => j = k
    BY <1>1 DEF Exact
  <2> QED BY <2>1, <2>2 DEF Bijection, Injection, Surjection, IsInjective
<1>3. IsFiniteSet(1 .. n) /\ Cardinality(1 .. n) = n
  BY FS_Interval
<1>4. IsFiniteSet(T) /\ Cardinality(T) = n
  <2>1. ExistsBijection(1 .. n, T)
    BY <1>2 DEF ExistsBijection
  <2> HIDE DEF T
  <2> QED BY <1>3, <2>1, FS_Bijection
<1>5. kernel \cap T = {}
  <2> SUFFICES ASSUME NEW k \in 1 .. n, sq[k] \in kernel PROVE FALSE
    OBVIOUS
  <2>1. k \in DOMAIN sq /\ sq[k].id \in Ids
    BY <1>1, ElementIds DEF UInv
  <2>2. InSeq(sq, sq[k].id) /\ InKernel(sq[k].id)
    BY <2>1 DEF InSeq, InKernel
  <2> QED BY <2>1, <2>2 DEF UInv, HeldOnce
<1>6. Cardinality(kernel) \in Nat /\ Cardinality(kernel \cap T) = 0
  BY <1>1, <1>5, FS_CardinalityType, FS_EmptySet
<1>7. kernel' = kernel \cup T
  BY DEF Take
<1> HIDE DEF T
<1>8. /\ IsFiniteSet(kernel \cup T)
      /\ Cardinality(kernel \cup T) =
            Cardinality(kernel) + Cardinality(T) - Cardinality(kernel \cap T)
  BY <1>1, <1>4, FS_Union
<1> QED BY <1>4, <1>6, <1>7, <1>8

\* Where an id is after that.
LEMMA TakePlaces ==
    ASSUME UInv, NEW n \in 0 .. Len(sq), Take(n),
           UNCHANGED <<cq, finished_requests, slot>>
    PROVE  /\ sq' \in Seq(Entry) /\ Len(sq') = Len(sq) - n
           /\ kernel' \subseteq Entry
           /\ \A i \in Ids : HeldOnce(i)'
           /\ Exact(sq)' /\ Exact(cq)' /\ Exact(finished_requests)' /\ KernelExact'
<1>1. sq \in Seq(Entry) /\ Exact(sq) /\ kernel \subseteq Entry
  BY DEF UInv, UTypeOK
<1>2. sq' = SubSeq(sq, n + 1, Len(sq)) /\ kernel' = kernel \cup {sq[k] : k \in 1 .. n}
  BY DEF Take
<1>3. /\ sq' \in Seq(Entry) /\ Len(sq') = Len(sq) - n
      /\ \A i : InSeq(sq', i) <=> \E k \in (n + 1) .. Len(sq) : sq[k].id = i
  BY <1>1, <1>2, InDrop
<1>4. \A k \in DOMAIN sq : sq[k] \in Entry
  BY <1>1
<1>5. kernel' \subseteq Entry
  BY <1>1, <1>2, <1>4
<1>6. \A i : InKernel(i)' <=> InKernel(i) \/ \E k \in 1 .. n : sq[k].id = i
  BY <1>2 DEF InKernel
<1>7. ASSUME NEW i \in Ids PROVE HeldOnce(i)'
  <2>1. HeldOnce(i)
    BY DEF UInv
  <2>2. InSeq(sq, i) <=> InSeq(sq', i) \/ \E k \in 1 .. n : sq[k].id = i
    <3>1. DOMAIN sq = 1 .. Len(sq) /\ Len(sq) \in Nat
      BY <1>1
    <3>2. \A k \in DOMAIN sq : k \in 1 .. n \/ k \in (n + 1) .. Len(sq)
      BY <3>1
    <3>3. 1 .. n \subseteq DOMAIN sq /\ (n + 1) .. Len(sq) \subseteq DOMAIN sq
      BY <3>1
    <3> QED BY <1>3, <3>2, <3>3 DEF InSeq
  <2>3. ~(InSeq(sq', i) /\ \E k \in 1 .. n : sq[k].id = i)
    <3> SUFFICES ASSUME NEW j \in (n + 1) .. Len(sq), NEW k \in 1 .. n,
                        sq[j].id = i, sq[k].id = i
                 PROVE  FALSE
      BY <1>3
    <3>1. j \in DOMAIN sq /\ k \in DOMAIN sq
      BY <1>1
    <3>2. j = k
      BY <1>1, <3>1 DEF Exact
    <3> QED BY <3>2
  <2>4. InSeq(cq', i) = InSeq(cq, i)
        /\ InSeq(finished_requests', i) = InSeq(finished_requests, i) /\ slot'[i] = slot[i]
    OBVIOUS
  <2>5. InKernel(i)' <=> InKernel(i) \/ \E k \in 1 .. n : sq[k].id = i
    BY <1>6
  <2> QED BY <2>1, <2>2, <2>3, <2>4, <2>5 DEF HeldOnce
<1>8. Exact(sq)'
  BY <1>1, <1>2, ExactDrop DEF Exact
<1>9. Exact(cq)' /\ Exact(finished_requests)'
  BY DEF UInv, Exact
<1>10. KernelExact'
  <2>1. \A e \in kernel' : e \in kernel \/ \E k \in DOMAIN sq : e = sq[k]
    BY <1>1, <1>2
  <2>2. \A e \in kernel' : e.req = slot'[e.id]
    BY <2>1 DEF UInv, Exact, KernelExact
  <2>3. ASSUME NEW e \in kernel', NEW g \in kernel', e.id = g.id PROVE e = g
    <3>1. CASE e \in kernel /\ g \in kernel
      BY <2>3, <3>1 DEF UInv, KernelExact
    <3>2. ASSUME NEW k \in DOMAIN sq, NEW d \in kernel, d.id = sq[k].id PROVE FALSE
      <4>1. sq[k].id \in Ids
        BY <1>4 DEF Entry
      <4>2. InSeq(sq, sq[k].id) /\ InKernel(sq[k].id)
        BY <3>2 DEF InSeq, InKernel
      <4> QED BY <4>1, <4>2 DEF UInv, HeldOnce
    <3>3. ASSUME NEW j \in DOMAIN sq, NEW k \in DOMAIN sq, sq[j].id = sq[k].id
          PROVE  sq[j] = sq[k]
      BY <1>1, <3>3 DEF Exact
    <3> QED BY <2>1, <2>3, <3>1, <3>2, <3>3
  <2> QED BY <2>2, <2>3 DEF KernelExact
<1> QED BY <1>3, <1>5, <1>7, <1>8, <1>9, <1>10

LEMMA StutterInv == UInv /\ UNCHANGED uVars => UInv'
<1> SUFFICES ASSUME UInv, UNCHANGED uVars PROVE UInv'
  OBVIOUS
<1> USE DEF uVars, ringVars, ownerVars
<1>1. UTypeOK' /\ Balanced' /\ SlotsExact'
  BY DEF UInv, UTypeOK, Balanced, SlotsExact
<1>2. \A i \in Ids : HeldOnce(i)'
  BY DEF UInv, HeldOnce, InKernel, InSeq
<1>3. Exact(sq)' /\ Exact(cq)' /\ Exact(finished_requests)' /\ KernelExact'
  BY DEF UInv, Exact, KernelExact
<1> QED BY <1>1, <1>2, <1>3 DEF UInv

LEMMA SubmitInv ==
    ASSUME Contract, UInv, NEW ok \in BOOLEAN, OwnerSubmit(ok)
    PROVE  UInv'
<1>1. UNCHANGED ownerVars
  BY DEF OwnerSubmit, Contract, UInv, UTypeOK, ownerVars
<1>2. UNCHANGED <<completions, finished_requests, cq>> /\ RingSubmit(ok)
  BY DEF OwnerSubmit, RingSubmit
<1>3. SlotsExact'
  BY <1>1 DEF UInv, SlotsExact, ownerVars
<1>4. /\ Len(sq) \in Nat /\ Len(cq) \in Nat /\ Cardinality(kernel) \in Nat
      /\ pending \in 0 .. Len(sq) /\ submissions \in Nat /\ completions \in Nat
      /\ faults \in Nat /\ Len(sq) <= QueueSize /\ QueueSize \in Nat
      /\ submissions + pending = completions + Len(sq) + Cardinality(kernel) + Len(cq)
  BY FS_CardinalityType DEF UInv, UTypeOK, Balanced, Contract
<1>5. CASE UNCHANGED <<sq, pending, submissions, kernel, faults>>
  BY <1>1, <1>2, <1>5, StutterInv DEF uVars, ringVars
<1>6. ASSUME NEW n \in 0 .. Len(sq), Take(n), pending' = 0,
             submissions' = submissions + pending, faults' \in {faults, faults + 1}
      PROVE  UInv'
  <2>1. IsFiniteSet(kernel') /\ Cardinality(kernel') = Cardinality(kernel) + n
    BY <1>6, TakeCount
  <2>2. /\ sq' \in Seq(Entry) /\ Len(sq') = Len(sq) - n
        /\ kernel' \subseteq Entry
        /\ \A i \in Ids : HeldOnce(i)'
        /\ Exact(sq)' /\ Exact(cq)' /\ Exact(finished_requests)' /\ KernelExact'
    BY <1>1, <1>2, <1>6, TakePlaces DEF ownerVars
  <2>3. Len(sq') \in Nat /\ Len(sq') <= QueueSize /\ pending' \in 0 .. Len(sq')
        /\ submissions' \in Nat /\ faults' \in Nat
    BY <1>4, <1>6, <2>2
  <2>4. UTypeOK'
    BY <1>1, <1>2, <2>1, <2>2, <2>3 DEF UInv, UTypeOK, ownerVars
  <2>5. Balanced'
    BY <1>2, <1>4, <1>6, <2>1, <2>2 DEF Balanced
  <2> QED BY <1>3, <2>2, <2>4, <2>5 DEF UInv
<1>7. CASE /\ UNCHANGED <<sq, kernel>> /\ pending' = 0
           /\ submissions' = submissions + pending /\ faults' = faults + 1
  <2>1. pending' \in 0 .. Len(sq') /\ submissions' \in Nat /\ faults' \in Nat
    BY <1>4, <1>7
  <2>2. UTypeOK'
    BY <1>1, <1>2, <1>7, <2>1 DEF UInv, UTypeOK, ownerVars
  <2>3. Balanced'
    BY <1>2, <1>4, <1>7 DEF Balanced
  <2>4. \A i \in Ids : HeldOnce(i)'
    BY <1>1, <1>2, <1>7 DEF UInv, HeldOnce, InKernel, InSeq, ownerVars
  <2>5. Exact(sq)' /\ Exact(cq)' /\ Exact(finished_requests)' /\ KernelExact'
    BY <1>1, <1>2, <1>7 DEF UInv, Exact, KernelExact, ownerVars
  <2> QED BY <1>3, <2>2, <2>3, <2>4, <2>5 DEF UInv
<1>8. CASE /\ pending > 0 /\ submissions' = submissions + pending /\ pending' = 0
           /\ ok /\ Take(Len(sq)) /\ UNCHANGED faults
  <2>1. Len(sq) \in 0 .. Len(sq)
    BY <1>4
  <2> QED BY <1>6, <1>8, <2>1
<1>9. CASE /\ pending > 0 /\ submissions' = submissions + pending /\ pending' = 0
           /\ faults' = faults + 1 /\ \E n \in 1 .. Len(sq) - 1 : Take(n)
  <2>1. PICK n \in 1 .. Len(sq) - 1 : Take(n)
    BY <1>9
  <2>2. n \in 0 .. Len(sq)
    BY <1>4
  <2> QED BY <1>6, <1>9, <2>1, <2>2
<1> QED BY <1>2, <1>5, <1>7, <1>8, <1>9 DEF RingSubmit

LEMMA PollInv ==
    ASSUME Contract, UInv, OwnerPoll
    PROVE  UInv'
<1> DEFINE Back(i) == InSeq(cq, i) \/ InSeq(finished_requests, i)
<1>1. UTypeOK /\ cq \in Seq(AnswerRecord) /\ finished_requests \in Seq(AnswerRecord)
      /\ slot \in [Ids -> Requests \cup {NoRequest}]
  BY DEF UInv, UTypeOK
<1>2. ToSet(Polled) = ToSet(finished_requests) \cup ToSet(cq)
  <2>1. Polled = finished_requests \o cq
    BY DEF Polled
  <2>2. /\ DOMAIN Polled = 1 .. (Len(finished_requests) + Len(cq))
        /\ \A k \in 1 .. Len(finished_requests) : Polled[k] = finished_requests[k]
        /\ \A k \in 1 .. Len(cq) : Polled[k + Len(finished_requests)] = cq[k]
    BY <1>1, <2>1
  <2>3. ToSet(Polled) \subseteq ToSet(finished_requests) \cup ToSet(cq)
    <3> SUFFICES ASSUME NEW k \in DOMAIN Polled
                 PROVE  Polled[k] \in ToSet(finished_requests) \cup ToSet(cq)
      BY DEF ToSet
    <3>1. CASE k \in 1 .. Len(finished_requests)
      BY <1>1, <2>2, <3>1 DEF ToSet
    <3>2. CASE k \notin 1 .. Len(finished_requests)
      <4>1. PICK j \in 1 .. Len(cq) : k = j + Len(finished_requests)
        <5>1. k - Len(finished_requests) \in 1 .. Len(cq)
              /\ k = (k - Len(finished_requests)) + Len(finished_requests)
          BY <1>1, <2>2, <3>2
        <5> QED BY <5>1
      <4> QED BY <1>1, <2>2, <4>1 DEF ToSet
    <3> QED BY <3>1, <3>2
  <2>4. ToSet(finished_requests) \subseteq ToSet(Polled)
    <3> SUFFICES ASSUME NEW k \in 1 .. Len(finished_requests)
                 PROVE  finished_requests[k] \in ToSet(Polled)
      BY <1>1 DEF ToSet
    <3>1. k \in DOMAIN Polled
      BY <1>1, <2>2
    <3> QED BY <2>2, <3>1 DEF ToSet
  <2>5. ToSet(cq) \subseteq ToSet(Polled)
    <3> SUFFICES ASSUME NEW k \in 1 .. Len(cq) PROVE cq[k] \in ToSet(Polled)
      BY <1>1 DEF ToSet
    <3>1. k + Len(finished_requests) \in DOMAIN Polled
      BY <1>1, <2>2
    <3> QED BY <2>2, <3>1 DEF ToSet
  <2> QED BY <2>3, <2>4, <2>5
<1>3. \A i : (\E a \in ToSet(Polled) : a.id = i) <=> Back(i)
  BY <1>2 DEF ToSet, InSeq
<1>4. /\ slot' = [i \in Ids |-> IF Back(i) THEN NoRequest ELSE slot[i]]
      /\ answered' = answered \cup {a.req : a \in ToSet(Polled)}
      /\ UNCHANGED issued
  BY <1>3 DEF OwnerPoll
<1>5. /\ finished_requests' = <<>> /\ cq' = <<>> /\ completions' = completions + Len(cq)
      /\ UNCHANGED <<sq, pending, submissions, kernel, faults>>
  BY DEF OwnerPoll, RingPoll
<1>6. \A a \in ToSet(Polled) : a.req = slot[a.id] /\ a.req \in Requests /\ a.id \in Ids
                               /\ Back(a.id)
  <2>1. \A k \in DOMAIN cq : cq[k] \in AnswerRecord /\ cq[k].req = slot[cq[k].id]
    BY <1>1, ElementIds DEF UInv, Exact
  <2>2. \A k \in DOMAIN finished_requests :
           /\ finished_requests[k] \in AnswerRecord
           /\ finished_requests[k].req = slot[finished_requests[k].id]
    BY <1>1, ElementIds DEF UInv, Exact
  <2> QED BY <1>2, <2>1, <2>2 DEF ToSet, AnswerRecord, InSeq
<1>7. UTypeOK'
  BY <1>1, <1>4, <1>5, <1>6 DEF UTypeOK
<1>8. ASSUME NEW i \in Ids PROVE HeldOnce(i)'
  <2>1. HeldOnce(i)
    BY DEF UInv
  <2>2. ~InSeq(cq', i) /\ ~InSeq(finished_requests', i)
    BY <1>5, EmptyExact
  <2>3. InSeq(sq', i) = InSeq(sq, i) /\ InKernel(i)' = InKernel(i)
    BY <1>5 DEF InKernel
  <2>4. slot'[i] = IF Back(i) THEN NoRequest ELSE slot[i]
    BY <1>4
  <2> QED BY <2>1, <2>2, <2>3, <2>4 DEF HeldOnce
<1>9. Exact(cq)' /\ Exact(finished_requests)'
  BY <1>5, EmptyExact DEF Exact
<1>10. Exact(sq)' /\ KernelExact'
  <2>1. \A k \in DOMAIN sq : sq[k].id \in Ids /\ ~Back(sq[k].id)
    BY <1>1, ElementIds DEF UInv, HeldOnce, InSeq
  <2>2. \A e \in kernel : e.id \in Ids /\ ~Back(e.id)
    BY <1>1, ElementIds DEF UInv, HeldOnce, InKernel
  <2>3. \A k \in DOMAIN sq : slot'[sq[k].id] = slot[sq[k].id]
    BY <1>4, <2>1
  <2>4. \A e \in kernel : slot'[e.id] = slot[e.id]
    BY <1>4, <2>2
  <2> QED BY <1>5, <2>3, <2>4 DEF UInv, Exact, KernelExact
<1>11. SlotsExact'
  <2>1. answered' \subseteq issued'
    <3>1. \A a \in ToSet(Polled) : a.req # NoRequest
      BY <1>6 DEF Contract
    <3> QED BY <1>4, <1>6, <3>1 DEF UInv, SlotsExact
  <2>2. ASSUME NEW i \in Ids, slot'[i] # NoRequest PROVE slot'[i] \in issued' \ answered'
    <3>1. ~Back(i) /\ slot'[i] = slot[i]
      BY <1>4, <2>2
    <3>2. slot[i] \in issued \ answered
      BY <2>2, <3>1 DEF UInv, SlotsExact
    <3>3. ASSUME NEW a \in ToSet(Polled), a.req = slot[i] PROVE FALSE
      BY <1>6, <2>2, <3>1, <3>3 DEF UInv, SlotsExact
    <3> QED BY <1>4, <3>1, <3>2, <3>3
  <2>3. \A i, j \in Ids : slot'[i] = slot'[j] /\ slot'[i] # NoRequest => i = j
    BY <1>4 DEF UInv, SlotsExact
  <2> QED BY <2>1, <2>2, <2>3 DEF SlotsExact
<1>12. Balanced'
  <2>1. Cardinality(kernel) \in Nat /\ Len(sq) \in Nat /\ Len(cq) \in Nat /\ Len(cq') = 0
        /\ submissions \in Nat /\ completions \in Nat /\ pending \in Nat
    BY <1>1, <1>5, FS_CardinalityType DEF UTypeOK
  <2> QED BY <1>5, <2>1 DEF UInv, Balanced
<1> QED BY <1>7, <1>8, <1>9, <1>10, <1>11, <1>12 DEF UInv

LEMMA KernelAnswersInv ==
    ASSUME Contract, UInv, NEW e \in kernel, NEW ok \in BOOLEAN,
           KernelAnswers(e, ok), UNCHANGED ownerVars
    PROVE  UInv'
<1>1. UTypeOK /\ cq \in Seq(AnswerRecord) /\ IsFiniteSet(kernel) /\ e \in Entry
  BY DEF UInv, UTypeOK
<1>2. /\ kernel' = kernel \ {e} /\ cq' = Append(cq, Answer(e, ok))
      /\ UNCHANGED <<sq, pending, submissions, completions, finished_requests, faults>>
      /\ UNCHANGED <<slot, issued, answered>>
  BY DEF KernelAnswers, ownerVars
<1>3. e.id \in Ids /\ e.req \in Requests
  BY <1>1 DEF Entry
<1>4. Answer(e, ok) \in AnswerRecord /\ Answer(e, ok).id = e.id /\ Answer(e, ok).req = e.req
  BY <1>3 DEF Answer, AnswerRecord
<1>5. /\ IsFiniteSet(kernel') /\ Cardinality(kernel') = Cardinality(kernel) - 1
      /\ Cardinality(kernel) \in Nat
  BY <1>1, <1>2, FS_RemoveElement, FS_CardinalityType
<1>6. UTypeOK'
  BY <1>1, <1>2, <1>4, <1>5 DEF UTypeOK
<1>7. InKernel(e.id) /\ ~InSeq(cq, e.id)
  BY <1>3 DEF UInv, HeldOnce, InKernel
<1>8. \A i : InKernel(i)' <=> InKernel(i) /\ i # e.id
  <2>1. \A f \in kernel : f.id = e.id => f = e
    BY DEF UInv, KernelExact
  <2> QED BY <1>2, <2>1 DEF InKernel
<1>9. \A i : InSeq(cq', i) <=> InSeq(cq, i) \/ i = e.id
  <2> DEFINE a == Answer(e, ok)
  <2>1. a \in AnswerRecord /\ a.id = e.id /\ cq' = Append(cq, a)
    BY <1>2, <1>4
  <2> HIDE DEF a
  <2> QED BY <1>1, <2>1, InAppend
<1>10. ASSUME NEW i \in Ids PROVE HeldOnce(i)'
  <2>1. HeldOnce(i)
    BY DEF UInv
  <2>2. InSeq(sq', i) = InSeq(sq, i) /\ slot'[i] = slot[i]
        /\ InSeq(finished_requests', i) = InSeq(finished_requests, i)
    BY <1>2
  <2>3. /\ InSeq(cq', i) <=> InSeq(cq, i) \/ i = e.id
        /\ InKernel(i)' <=> InKernel(i) /\ i # e.id
    BY <1>8, <1>9
  <2>4. CASE i = e.id
    BY <1>7, <2>1, <2>2, <2>3, <2>4 DEF HeldOnce
  <2>5. CASE i # e.id
    BY <2>1, <2>2, <2>3, <2>5 DEF HeldOnce
  <2> QED BY <2>4, <2>5
<1>11. Exact(cq)'
  <2> DEFINE a == Answer(e, ok)
  <2>1. a \in AnswerRecord /\ a.id = e.id /\ a.req = e.req /\ cq' = Append(cq, a)
    BY <1>2, <1>4
  <2>2. e.req = slot[e.id]
    BY DEF UInv, KernelExact
  <2> HIDE DEF a
  <2>3. Exact(Append(cq, a))
    BY <1>1, <1>7, <2>1, <2>2, ExactAppend DEF UInv
  <2> QED BY <1>2, <2>1, <2>3 DEF Exact
<1>12. Exact(sq)' /\ Exact(finished_requests)' /\ KernelExact' /\ SlotsExact'
  BY <1>2 DEF UInv, Exact, KernelExact, SlotsExact
<1>13. Balanced'
  <2>1. Len(cq') = Len(cq) + 1 /\ Len(cq) \in Nat /\ Len(sq) \in Nat
        /\ submissions \in Nat /\ completions \in Nat /\ pending \in Nat
    BY <1>1, <1>2, <1>4 DEF UTypeOK
  <2> QED BY <1>2, <1>5, <2>1 DEF UInv, Balanced
<1> QED BY <1>6, <1>10, <1>11, <1>12, <1>13 DEF UInv

LEMMA OwnerAnswersInv ==
    ASSUME Contract, UInv, NEW r \in Requests, OwnerAnswers(r)
    PROVE  UInv'
<1>1. /\ UNCHANGED <<sq, pending, submissions, completions, finished_requests, kernel, cq, faults>>
      /\ slot' = slot /\ issued' = issued \cup {r} /\ answered' = answered \cup {r}
      /\ r \notin issued
  BY DEF OwnerAnswers, ringVars
<1>2. UTypeOK' /\ Balanced'
  BY <1>1 DEF UInv, UTypeOK, Balanced
<1>3. SlotsExact'
  BY <1>1 DEF UInv, SlotsExact
<1>4. \A i \in Ids : HeldOnce(i)'
  BY <1>1 DEF UInv, HeldOnce, InSeq, InKernel
<1>5. Exact(sq)' /\ Exact(cq)' /\ Exact(finished_requests)' /\ KernelExact'
  BY <1>1 DEF UInv, Exact, KernelExact
<1> QED BY <1>2, <1>3, <1>4, <1>5 DEF UInv

LEMMA UNextInv == Contract /\ UInv /\ [UNext]_uVars => UInv'
<1> SUFFICES ASSUME Contract, UInv, [UNext]_uVars PROVE UInv'
  OBVIOUS
<1>1. ASSUME NEW i \in Ids, NEW r \in Requests, OwnerAdd(i, r) PROVE UInv'
  BY <1>1, AddInv
<1>2. ASSUME NEW ok \in BOOLEAN, OwnerSubmit(ok) PROVE UInv'
  BY <1>2, SubmitInv
<1>3. CASE OwnerPoll
  BY <1>3, PollInv
<1>4. ASSUME NEW e \in kernel, NEW ok \in BOOLEAN, KernelAnswers(e, ok), UNCHANGED ownerVars
      PROVE  UInv'
  BY <1>4, KernelAnswersInv
<1>5. CASE UNCHANGED uVars
  BY <1>5, StutterInv
<1>6. ASSUME NEW r \in Requests, OwnerAnswers(r) PROVE UInv'
  BY <1>6, OwnerAnswersInv
<1> QED BY <1>1, <1>2, <1>3, <1>4, <1>5, <1>6 DEF UNext

-----------------------------------------------------------------------------
\* The ring and an owner that keeps the contract keep the inductive invariant,
\* through every failed and short submit.
THEOREM RingInvariant == Contract => (USpec => []UInv)
<1> SUFFICES ASSUME Contract PROVE USpec => []UInv
  OBVIOUS
<1>1. UInit => UInv
  BY UInitInv
<1>2. UInv /\ [UNext]_uVars => UInv'
  BY UNextInv
<1> QED BY <1>1, <1>2, PTL DEF USpec

\* The channel holds exactly one entry or answer for an id in use and none for
\* a free one: poll loses no answer and gives none twice.
THEOREM AnsweredExactlyOnce == Contract => (USpec => []OneAnswerEach)
<1> SUFFICES ASSUME Contract PROVE USpec => []OneAnswerEach
  OBVIOUS
<1> QED BY InvOneAnswer, RingInvariant, PTL

\* An answer is of the request that its id stands for, never of an earlier user
\* of the id.
THEOREM AnswersStayOwned == Contract => (USpec => []AnswersOwned)
<1> SUFFICES ASSUME Contract PROVE USpec => []AnswersOwned
  OBVIOUS
<1>1. UInv => AnswersOwned
  BY InvOwned
<1> QED BY <1>1, RingInvariant, PTL

\* busy() is true exactly while some request is unanswered, although submit
\* counts entries the kernel did not take: the owners' loops poll long enough.
THEOREM BusyExactly == Contract => (USpec => []BusyWhileOpen)
<1> SUFFICES ASSUME Contract PROVE USpec => []BusyWhileOpen
  OBVIOUS
<1> QED BY InvBusy, RingInvariant, PTL

=============================================================================
