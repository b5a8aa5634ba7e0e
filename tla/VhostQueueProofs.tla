--------------------------- MODULE VhostQueueProofs ---------------------------
(***************************************************************************)
(* A vhost queue, for every number of chains, slots and ring entries, with *)
(* and without EVENT_IDX: it is an owner that keeps the contract of the    *)
(* io_uring channel, so that what UringOwnerProofs shows of the channel    *)
(* holds under it; and from this that no chain is lost or returned twice,  *)
(* and that no wakeup is lost in either direction.                         *)
(***************************************************************************)
EXTENDS VhostQueue, FiniteSetTheorems, WellFoundedInduction, TLAPS

\* The guest has finitely many chains, none of which is the mark of a free slot,
\* and there is an id for every slot that may have to be allocated.
QueueAssumption ==
    /\ NoRequest \notin Requests /\ IsFiniteSet(Requests)
    /\ QueueSize \in Nat /\ Slots \in Nat /\ TrackedSlots \in Nat
    /\ BufSize \in Nat /\ DataLen \in [Requests -> Nat]
    /\ 1 .. (Slots + Cardinality(Requests)) \subseteq Ids
    /\ EventIdx \in BOOLEAN

\* The ring's theorems, about the slots of the queue.
R == INSTANCE UringOwnerProofs WITH
    slot <- SlotOf, issued <- Taken, answered <- Returned, GivesUp <- FALSE

-----------------------------------------------------------------------------
(* The two instances of the owner, and the channel itself, say the same.   *)

LEMMA SameInv == Owner!UInv <=> R!UInv
BY DEF Owner!UInv, Owner!UTypeOK, Owner!HeldOnce, Owner!Exact, Owner!KernelExact,
       Owner!SlotsExact, Owner!Balanced, Owner!InSeq, Owner!InKernel, Owner!Entry,
       Owner!AnswerRecord, Owner!IsFiniteSet, Owner!Cardinality,
       R!UInv, R!UTypeOK, R!HeldOnce, R!Exact, R!KernelExact,
       R!SlotsExact, R!Balanced, R!InSeq, R!InKernel, R!Entry,
       R!AnswerRecord, R!IsFiniteSet, R!Cardinality

LEMMA SameInit == Owner!UInit <=> R!UInit
BY DEF Owner!UInit, Owner!RingInit, R!UInit, R!RingInit

LEMMA SameVars == UNCHANGED Owner!uVars <=> UNCHANGED R!uVars
BY DEF Owner!uVars, Owner!ringVars, Owner!ownerVars, R!uVars, R!ringVars, R!ownerVars

LEMMA SameAdd ==
    ASSUME NEW i, NEW r
    PROVE  Owner!OwnerAdd(i, r) <=> R!OwnerAdd(i, r)
BY DEF Owner!OwnerAdd, Owner!RingAdd, Owner!RingAddFlush, Owner!Answer,
       R!OwnerAdd, R!RingAdd, R!RingAddFlush, R!Answer

LEMMA SameAnswers ==
    ASSUME NEW r
    PROVE  Owner!OwnerAnswers(r) <=> R!OwnerAnswers(r)
BY DEF Owner!OwnerAnswers, Owner!ringVars, R!OwnerAnswers, R!ringVars

LEMMA SameSubmit ==
    ASSUME NEW ok
    PROVE  Owner!OwnerSubmit(ok) <=> R!OwnerSubmit(ok)
BY DEF Owner!OwnerSubmit, Owner!RingSubmit, Owner!Take, Owner!ToSet,
       R!OwnerSubmit, R!RingSubmit, R!Take, R!ToSet

LEMMA SamePoll == Owner!OwnerPoll <=> R!OwnerPoll
BY DEF Owner!OwnerPoll, Owner!RingPoll, Owner!Polled, Owner!ToSet,
       R!OwnerPoll, R!RingPoll, R!Polled, R!ToSet

LEMMA SameKernel ==
    ASSUME NEW e, NEW ok
    PROVE  Owner!KernelAnswers(e, ok) /\ UNCHANGED Owner!ownerVars
             <=> R!KernelAnswers(e, ok) /\ UNCHANGED R!ownerVars
BY DEF Owner!KernelAnswers, Owner!Answer, Owner!ownerVars,
       R!KernelAnswers, R!Answer, R!ownerVars

LEMMA SameNext == [Owner!UNext]_(Owner!uVars) <=> [R!UNext]_(R!uVars)
<1>1. Owner!UNext <=> R!UNext
  BY SameAdd, SameAnswers, SameSubmit, SamePoll, SameKernel DEF Owner!UNext, R!UNext
<1> QED BY <1>1, SameVars
-----------------------------------------------------------------------------
(* Sequences.                                                              *)

\* A set of numbers that is not empty has a least member, which Min names.
LEMMA LeastExists ==
    ASSUME NEW S \in SUBSET Nat, S # {}
    PROVE  \E x \in S : \A y \in S : x <= y
<1>1. PICK x \in S : \A y \in S : ~(<<y, x>> \in OpToRel(<, Nat))
  BY NatLessThanWellFounded, WFMin, Zenon
<1>2. \A y \in S : ~(y < x)
  BY <1>1, Zenon DEF OpToRel
<1> QED BY <1>2

LEMMA MinExists ==
    ASSUME NEW S \in SUBSET Nat, S # {}
    PROVE  Min(S) \in S
BY LeastExists DEF Min

LEMMA HeadTail ==
    ASSUME NEW T, NEW s \in Seq(T), s # <<>>
    PROVE  /\ Len(s) \in Nat /\ Len(s) > 0 /\ Head(s) = s[1] /\ 1 \in DOMAIN s
           /\ Tail(s) \in Seq(T) /\ Len(Tail(s)) = Len(s) - 1
           /\ DOMAIN Tail(s) = 1 .. Len(s) - 1
           /\ \A k \in 1 .. Len(s) - 1 : Tail(s)[k] = s[k + 1]
OBVIOUS

LEMMA ToSetTail ==
    ASSUME NEW T, NEW s \in Seq(T), s # <<>>
    PROVE  ToSet(s) = {Head(s)} \cup ToSet(Tail(s))
<1> DEFINE t == Tail(s)
<1>1. /\ Len(s) \in Nat /\ Len(s) > 0 /\ Head(s) = s[1] /\ DOMAIN t = 1 .. Len(s) - 1
      /\ \A k \in 1 .. Len(s) - 1 : t[k] = s[k + 1]
  BY HeadTail
<1>2. DOMAIN s = 1 .. Len(s)
  OBVIOUS
<1> HIDE DEF t
<1>3. ASSUME NEW x \in ToSet(s) PROVE x \in {Head(s)} \cup ToSet(t)
  <2>1. PICK k \in 1 .. Len(s) : x = s[k]
    BY <1>2 DEF ToSet
  <2>2. CASE k = 1
    BY <1>1, <2>1, <2>2
  <2>3. CASE k > 1
    <3>1. k - 1 \in 1 .. Len(s) - 1 /\ t[k - 1] = s[k]
      BY <1>1, <2>3
    <3> QED BY <1>1, <2>1, <3>1 DEF ToSet
  <2> QED BY <2>2, <2>3
<1>4. ASSUME NEW x \in ToSet(t) PROVE x \in ToSet(s)
  <2>1. PICK k \in 1 .. Len(s) - 1 : x = t[k]
    BY <1>1 DEF ToSet
  <2>2. k + 1 \in 1 .. Len(s) /\ x = s[k + 1]
    BY <1>1, <2>1
  <2> QED BY <1>2, <2>2 DEF ToSet
<1>5. Head(s) \in ToSet(s)
  BY <1>1, <1>2 DEF ToSet
<1> QED BY <1>3, <1>4, <1>5 DEF t

LEMMA ToSetAppend ==
    ASSUME NEW T, NEW s \in Seq(T), NEW e \in T
    PROVE  /\ Append(s, e) \in Seq(T) /\ Len(Append(s, e)) = Len(s) + 1 /\ Len(s) \in Nat
           /\ DOMAIN Append(s, e) = 1 .. Len(s) + 1
           /\ \A k \in 1 .. Len(s) : Append(s, e)[k] = s[k]
           /\ Append(s, e)[Len(s) + 1] = e
           /\ ToSet(Append(s, e)) = ToSet(s) \cup {e}
<1> DEFINE t == Append(s, e)
<1>1. /\ t \in Seq(T) /\ Len(t) = Len(s) + 1 /\ Len(s) \in Nat
      /\ DOMAIN t = 1 .. Len(s) + 1 /\ DOMAIN s = 1 .. Len(s)
  OBVIOUS
<1>2. (\A k \in 1 .. Len(s) : t[k] = s[k]) /\ t[Len(s) + 1] = e
  OBVIOUS
<1> HIDE DEF t
<1>3. ToSet(t) = ToSet(s) \cup {e}
  <2>1. ASSUME NEW x \in ToSet(t) PROVE x \in ToSet(s) \cup {e}
    <3>1. PICK k \in 1 .. Len(s) + 1 : x = t[k]
      BY <1>1 DEF ToSet
    <3>2. CASE k = Len(s) + 1
      BY <1>2, <3>1, <3>2
    <3>3. CASE k \in 1 .. Len(s)
      BY <1>1, <1>2, <3>1, <3>3 DEF ToSet
    <3> QED BY <1>1, <3>2, <3>3
  <2>2. ASSUME NEW x \in ToSet(s) \cup {e} PROVE x \in ToSet(t)
    BY <1>1, <1>2 DEF ToSet
  <2> QED BY <2>1, <2>2
<1> QED BY <1>1, <1>2, <1>3 DEF t

LEMMA Concatenated ==
    ASSUME NEW T, NEW s \in Seq(T), NEW u \in Seq(T)
    PROVE  /\ s \o u \in Seq(T) /\ Len(s \o u) = Len(s) + Len(u)
           /\ Len(s) \in Nat /\ Len(u) \in Nat
           /\ DOMAIN (s \o u) = 1 .. Len(s) + Len(u)
           /\ \A k \in 1 .. Len(s) : (s \o u)[k] = s[k]
           /\ \A k \in 1 .. Len(u) : (s \o u)[Len(s) + k] = u[k]
           /\ \A k \in 1 .. Len(s) + Len(u) :
                 k \in 1 .. Len(s) \/ (k - Len(s) \in 1 .. Len(u)
                                       /\ (s \o u)[k] = u[k - Len(s)])
OBVIOUS

\* A sequence without repetitions has as many members as elements.
LEMMA CountOnce ==
    ASSUME NEW T, NEW s \in Seq(T), \A j, k \in DOMAIN s : s[j] = s[k] => j = k
    PROVE  IsFiniteSet(ToSet(s)) /\ Cardinality(ToSet(s)) = Len(s)
<1>1. Len(s) \in Nat /\ DOMAIN s = 1 .. Len(s) /\ s \in [1 .. Len(s) -> ToSet(s)]
  BY DEF ToSet
<1>2. s \in Bijection(1 .. Len(s), ToSet(s))
  BY <1>1 DEF Bijection, Injection, Surjection, ToSet, IsInjective
<1>3. ExistsBijection(1 .. Len(s), ToSet(s))
  BY <1>2 DEF ExistsBijection
<1>4. IsFiniteSet(1 .. Len(s)) /\ Cardinality(1 .. Len(s)) = Len(s)
  BY <1>1, FS_Interval
<1> QED BY <1>3, <1>4, FS_Bijection

-----------------------------------------------------------------------------
(* What the invariant says of slots and chains.                            *)

\* Facts about the state that most steps need.
LEMMA QueueFacts ==
    ASSUME QueueAssumption, VTypeOK, ChainsOnce
    PROVE  /\ Len(request_slots) \in Nat /\ DOMAIN request_slots = 1 .. Len(request_slots)
           /\ \A i \in DOMAIN request_slots : request_slots[i] \in SlotRecord
           /\ DOMAIN used = 1 .. Len(used) /\ Len(used) \in Nat
           /\ \A k \in DOMAIN used : used[k] \in UsedRecord
           /\ DOMAIN avail = 1 .. Len(avail) /\ Len(avail) \in Nat
           /\ Returned = {used[k].req : k \in DOMAIN used}
           /\ ToSet(avail) \subseteq Requests
           /\ Returned \subseteq Requests /\ Taken \subseteq Requests
           /\ IsFiniteSet(UsedSlots) /\ Cardinality(UsedSlots) \in Nat
           /\ DOMAIN request_slots \subseteq Ids
           /\ avail # <<>> => Len(request_slots) + 1 \in Ids
<1>1. /\ Len(request_slots) \in Nat /\ DOMAIN request_slots = 1 .. Len(request_slots)
      /\ \A i \in DOMAIN request_slots : request_slots[i] \in SlotRecord
      /\ DOMAIN used = 1 .. Len(used) /\ Len(used) \in Nat
      /\ \A k \in DOMAIN used : used[k] \in UsedRecord
      /\ DOMAIN avail = 1 .. Len(avail) /\ Len(avail) \in Nat
      /\ \A k \in DOMAIN avail : avail[k] \in Requests
  BY DEF VTypeOK
<1>2. Returned = {used[k].req : k \in DOMAIN used}
  BY DEF Returned, ToSet
<1>3. Returned \subseteq Requests
  BY <1>1, <1>2 DEF UsedRecord
<1>4. ToSet(avail) \subseteq Requests
  BY <1>1 DEF ToSet
<1>5. Taken \subseteq Requests
  BY <1>3 DEF Taken, VTypeOK, UsedSlots
<1>6. IsFiniteSet(UsedSlots) /\ Cardinality(UsedSlots) \in Nat
  <2>1. IsFiniteSet(1 .. Len(request_slots))
    BY <1>1, FS_Interval
  <2>2. UsedSlots \subseteq 1 .. Len(request_slots)
    BY <1>1 DEF UsedSlots
  <2> QED BY <2>1, <2>2, FS_Subset, FS_CardinalityType
<1>7. avail_idx <= Cardinality(Requests) /\ Cardinality(Requests) \in Nat
  <2>1. Known \subseteq Requests
    BY <1>4, <1>5 DEF Known
  <2>2. IsFiniteSet(Requests) /\ Cardinality(Known) = avail_idx
    BY DEF QueueAssumption, ChainsOnce
  <2> QED BY <2>1, <2>2, FS_Subset, FS_CardinalityType
<1>8. /\ Len(request_slots) + Len(avail) <= Slots + avail_idx
      /\ Slots \in Nat /\ avail_idx \in Nat
      /\ \A i \in 1 .. (Slots + Cardinality(Requests)) : i \in Ids
  BY DEF ChainsOnce, QueueAssumption, VTypeOK
<1>9. DOMAIN request_slots \subseteq Ids
  BY <1>1, <1>7, <1>8
<1>10. ASSUME avail # <<>> PROVE Len(request_slots) + 1 \in Ids
  <2>1. Len(avail) > 0
    BY <1>10, HeadTail DEF VTypeOK
  <2> QED BY <1>1, <1>7, <1>8, <2>1
<1> QED BY <1>1, <1>2, <1>3, <1>4, <1>5, <1>6, <1>9, <1>10

\* The owner's slot of an id is the chain in the slot of the queue.
LEMMA SlotOfIs ==
    ASSUME DOMAIN request_slots \subseteq Ids
    PROVE  /\ UsedSlots \subseteq Ids
           /\ \A i \in UsedSlots : SlotOf[i] = request_slots[i].req
           /\ \A i \in Ids \ UsedSlots : SlotOf[i] = NoRequest
           /\ DOMAIN SlotOf = Ids
BY DEF SlotOf, UsedSlots

\* The slot that get_request_slot finds or allocates is free and has an id.
LEMMA SlotChosen ==
    ASSUME QueueAssumption, VTypeOK, ChainsOnce, avail # <<>>, NEW len \in Nat
    PROVE  /\ get_request_slot(len) \in 1 .. Len(request_slots) + 1
           /\ get_request_slot(len) \in DOMAIN request_slots
                \/ get_request_slot(len) = Len(request_slots) + 1
           /\ get_request_slot(len) \notin UsedSlots
           /\ get_request_slot(len) \in Ids
<1>1. /\ Len(request_slots) \in Nat /\ DOMAIN request_slots = 1 .. Len(request_slots)
      /\ DOMAIN request_slots \subseteq Ids /\ Len(request_slots) + 1 \in Ids
  BY QueueFacts
<1> DEFINE S == {i \in DOMAIN request_slots : Fits(i, len)}
<1>2. CASE \E i \in DOMAIN request_slots : Fits(i, len)
  <2>1. S \in SUBSET Nat /\ S # {}
    BY <1>1, <1>2
  <2>2. Min(S) \in S
    BY <2>1, MinExists
  <2>3. get_request_slot(len) = Min(S)
    BY <1>2 DEF get_request_slot
  <2> QED BY <1>1, <2>2, <2>3 DEF Fits, UsedSlots
<1>3. CASE ~\E i \in DOMAIN request_slots : Fits(i, len)
  BY <1>1, <1>3 DEF get_request_slot, UsedSlots
<1> QED BY <1>2, <1>3

\* The chain that is popped was in no slot and was not returned.
LEMMA PoppedFacts ==
    ASSUME QueueAssumption, VTypeOK, ChainsOnce, NEW r \in Requests, Popped(r)
    PROVE  /\ avail # <<>> /\ r = avail[1] /\ r \notin Taken /\ r \notin Returned
           /\ avail' \in Seq(Requests) /\ Len(avail') = Len(avail) - 1 /\ Len(avail) > 0
           /\ DOMAIN avail' = 1 .. Len(avail) - 1
           /\ \A k \in 1 .. Len(avail) - 1 : avail'[k] = avail[k + 1]
           /\ ToSet(avail) = {r} \cup ToSet(avail')
           /\ avail_idx' = avail_idx
           /\ \A j, k \in DOMAIN avail' : avail'[j] = avail'[k] => j = k
           /\ \A j \in DOMAIN avail' : avail'[j] \notin Taken \cup {r}
<1>1. avail \in Seq(Requests) /\ DOMAIN avail = 1 .. Len(avail)
  BY DEF VTypeOK
<1>2. avail # <<>> /\ r = Head(avail) /\ avail' = Tail(avail) /\ avail_idx' = avail_idx
  BY DEF Popped
<1>3. /\ r = avail[1] /\ avail' \in Seq(Requests) /\ Len(avail') = Len(avail) - 1
      /\ Len(avail) > 0 /\ Len(avail) \in Nat /\ 1 \in DOMAIN avail
      /\ DOMAIN avail' = 1 .. Len(avail) - 1
      /\ \A k \in 1 .. Len(avail) - 1 : avail'[k] = avail[k + 1]
  BY <1>1, <1>2, HeadTail
<1>4. ToSet(avail) = {r} \cup ToSet(avail')
  BY <1>1, <1>2, ToSetTail
<1>5. /\ \A j, k \in DOMAIN avail : avail[j] = avail[k] => j = k
      /\ \A j \in DOMAIN avail : avail[j] \notin Taken
  BY DEF ChainsOnce
<1>6. r \notin Taken /\ r \notin Returned
  BY <1>3, <1>5 DEF Taken
<1>7. \A k \in DOMAIN avail' : k + 1 \in DOMAIN avail /\ avail'[k] = avail[k + 1]
                                /\ k \in Nat /\ k + 1 # 1
  BY <1>1, <1>3
<1>8. \A j, k \in DOMAIN avail' : avail'[j] = avail'[k] => j = k
  BY <1>5, <1>7
<1>9. \A j \in DOMAIN avail' : avail'[j] \notin Taken \cup {r}
  BY <1>3, <1>5, <1>7
<1> QED BY <1>2, <1>3, <1>4, <1>6, <1>8, <1>9

-----------------------------------------------------------------------------
(* Each step is a step of an owner that keeps the contract, or a stutter.  *)

LEMMA OwnerStep ==
    ASSUME QueueAssumption, Owner!UInv, [R!UNext]_(R!uVars)
    PROVE  Owner!UInv' /\ R!BusyWhileOpen'
<1>1. R!Contract
  BY DEF QueueAssumption, R!Contract
<1>2. R!UInv'
  BY <1>1, SameInv, R!UNextInv
<1>3. Owner!UInv'
  BY <1>2, SameInv, PTL
<1>4. R!BusyWhileOpen'
  BY <1>2, R!InvBusy, PTL
<1> QED BY <1>3, <1>4

\* A chain that the thread answers without the channel.
LEMMA AnswersItself ==
    ASSUME QueueAssumption, VInv, NEW r \in Requests, Popped(r), UNCHANGED ringVars,
           request_slots' \in Seq(SlotRecord), Len(request_slots') <= Len(request_slots) + 1,
           UsedSlots' = UsedSlots,
           \A i \in UsedSlots : request_slots'[i].req = request_slots[i].req,
           NEW u \in UsedRecord, u.req = r, used' = Append(used, u)
    PROVE  /\ R!OwnerAnswers(r)
           /\ ChainsOnce'
           /\ used' \in Seq(UsedRecord) /\ Len(used') = Len(used) + 1
           /\ \A k \in 1 .. Len(used) : used'[k] = used[k]
<1>1. VTypeOK /\ ChainsOnce
  BY DEF VInv
<1>2. /\ DOMAIN used = 1 .. Len(used) /\ Len(used) \in Nat
      /\ Returned = {used[k].req : k \in DOMAIN used}
      /\ Cardinality(UsedSlots) \in Nat /\ Len(request_slots) \in Nat
  BY <1>1, QueueFacts
<1>3. /\ r \notin Taken /\ r \notin Returned /\ avail' \in Seq(Requests)
      /\ Len(avail') = Len(avail) - 1 /\ Len(avail) > 0
      /\ ToSet(avail) = {r} \cup ToSet(avail') /\ avail_idx' = avail_idx
      /\ \A j, k \in DOMAIN avail' : avail'[j] = avail'[k] => j = k
      /\ \A j \in DOMAIN avail' : avail'[j] \notin Taken \cup {r}
  BY <1>1, PoppedFacts
<1>4. /\ used' \in Seq(UsedRecord) /\ Len(used') = Len(used) + 1
      /\ DOMAIN used' = 1 .. Len(used) + 1
      /\ \A k \in 1 .. Len(used) : used'[k] = used[k]
      /\ used'[Len(used) + 1] = u
      /\ ToSet(used') = ToSet(used) \cup {u}
  BY <1>1, ToSetAppend DEF VTypeOK
<1>5. Returned' = Returned \cup {r}
  BY <1>4 DEF Returned
<1>6. Taken' = Taken \cup {r}
  BY <1>5 DEF Taken
<1>7. SlotOf' = SlotOf
  BY DEF SlotOf
<1>8. R!OwnerAnswers(r)
  BY <1>3, <1>5, <1>6, <1>7 DEF R!OwnerAnswers, R!ringVars, ringVars
<1>9. ChainsOnce'
  <2>1. \A j, k \in DOMAIN used' : used'[j].req = used'[k].req => j = k
    <3>1. \A k \in 1 .. Len(used) : used[k].req # r
      BY <1>2, <1>3
    <3>2. \A j, k \in 1 .. Len(used) : used[j].req = used[k].req => j = k
      BY <1>1, <1>2 DEF ChainsOnce
    <3>3. SUFFICES ASSUME NEW j \in 1 .. Len(used) + 1, NEW k \in 1 .. Len(used) + 1,
                          used'[j].req = used'[k].req
                   PROVE  j = k
      BY <1>4
    <3>4. (j \in 1 .. Len(used) \/ j = Len(used) + 1) /\ (k \in 1 .. Len(used) \/ k = Len(used) + 1)
      BY <1>2
    <3> QED BY <1>4, <3>1, <3>2, <3>3, <3>4
  <2>2. \A j \in DOMAIN avail' : avail'[j] \notin Taken'
    BY <1>3, <1>6
  <2>3. \A i \in UsedSlots' : request_slots'[i].req \notin Returned'
    BY <1>1, <1>3, <1>5 DEF ChainsOnce, Taken
  <2>4. Cardinality(UsedSlots') + Len(used') + Len(avail') = avail_idx'
    <3>1. Cardinality(UsedSlots) + Len(used) + Len(avail) = avail_idx /\ Len(avail) \in Nat
      BY <1>1 DEF ChainsOnce, VTypeOK
    <3> HIDE DEF UsedSlots
    <3> QED BY <1>2, <1>3, <1>4, <3>1
  <2>5. Known' = Known
    BY <1>3, <1>6 DEF Known
  <2>6. Len(request_slots') + Len(avail') <= Slots + avail_idx'
    <3>1. /\ Len(request_slots) + Len(avail) <= Slots + avail_idx /\ Len(avail) \in Nat
          /\ Slots \in Nat /\ avail_idx \in Nat /\ Len(request_slots') \in Nat
      BY <1>1 DEF ChainsOnce, VTypeOK, QueueAssumption
    <3> QED BY <1>2, <1>3, <3>1
  <2>7. Cardinality(Known') = avail_idx'
    BY <1>1, <1>3, <2>5 DEF ChainsOnce
  <2> QED BY <1>3, <2>1, <2>2, <2>3, <2>4, <2>6, <2>7 DEF ChainsOnce
<1> QED BY <1>4, <1>8, <1>9

\* The slots after one of them was taken.
LEMMA TakenSlot ==
    ASSUME VTypeOK, NEW len \in Nat, NEW r \in Requests, NEW i \in 1 .. Len(request_slots) + 1,
           i \notin UsedSlots, SlotTaken(i, len, r)
    PROVE  /\ request_slots' \in Seq(SlotRecord)
           /\ Len(request_slots') <= Len(request_slots) + 1
           /\ UsedSlots' = UsedSlots \cup {i}
           /\ request_slots'[i].req = r
           /\ \A j \in UsedSlots : request_slots'[j] = request_slots[j]
<1>1. request_slots \in Seq(SlotRecord) /\ Len(request_slots) \in Nat
      /\ DOMAIN request_slots = 1 .. Len(request_slots)
  BY DEF VTypeOK
<1>2. CASE i \in DOMAIN request_slots
  <2>1. request_slots' = [request_slots EXCEPT ![i] =
                            [used |-> TRUE, len |-> request_slots[i].len, req |-> r]]
    BY <1>2 DEF SlotTaken
  <2>2. /\ DOMAIN request_slots' = 1 .. Len(request_slots)
        /\ request_slots'[i] = [used |-> TRUE, len |-> request_slots[i].len, req |-> r]
        /\ \A j \in DOMAIN request_slots : j # i => request_slots'[j] = request_slots[j]
    BY <1>1, <1>2, <2>1
  <2>3. request_slots[i] \in SlotRecord /\ request_slots[i].len \in Nat
    <3>1. request_slots[i] \in SlotRecord
      BY <1>1, <1>2
    <3> QED BY <3>1 DEF SlotRecord
  <2>4. request_slots'[i] \in SlotRecord /\ request_slots'[i].used /\ request_slots'[i].req = r
    BY <2>2, <2>3 DEF SlotRecord
  <2>5. request_slots' \in Seq(SlotRecord) /\ Len(request_slots') = Len(request_slots)
    <3>1. \A j \in 1 .. Len(request_slots) : request_slots'[j] \in SlotRecord
      BY <1>1, <2>2, <2>4
    <3>2. request_slots' = [j \in 1 .. Len(request_slots) |-> request_slots'[j]]
      BY <1>1, <2>1
    <3> QED BY <1>1, <2>2, <3>1, <3>2
  <2>6. UsedSlots' = UsedSlots \cup {i}
    BY <1>1, <1>2, <2>2, <2>4 DEF UsedSlots
  <2> QED BY <1>1, <1>2, <2>2, <2>4, <2>5, <2>6 DEF UsedSlots
<1>3. CASE i \notin DOMAIN request_slots
  <2> DEFINE new == [used |-> TRUE, len |-> len, req |-> r]
  <2>1. request_slots' = Append(request_slots, new) /\ i = Len(request_slots) + 1
    BY <1>1, <1>3 DEF SlotTaken
  <2>2. new \in SlotRecord /\ new.used /\ new.req = r
    BY DEF SlotRecord
  <2> HIDE DEF new
  <2>3. /\ request_slots' \in Seq(SlotRecord)
        /\ DOMAIN request_slots' = 1 .. Len(request_slots) + 1
        /\ Len(request_slots') = Len(request_slots) + 1
        /\ \A j \in 1 .. Len(request_slots) : request_slots'[j] = request_slots[j]
        /\ request_slots'[i] = new
    BY <1>1, <2>1, <2>2, ToSetAppend
  <2>4. UsedSlots' = UsedSlots \cup {i}
    BY <1>1, <2>1, <2>2, <2>3 DEF UsedSlots
  <2> QED BY <1>1, <2>1, <2>2, <2>3, <2>4 DEF UsedSlots
<1> QED BY <1>2, <1>3

\* process_read, process_write and process_flush take a free slot and add its id.
LEMMA AddsToRing ==
    ASSUME QueueAssumption, VInv, NEW r \in Requests, ProcessIo(r)
    PROVE  /\ \E i \in Ids : R!OwnerAdd(i, r)
           /\ request_slots' \in Seq(SlotRecord)
           /\ \A i \in DOMAIN request_slots' :
                 request_slots'[i].used => request_slots'[i].req \in Requests
           /\ DOMAIN tracker' = DOMAIN tracker
           /\ ChainsOnce' /\ TrackerMatchesSlots'
<1> DEFINE type == Parse(ChainOf[r]).type
           len  == IF type = "Flush" THEN 0 ELSE DataLen[r]
           i    == get_request_slot(len)
           e    == [id |-> i, req |-> r]
<1>1. /\ Popped(r) /\ used' = used
      /\ SlotTaken(i, len, r) /\ Track(i, type)
      /\ RingAddFlush(e) \/ RingAdd(e)
  BY DEF ProcessIo
<1>2. VTypeOK /\ ChainsOnce /\ TrackerMatchesSlots
  BY DEF VInv
<1>3. /\ r \notin Taken /\ r \notin Returned /\ avail # <<>> /\ avail' \in Seq(Requests)
      /\ Len(avail') = Len(avail) - 1 /\ Len(avail) > 0
      /\ ToSet(avail) = {r} \cup ToSet(avail') /\ avail_idx' = avail_idx
      /\ \A j, k \in DOMAIN avail' : avail'[j] = avail'[k] => j = k
      /\ \A j \in DOMAIN avail' : avail'[j] \notin Taken \cup {r}
  BY <1>1, <1>2, PoppedFacts
<1>4. len \in Nat
  BY DEF QueueAssumption
<1>5. /\ Len(request_slots) \in Nat /\ DOMAIN request_slots \subseteq Ids
      /\ IsFiniteSet(UsedSlots) /\ Cardinality(UsedSlots) \in Nat /\ Len(used) \in Nat
  BY <1>2, QueueFacts
<1> HIDE DEF len, type
<1>6. i \in 1 .. Len(request_slots) + 1 /\ i \notin UsedSlots /\ i \in Ids
  BY <1>2, <1>3, <1>4, SlotChosen
<1> HIDE DEF i
<1>7. /\ request_slots' \in Seq(SlotRecord)
      /\ Len(request_slots') <= Len(request_slots) + 1
      /\ UsedSlots' = UsedSlots \cup {i}
      /\ request_slots'[i].req = r
      /\ \A j \in UsedSlots : request_slots'[j] = request_slots[j]
  BY <1>1, <1>2, <1>4, <1>6, TakenSlot
<1>8. /\ UsedSlots \subseteq Ids
      /\ \A j \in UsedSlots : SlotOf[j] = request_slots[j].req
      /\ \A j \in Ids \ UsedSlots : SlotOf[j] = NoRequest
      /\ DOMAIN SlotOf = Ids
  BY <1>5, SlotOfIs
<1>9. Returned' = Returned
  BY <1>1 DEF Returned
<1>10. Taken' = Taken \cup {r}
  BY <1>7, <1>9 DEF Taken
<1>11. SlotOf' = [SlotOf EXCEPT ![i] = r]
  BY <1>6, <1>7 DEF SlotOf
<1>12. R!OwnerAdd(i, r)
  <2>1. R!RingAdd(e) \/ R!RingAddFlush(e)
    BY <1>1 DEF R!RingAdd, R!RingAddFlush, R!Answer, RingAdd, RingAddFlush, Answer
  <2> QED BY <1>3, <1>6, <1>8, <1>9, <1>10, <1>11, <2>1 DEF R!OwnerAdd
<1>13. TrackerMatchesSlots' /\ DOMAIN tracker' = DOMAIN tracker
  <2>1. /\ DOMAIN tracker' = DOMAIN tracker
        /\ \A t \in DOMAIN tracker : tracker'[t] = IF t = i THEN type ELSE tracker[t]
    BY <1>1 DEF Track
  <2>2. \A t \in DOMAIN tracker : t # i => (t \in UsedSlots' <=> t \in UsedSlots)
    BY <1>7
  <2>3. \A t \in DOMAIN tracker :
           tracker'[t] = IF t \in UsedSlots' THEN Parse(ChainOf[request_slots'[t].req]).type
                                             ELSE "none"
    <3> SUFFICES ASSUME NEW t \in DOMAIN tracker
                 PROVE  tracker'[t] = IF t \in UsedSlots'
                                        THEN Parse(ChainOf[request_slots'[t].req]).type
                                        ELSE "none"
      OBVIOUS
    <3>1. CASE t = i
      BY <1>7, <2>1, <3>1 DEF type
    <3>2. CASE t # i
      BY <1>2, <1>7, <2>1, <2>2, <3>2 DEF TrackerMatchesSlots
    <3> QED BY <3>1, <3>2
  <2> QED BY <2>1, <2>3 DEF TrackerMatchesSlots
<1>14. ChainsOnce'
  <2>1. \A j, k \in DOMAIN used' : used'[j].req = used'[k].req => j = k
    BY <1>1, <1>2 DEF ChainsOnce
  <2>2. \A j \in DOMAIN avail' : avail'[j] \notin Taken'
    BY <1>3, <1>10
  <2>3. \A j \in UsedSlots' : request_slots'[j].req \notin Returned'
    BY <1>2, <1>3, <1>7, <1>9 DEF ChainsOnce
  <2>4. Cardinality(UsedSlots') + Len(used') + Len(avail') = avail_idx'
    <3>1. Cardinality(UsedSlots) + Len(used) + Len(avail) = avail_idx /\ Len(avail) \in Nat
      BY <1>2 DEF ChainsOnce, VTypeOK
    <3>2. Cardinality(UsedSlots') = Cardinality(UsedSlots) + 1
      BY <1>5, <1>6, <1>7, FS_AddElement
    <3> QED BY <1>1, <1>3, <1>5, <3>1, <3>2
  <2>5. Known' = Known
    BY <1>3, <1>10 DEF Known
  <2>6. Len(request_slots') + Len(avail') <= Slots + avail_idx'
    <3>1. /\ Len(request_slots) + Len(avail) <= Slots + avail_idx /\ Len(avail) \in Nat
          /\ Slots \in Nat /\ avail_idx \in Nat
      BY <1>2 DEF ChainsOnce, VTypeOK, QueueAssumption
    <3>2. Len(request_slots') \in Nat
      BY <1>7
    <3> QED BY <1>3, <1>5, <1>7, <3>1, <3>2
  <2>7. Cardinality(Known') = avail_idx'
    BY <1>2, <1>3, <2>5 DEF ChainsOnce
  <2> QED BY <1>3, <2>1, <2>2, <2>3, <2>4, <2>6, <2>7 DEF ChainsOnce
<1>15. \A j \in DOMAIN request_slots' :
          request_slots'[j].used => request_slots'[j].req \in Requests
  BY <1>2, <1>7 DEF UsedSlots, VTypeOK
<1> QED BY <1>6, <1>7, <1>12, <1>13, <1>14, <1>15

\* Steps that leave slots and used ring alone leave the owner's view alone.
LEMMA OwnerUnchanged ==
    ASSUME UNCHANGED <<used, request_slots>>
    PROVE  UNCHANGED <<UsedSlots, Returned, Taken, SlotOf>>
BY DEF UsedSlots, Returned, Taken, SlotOf

LEMMA SubmitsToRing ==
    ASSUME NEW ok \in BOOLEAN, SubmitIo(ok), DOMAIN request_slots \subseteq Ids
    PROVE  R!OwnerSubmit(ok)
<1>1. RingSubmit(ok) /\ UNCHANGED <<used, request_slots>>
  BY DEF SubmitIo, slotVars
<1>2. R!RingSubmit(ok)
  BY <1>1 DEF R!RingSubmit, R!Take, RingSubmit, Take
<1>3. UNCHANGED <<Returned, Taken, SlotOf>>
  BY <1>1, OwnerUnchanged
<1>4. SlotOf = [i \in Ids |-> SlotOf[i]]
  BY DEF SlotOf
<1> QED BY <1>2, <1>3, <1>4 DEF R!OwnerSubmit

LEMMA DeviceAnswersRing ==
    ASSUME NEW e, NEW ok, DeviceAnswers(e, ok)
    PROVE  R!KernelAnswers(e, ok) /\ UNCHANGED R!ownerVars
<1>1. KernelAnswers(e, ok) /\ UNCHANGED <<used, request_slots>>
  BY DEF DeviceAnswers, slotVars
<1>2. UNCHANGED <<Returned, Taken, SlotOf>>
  BY <1>1, OwnerUnchanged
<1> QED BY <1>1, <1>2 DEF R!KernelAnswers, R!Answer, R!ownerVars, KernelAnswers, Answer

\* What the channel holds under an id is of the chain in that slot.
LEMMA HeldBySlots ==
    ASSUME QueueAssumption, VInv
    PROVE  /\ \A k \in DOMAIN sq :
                 sq[k].id \in UsedSlots /\ sq[k].req = request_slots[sq[k].id].req
           /\ \A k \in DOMAIN cq :
                 cq[k].id \in UsedSlots /\ cq[k].req = request_slots[cq[k].id].req
           /\ \A k \in DOMAIN finished_requests :
                 /\ finished_requests[k].id \in UsedSlots
                 /\ finished_requests[k].req = request_slots[finished_requests[k].id].req
           /\ \A e \in kernel : e.id \in UsedSlots /\ e.req = request_slots[e.id].req
<1>1. R!UInv /\ VTypeOK /\ ChainsOnce
  BY SameInv DEF VInv
<1>2. DOMAIN request_slots \subseteq Ids
  BY <1>1, QueueFacts
<1>3. /\ UsedSlots \subseteq Ids
      /\ \A i \in UsedSlots : SlotOf[i] = request_slots[i].req
      /\ \A i \in Ids \ UsedSlots : SlotOf[i] = NoRequest
  BY <1>2, SlotOfIs
<1>4. /\ \A k \in DOMAIN sq : sq[k].id \in Ids
      /\ \A k \in DOMAIN cq : cq[k].id \in Ids
      /\ \A k \in DOMAIN finished_requests : finished_requests[k].id \in Ids
      /\ \A e \in kernel : e.id \in Ids
  BY <1>1, R!ElementIds DEF R!UInv
<1>5. /\ R!Exact(sq) /\ R!Exact(cq) /\ R!Exact(finished_requests) /\ R!KernelExact
      /\ \A i \in Ids : R!HeldOnce(i)
  BY <1>1 DEF R!UInv
<1>6. \A i \in Ids : R!InSeq(sq, i) \/ R!InSeq(cq, i) \/ R!InSeq(finished_requests, i)
                       \/ R!InKernel(i) => i \in UsedSlots
  BY <1>3, <1>5 DEF R!HeldOnce
<1>7. ASSUME NEW k \in DOMAIN sq
      PROVE  sq[k].id \in UsedSlots /\ sq[k].req = request_slots[sq[k].id].req
  <2>1. R!InSeq(sq, sq[k].id) /\ sq[k].req = SlotOf[sq[k].id]
    BY <1>5 DEF R!InSeq, R!Exact
  <2> QED BY <1>3, <1>4, <1>6, <2>1
<1>8. ASSUME NEW k \in DOMAIN cq
      PROVE  cq[k].id \in UsedSlots /\ cq[k].req = request_slots[cq[k].id].req
  <2>1. R!InSeq(cq, cq[k].id) /\ cq[k].req = SlotOf[cq[k].id]
    BY <1>5 DEF R!InSeq, R!Exact
  <2> QED BY <1>3, <1>4, <1>6, <2>1
<1>9. ASSUME NEW k \in DOMAIN finished_requests
      PROVE  /\ finished_requests[k].id \in UsedSlots
             /\ finished_requests[k].req = request_slots[finished_requests[k].id].req
  <2>1. /\ R!InSeq(finished_requests, finished_requests[k].id)
        /\ finished_requests[k].req = SlotOf[finished_requests[k].id]
    BY <1>5 DEF R!InSeq, R!Exact
  <2> QED BY <1>3, <1>4, <1>6, <2>1
<1>10. ASSUME NEW e \in kernel
       PROVE  e.id \in UsedSlots /\ e.req = request_slots[e.id].req
  <2>1. R!InKernel(e.id) /\ e.req = SlotOf[e.id]
    BY <1>5 DEF R!InKernel, R!KernelExact
  <2> QED BY <1>3, <1>4, <1>6, <2>1
<1> QED BY <1>7, <1>8, <1>9, <1>10

\* poll gives at most one answer for a slot, and none for a free one.
LEMMA PolledFacts ==
    ASSUME QueueAssumption, VInv
    PROVE  /\ Len(Polled) \in Nat /\ DOMAIN Polled = 1 .. Len(Polled)
           /\ \A k \in DOMAIN Polled :
                 /\ Polled[k].id \in UsedSlots
                 /\ Polled[k].req = request_slots[Polled[k].id].req
                 /\ Polled[k].req \in Requests
           /\ \A j, k \in DOMAIN Polled : Polled[j].id = Polled[k].id => j = k
           /\ \A j, k \in DOMAIN Polled : Polled[j].req = Polled[k].req => j = k
<1> DEFINE f == finished_requests
<1>1. R!UInv /\ VTypeOK /\ ChainsOnce
  BY SameInv DEF VInv
<1>2. f \in Seq(R!AnswerRecord) /\ cq \in Seq(R!AnswerRecord)
      /\ DOMAIN f = 1 .. Len(f) /\ DOMAIN cq = 1 .. Len(cq)
  BY <1>1 DEF R!UInv, R!UTypeOK
<1>3. /\ Len(Polled) = Len(f) + Len(cq) /\ Len(f) \in Nat /\ Len(cq) \in Nat
      /\ DOMAIN Polled = 1 .. Len(f) + Len(cq)
      /\ \A k \in 1 .. Len(f) : Polled[k] = f[k]
      /\ \A k \in 1 .. Len(f) + Len(cq) :
            k \in 1 .. Len(f) \/ (k - Len(f) \in 1 .. Len(cq) /\ Polled[k] = cq[k - Len(f)])
  BY <1>2, Concatenated DEF Polled
<1>4. /\ \A j, k \in DOMAIN f : f[j].id = f[k].id => j = k
      /\ \A j, k \in DOMAIN cq : cq[j].id = cq[k].id => j = k
  BY <1>1 DEF R!UInv, R!Exact
<1>5. \A j \in DOMAIN f, k \in DOMAIN cq : f[j].id # cq[k].id
  <2> SUFFICES ASSUME NEW j \in DOMAIN f, NEW k \in DOMAIN cq, f[j].id = cq[k].id
               PROVE  FALSE
    OBVIOUS
  <2>1. cq[k].id \in Ids
    BY <1>1, R!ElementIds DEF R!UInv
  <2>2. R!InSeq(cq, cq[k].id) /\ R!InSeq(f, cq[k].id)
    BY DEF R!InSeq
  <2> QED BY <1>1, <2>1, <2>2 DEF R!UInv, R!HeldOnce
<1>6. /\ \A k \in DOMAIN cq :
            cq[k].id \in UsedSlots /\ cq[k].req = request_slots[cq[k].id].req
      /\ \A k \in DOMAIN f : f[k].id \in UsedSlots /\ f[k].req = request_slots[f[k].id].req
  BY HeldBySlots
<1>7. \A i \in UsedSlots : request_slots[i].req \in Requests
  BY <1>1 DEF VTypeOK, UsedSlots
<1> HIDE DEF f
<1>8. ASSUME NEW k \in DOMAIN Polled
      PROVE  /\ Polled[k].id \in UsedSlots
             /\ Polled[k].req = request_slots[Polled[k].id].req
             /\ Polled[k].req \in Requests
  <2>1. CASE k \in 1 .. Len(f)
    <3>1. Polled[k] = f[k] /\ k \in DOMAIN f
      BY <1>2, <1>3, <2>1
    <3> QED BY <1>6, <1>7, <3>1
  <2>2. CASE k \notin 1 .. Len(f)
    <3>1. Polled[k] = cq[k - Len(f)] /\ k - Len(f) \in DOMAIN cq
      BY <1>2, <1>3, <2>2
    <3> QED BY <1>6, <1>7, <3>1
  <2> QED BY <2>1, <2>2
<1>9. ASSUME NEW j \in DOMAIN Polled, NEW k \in DOMAIN Polled, Polled[j].id = Polled[k].id
      PROVE  j = k
  <2>1. CASE j \in 1 .. Len(f) /\ k \in 1 .. Len(f)
    BY <1>2, <1>3, <1>4, <1>9, <2>1
  <2>2. CASE j \in 1 .. Len(f) /\ k \notin 1 .. Len(f)
    BY <1>2, <1>3, <1>5, <1>9, <2>2
  <2>3. CASE j \notin 1 .. Len(f) /\ k \in 1 .. Len(f)
    BY <1>2, <1>3, <1>5, <1>9, <2>3
  <2>4. CASE j \notin 1 .. Len(f) /\ k \notin 1 .. Len(f)
    <3>1. /\ j - Len(f) \in DOMAIN cq /\ Polled[j] = cq[j - Len(f)]
          /\ k - Len(f) \in DOMAIN cq /\ Polled[k] = cq[k - Len(f)]
      BY <1>2, <1>3, <2>4
    <3>2. j - Len(f) = k - Len(f)
      BY <1>4, <1>9, <3>1
    <3> QED BY <1>3, <3>2
  <2> QED BY <2>1, <2>2, <2>3, <2>4
<1>10. \A i, j \in UsedSlots : request_slots[i].req = request_slots[j].req => i = j
  <2>1. DOMAIN request_slots \subseteq Ids
    BY <1>1, QueueFacts
  <2>2. UsedSlots \subseteq Ids /\ \A i \in UsedSlots : SlotOf[i] = request_slots[i].req
    BY <2>1, SlotOfIs
  <2> QED BY <1>1, <1>7, <2>2 DEF R!UInv, R!SlotsExact, QueueAssumption
<1>11. ASSUME NEW j \in DOMAIN Polled, NEW k \in DOMAIN Polled, Polled[j].req = Polled[k].req
       PROVE  j = k
  <2>1. Polled[j].id = Polled[k].id
    BY <1>8, <1>10, <1>11
  <2> QED BY <1>9, <2>1
<1> QED BY <1>3, <1>8, <1>9, <1>11

\* The slots after those of a set were put back.
LEMMA SlotsPut ==
    ASSUME VTypeOK, NEW S, PutSlots(S)
    PROVE  /\ request_slots' \in Seq(SlotRecord) /\ Len(request_slots') = Len(request_slots)
           /\ DOMAIN request_slots' = DOMAIN request_slots
           /\ UsedSlots' = UsedSlots \ S
           /\ \A i \in UsedSlots' : request_slots'[i] = request_slots[i]
           /\ DOMAIN tracker' = DOMAIN tracker
           /\ TrackerMatchesSlots => TrackerMatchesSlots'
<1>1. request_slots \in Seq(SlotRecord) /\ Len(request_slots) \in Nat
      /\ DOMAIN request_slots = 1 .. Len(request_slots)
  BY DEF VTypeOK
<1>2. /\ DOMAIN request_slots' = 1 .. Len(request_slots)
      /\ \A i \in 1 .. Len(request_slots) :
            request_slots'[i] = IF i \in S THEN [used |-> FALSE, len |-> request_slots[i].len,
                                                 req |-> request_slots[i].req]
                                           ELSE request_slots[i]
      /\ request_slots' = [i \in 1 .. Len(request_slots) |-> request_slots'[i]]
      /\ DOMAIN tracker' = DOMAIN tracker
      /\ \A t \in DOMAIN tracker : tracker'[t] = IF t \in S THEN "none" ELSE tracker[t]
  BY <1>1 DEF PutSlots
<1>3. \A i \in 1 .. Len(request_slots) : request_slots[i] \in SlotRecord
  BY <1>1
<1>4. \A i \in 1 .. Len(request_slots) :
         /\ request_slots'[i] \in SlotRecord
         /\ i \in S => ~request_slots'[i].used
         /\ i \notin S => request_slots'[i] = request_slots[i]
  <2> SUFFICES ASSUME NEW i \in 1 .. Len(request_slots)
               PROVE  /\ request_slots'[i] \in SlotRecord
                      /\ i \in S => ~request_slots'[i].used
                      /\ i \notin S => request_slots'[i] = request_slots[i]
    OBVIOUS
  <2>1. request_slots[i] \in SlotRecord
    BY <1>3
  <2>2. CASE i \in S
    <3>1. request_slots[i].len \in Nat /\ request_slots[i].req \in Requests \cup {NoRequest}
      BY <2>1 DEF SlotRecord
    <3>2. request_slots'[i] = [used |-> FALSE, len |-> request_slots[i].len,
                               req |-> request_slots[i].req]
      BY <1>2, <2>2
    <3> QED BY <2>2, <3>1, <3>2 DEF SlotRecord
  <2>3. CASE i \notin S
    BY <1>2, <2>1, <2>3
  <2> QED BY <2>2, <2>3
<1>5. request_slots' \in Seq(SlotRecord) /\ Len(request_slots') = Len(request_slots)
  BY <1>1, <1>2, <1>4
<1>6. UsedSlots' = UsedSlots \ S
  BY <1>1, <1>2, <1>4 DEF UsedSlots
<1>7. \A i \in UsedSlots' : request_slots'[i] = request_slots[i]
  BY <1>1, <1>4, <1>6 DEF UsedSlots
<1>8. ASSUME TrackerMatchesSlots PROVE TrackerMatchesSlots'
  <2>1. ASSUME NEW t \in DOMAIN tracker
        PROVE  tracker'[t] = IF t \in UsedSlots' THEN Parse(ChainOf[request_slots'[t].req]).type
                                                 ELSE "none"
    BY <1>2, <1>6, <1>7, <1>8 DEF TrackerMatchesSlots
  <2> QED BY <1>2, <2>1 DEF TrackerMatchesSlots
<1> QED BY <1>1, <1>2, <1>5, <1>6, <1>7, <1>8

\* poll_io returns the chain of each answer and puts its slot back.
LEMMA PollReturns ==
    ASSUME QueueAssumption, VInv, PollIo
    PROVE  /\ used' \in Seq(UsedRecord) /\ Len(used') = Len(used) + Len(Polled)
           /\ \A k \in 1 .. Len(used) : used'[k] = used[k]
           /\ \A k \in 1 .. Len(used') :
                 k \in 1 .. Len(used)
                 \/ (/\ k - Len(used) \in DOMAIN Polled
                     /\ used'[k].req = Polled[k - Len(used)].req
                     /\ used'[k].status # "unwritten")
           /\ Returned' = Returned \cup {a.req : a \in ToSet(Polled)}
<1>1. VTypeOK /\ used' = used \o UsedByPoll
  BY DEF VInv, PollIo
<1>2. /\ Len(Polled) \in Nat /\ DOMAIN Polled = 1 .. Len(Polled)
      /\ \A k \in DOMAIN Polled : /\ Polled[k].req = request_slots[Polled[k].id].req
                                  /\ Polled[k].req \in Requests
  BY PolledFacts
<1> DEFINE u == UsedByPoll
<1>3. /\ DOMAIN u = 1 .. Len(Polled)
      /\ \A k \in 1 .. Len(Polled) : /\ u[k] \in UsedRecord /\ u[k].req = Polled[k].req
                                     /\ u[k].status # "unwritten"
  BY <1>2 DEF UsedByPoll, UsedRecord
<1>4. u \in Seq(UsedRecord) /\ Len(u) = Len(Polled)
  <2>1. u = [k \in 1 .. Len(Polled) |-> u[k]]
    BY DEF UsedByPoll
  <2> HIDE DEF u
  <2> QED BY <1>2, <1>3, <2>1
<1> HIDE DEF u
<1>5. /\ used' \in Seq(UsedRecord) /\ Len(used') = Len(used) + Len(u)
      /\ Len(used) \in Nat /\ DOMAIN used' = 1 .. Len(used) + Len(u)
      /\ \A k \in 1 .. Len(used) : used'[k] = used[k]
      /\ \A k \in 1 .. Len(u) : used'[Len(used) + k] = u[k]
      /\ \A k \in 1 .. Len(used) + Len(u) :
            k \in 1 .. Len(used) \/ (k - Len(used) \in 1 .. Len(u)
                                     /\ used'[k] = u[k - Len(used)])
  <2>1. used \in Seq(UsedRecord)
    BY <1>1 DEF VTypeOK
  <2>2. used' = used \o u
    BY <1>1 DEF u
  <2>3. u \in Seq(UsedRecord)
    BY <1>4
  <2>4. /\ used \o u \in Seq(UsedRecord) /\ Len(used \o u) = Len(used) + Len(u)
        /\ Len(used) \in Nat /\ DOMAIN (used \o u) = 1 .. Len(used) + Len(u)
        /\ \A k \in 1 .. Len(used) : (used \o u)[k] = used[k]
        /\ \A k \in 1 .. Len(u) : (used \o u)[Len(used) + k] = u[k]
        /\ \A k \in 1 .. Len(used) + Len(u) :
              k \in 1 .. Len(used) \/ (k - Len(used) \in 1 .. Len(u)
                                       /\ (used \o u)[k] = u[k - Len(used)])
    BY ONLY <2>1, <2>3, Concatenated
  <2> QED BY ONLY <2>2, <2>4, Zenon
<1>6. ASSUME NEW k \in 1 .. Len(used')
      PROVE  k \in 1 .. Len(used)
             \/ (/\ k - Len(used) \in DOMAIN Polled
                 /\ used'[k].req = Polled[k - Len(used)].req
                 /\ used'[k].status # "unwritten")
  BY <1>2, <1>3, <1>4, <1>5
<1>7. Returned' = Returned \cup {a.req : a \in ToSet(Polled)}
  <2>1. DOMAIN used = 1 .. Len(used)
    BY <1>1 DEF VTypeOK
  <2>2. ASSUME NEW x \in Returned' PROVE x \in Returned \cup {a.req : a \in ToSet(Polled)}
    <3>1. PICK k \in 1 .. Len(used') : x = used'[k].req
      BY <1>5 DEF Returned, ToSet
    <3>2. CASE k \in 1 .. Len(used)
      BY <1>5, <2>1, <3>1, <3>2 DEF Returned, ToSet
    <3>3. CASE k - Len(used) \in DOMAIN Polled /\ used'[k].req = Polled[k - Len(used)].req
      BY <3>1, <3>3 DEF ToSet
    <3> QED BY <1>6, <3>2, <3>3
  <2>3. ASSUME NEW x \in Returned PROVE x \in Returned'
    <3>1. PICK k \in 1 .. Len(used) : x = used[k].req
      BY <2>1 DEF Returned, ToSet
    <3>2. k \in DOMAIN used' /\ x = used'[k].req
      BY <1>4, <1>5, <1>2, <3>1
    <3> QED BY <3>2 DEF Returned, ToSet
  <2>4. ASSUME NEW x \in {a.req : a \in ToSet(Polled)} PROVE x \in Returned'
    <3>1. PICK k \in 1 .. Len(Polled) : x = Polled[k].req
      BY <1>2 DEF ToSet
    <3>2. Len(used) + k \in DOMAIN used' /\ x = used'[Len(used) + k].req
      BY <1>2, <1>3, <1>4, <1>5, <3>1
    <3> QED BY <3>2 DEF Returned, ToSet
  <2> QED BY <2>2, <2>3, <2>4
<1> QED BY <1>4, <1>5, <1>6, <1>7

LEMMA PollsRing ==
    ASSUME QueueAssumption, VInv, PollIo
    PROVE  /\ [R!UNext]_(R!uVars)
           /\ request_slots' \in Seq(SlotRecord)
           /\ \A i \in DOMAIN request_slots' :
                 request_slots'[i].used => request_slots'[i].req \in Requests
           /\ DOMAIN tracker' = DOMAIN tracker
           /\ ChainsOnce' /\ TrackerMatchesSlots'
<1>1. RingPoll /\ PutSlots(PolledIds) /\ UNCHANGED <<avail, avail_idx>>
  BY DEF PollIo
<1>2. VTypeOK /\ ChainsOnce /\ TrackerMatchesSlots
  BY DEF VInv
<1>3. /\ Len(request_slots) \in Nat /\ DOMAIN request_slots \subseteq Ids
      /\ IsFiniteSet(UsedSlots) /\ Cardinality(UsedSlots) \in Nat
      /\ Len(used) \in Nat /\ Len(avail) \in Nat /\ DOMAIN used = 1 .. Len(used)
      /\ Returned = {used[k].req : k \in DOMAIN used}
  BY <1>2, QueueFacts
<1>4. /\ Len(Polled) \in Nat /\ DOMAIN Polled = 1 .. Len(Polled)
      /\ \A k \in DOMAIN Polled : /\ Polled[k].id \in UsedSlots
                                  /\ Polled[k].req = request_slots[Polled[k].id].req
      /\ \A j, k \in DOMAIN Polled : Polled[j].id = Polled[k].id => j = k
      /\ \A j, k \in DOMAIN Polled : Polled[j].req = Polled[k].req => j = k
  BY PolledFacts
<1>5. /\ request_slots' \in Seq(SlotRecord) /\ Len(request_slots') = Len(request_slots)
      /\ UsedSlots' = UsedSlots \ PolledIds
      /\ \A i \in UsedSlots' : request_slots'[i] = request_slots[i]
      /\ DOMAIN tracker' = DOMAIN tracker
      /\ TrackerMatchesSlots'
  BY <1>1, <1>2, SlotsPut
<1>6. /\ used' \in Seq(UsedRecord) /\ Len(used') = Len(used) + Len(Polled)
      /\ \A k \in 1 .. Len(used) : used'[k] = used[k]
      /\ \A k \in 1 .. Len(used') :
            k \in 1 .. Len(used)
            \/ (/\ k - Len(used) \in DOMAIN Polled
                /\ used'[k].req = Polled[k - Len(used)].req)
      /\ Returned' = Returned \cup {a.req : a \in ToSet(Polled)}
  BY PollReturns
<1>7. /\ \A i \in PolledIds : i \in UsedSlots
      /\ {a.req : a \in ToSet(Polled)} = {request_slots[i].req : i \in PolledIds}
  BY <1>4 DEF PolledIds, ToSet
<1>8. Taken' = Taken
  <2>1. ASSUME NEW x \in Taken' PROVE x \in Taken
    <3>1. CASE x \in Returned'
      BY <1>6, <1>7, <3>1 DEF Taken
    <3>2. CASE x \in {request_slots'[i].req : i \in UsedSlots'}
      BY <1>5, <3>2 DEF Taken
    <3> QED BY <2>1, <3>1, <3>2 DEF Taken
  <2>2. ASSUME NEW x \in Taken PROVE x \in Taken'
    <3>1. CASE x \in Returned
      BY <1>6, <3>1 DEF Taken
    <3>2. CASE \E i \in UsedSlots : x = request_slots[i].req
      <4>1. PICK i \in UsedSlots : x = request_slots[i].req
        BY <3>2
      <4>2. CASE i \in PolledIds
        BY <1>6, <1>7, <4>1, <4>2 DEF Taken
      <4>3. CASE i \notin PolledIds
        <5>1. i \in UsedSlots' /\ x = request_slots'[i].req
          BY <1>5, <4>1, <4>3
        <5> QED BY <5>1 DEF Taken
      <4> QED BY <4>2, <4>3
    <3> QED BY <2>2, <3>1, <3>2 DEF Taken
  <2> QED BY <2>1, <2>2
<1>9. SlotOf' = [i \in Ids |-> IF \E a \in ToSet(Polled) : a.id = i THEN NoRequest
                                                                  ELSE SlotOf[i]]
  <2>1. \A i : (\E a \in ToSet(Polled) : a.id = i) <=> i \in PolledIds
    BY DEF PolledIds
  <2> QED BY <1>5, <2>1 DEF SlotOf
<1>10. [R!UNext]_(R!uVars)
  <2>1. R!RingPoll /\ R!Polled = Polled
    BY <1>1 DEF R!RingPoll, RingPoll, R!Polled, Polled
  <2>2. CASE Polled # <<>>
    <3>1. R!OwnerPoll
      BY <1>6, <1>8, <1>9, <2>1, <2>2 DEF R!OwnerPoll, R!ToSet, ToSet
    <3> QED BY <3>1 DEF R!UNext
  <2>3. CASE Polled = <<>>
    <3>1. finished_requests = <<>> /\ cq = <<>>
      <4>1. R!UInv
        BY SameInv DEF VInv
      <4>2. finished_requests \in Seq(R!AnswerRecord) /\ cq \in Seq(R!AnswerRecord)
        BY <4>1 DEF R!UInv, R!UTypeOK
      <4> QED BY <2>3, <4>2 DEF Polled
    <3>2. UNCHANGED ringVars
      <4>1. completions \in Nat /\ Len(cq) = 0
        BY <3>1, SameInv DEF VInv, R!UInv, R!UTypeOK
      <4> QED BY <1>1, <3>1, <4>1 DEF RingPoll, ringVars
    <3>3. ToSet(Polled) = {}
      BY <2>3 DEF ToSet
    <3>4. Returned' = Returned /\ SlotOf' = SlotOf
      <4>1. SlotOf = [i \in Ids |-> SlotOf[i]]
        BY DEF SlotOf
      <4> QED BY <1>6, <1>9, <3>3, <4>1
    <3> QED BY <1>8, <3>2, <3>4 DEF R!uVars, R!ringVars, R!ownerVars, ringVars
  <2> QED BY <2>2, <2>3
<1>11. Cardinality(UsedSlots') = Cardinality(UsedSlots) - Len(Polled)
  <2> DEFINE ids == [k \in 1 .. Len(Polled) |-> Polled[k].id]
  <2>1. ids \in Seq(UsedSlots) /\ Len(ids) = Len(Polled) /\ DOMAIN ids = 1 .. Len(Polled)
    BY <1>4
  <2>2. \A j, k \in DOMAIN ids : ids[j] = ids[k] => j = k
    BY <1>4
  <2>3. ToSet(ids) = PolledIds
    BY <1>4 DEF PolledIds, ToSet
  <2> HIDE DEF ids
  <2>4. Cardinality(PolledIds) = Len(Polled)
    BY <2>1, <2>2, <2>3, CountOnce
  <2>5. UsedSlots \cap PolledIds = PolledIds
    BY <1>7
  <2>6. Cardinality(UsedSlots \ PolledIds)
          = Cardinality(UsedSlots) - Cardinality(UsedSlots \cap PolledIds)
    BY <1>3, FS_Difference
  <2> QED BY <1>5, <2>4, <2>5, <2>6
<1>12. ChainsOnce'
  <2>1. \A j, k \in DOMAIN used' : used'[j].req = used'[k].req => j = k
    <3>1. SUFFICES ASSUME NEW j \in 1 .. Len(used'), NEW k \in 1 .. Len(used'),
                          used'[j].req = used'[k].req
                   PROVE  j = k
      BY <1>6
    <3>2. \A m \in 1 .. Len(used) : used'[m].req \in Returned
      BY <1>3, <1>6
    <3>3. \A m \in DOMAIN Polled : Polled[m].req \notin Returned
      BY <1>2, <1>4 DEF ChainsOnce
    <3>4. CASE j \in 1 .. Len(used) /\ k \in 1 .. Len(used)
      BY <1>2, <1>3, <1>6, <3>1, <3>4 DEF ChainsOnce
    <3>5. CASE j \notin 1 .. Len(used) /\ k \notin 1 .. Len(used)
      <4>1. /\ j - Len(used) \in DOMAIN Polled /\ used'[j].req = Polled[j - Len(used)].req
            /\ k - Len(used) \in DOMAIN Polled /\ used'[k].req = Polled[k - Len(used)].req
        BY <1>6, <3>5
      <4>2. j - Len(used) = k - Len(used)
        BY <1>4, <3>1, <4>1
      <4> QED BY <1>3, <1>4, <1>6, <4>2
    <3>6. CASE j \in 1 .. Len(used) /\ k \notin 1 .. Len(used)
      BY <1>6, <3>1, <3>2, <3>3, <3>6
    <3>7. CASE j \notin 1 .. Len(used) /\ k \in 1 .. Len(used)
      BY <1>6, <3>1, <3>2, <3>3, <3>7
    <3> QED BY <3>4, <3>5, <3>6, <3>7
  <2>2. \A j \in DOMAIN avail' : avail'[j] \notin Taken'
    BY <1>1, <1>2, <1>8 DEF ChainsOnce
  <2>3. \A i \in UsedSlots' : request_slots'[i].req \notin Returned'
    <3>1. SUFFICES ASSUME NEW i \in UsedSlots', request_slots'[i].req \in Returned'
                   PROVE  FALSE
      OBVIOUS
    <3>2. i \in UsedSlots /\ i \notin PolledIds /\ request_slots[i].req \notin Returned
      BY <1>2, <1>5 DEF ChainsOnce
    <3>3. PICK j \in PolledIds : request_slots[i].req = request_slots[j].req
      BY <1>5, <1>6, <1>7, <3>1, <3>2
    <3>4. j \in UsedSlots /\ UsedSlots \subseteq Ids
          /\ \A k \in UsedSlots : SlotOf[k] = request_slots[k].req
      BY <1>3, <1>7, SlotOfIs
    <3>5. request_slots[i].req # NoRequest
      BY <1>2, <3>2 DEF VTypeOK, UsedSlots, QueueAssumption
    <3>6. R!SlotsExact
      BY SameInv DEF VInv, R!UInv
    <3>7. i = j
      BY <3>2, <3>3, <3>4, <3>5, <3>6 DEF R!SlotsExact
    <3> QED BY <3>2, <3>7
  <2>4. Cardinality(UsedSlots') + Len(used') + Len(avail') = avail_idx'
    <3>1. Cardinality(UsedSlots) + Len(used) + Len(avail) = avail_idx
      BY <1>2 DEF ChainsOnce
    <3> QED BY <1>1, <1>3, <1>4, <1>6, <1>11, <3>1
  <2>5. Known' = Known
    BY <1>1, <1>8 DEF Known
  <2>6. /\ Len(request_slots') + Len(avail') <= Slots + avail_idx'
        /\ Cardinality(Known') = avail_idx'
        /\ \A j, k \in DOMAIN avail' : avail'[j] = avail'[k] => j = k
    BY <1>1, <1>2, <1>5, <2>5 DEF ChainsOnce
  <2> QED BY <2>1, <2>2, <2>3, <2>4, <2>6 DEF ChainsOnce
<1>13. \A i \in DOMAIN request_slots' :
          request_slots'[i].used => request_slots'[i].req \in Requests
  BY <1>2, <1>5 DEF UsedSlots, VTypeOK
<1> QED BY <1>5, <1>10, <1>12, <1>13

-----------------------------------------------------------------------------
(* The steps keep the invariant.                                           *)

\* The part of the invariant that is not the ring's.
QueueInv == VTypeOK /\ ChainsOnce /\ TrackerMatchesSlots /\ KickDue /\ InterruptDue

LEMMA InvParts == VInv <=> Owner!UInv /\ QueueInv
BY DEF VInv, QueueInv

LEMMA GuestAddsStep ==
    ASSUME QueueAssumption, VInv, NEW r \in Requests, GuestAdds(r)
    PROVE  UNCHANGED R!uVars /\ QueueInv'
<1>1. VTypeOK /\ ChainsOnce /\ TrackerMatchesSlots /\ KickDue /\ InterruptDue
  BY DEF VInv
<1>2. /\ r \notin ToSet(avail) \cup Returned
      /\ ~\E i \in DOMAIN request_slots : request_slots[i].used /\ request_slots[i].req = r
      /\ avail' = Append(avail, r) /\ avail_idx' = avail_idx + 1
      /\ kick' = (kick \/ ~EventIdx \/ avail_event = avail_idx)
      /\ UNCHANGED <<ringVars, avail_event, used, used_event, signalled_used, irq,
                     request_slots, tracker, ios_pending_signal, phase, step, pq_busy>>
  BY DEF GuestAdds, slotVars, threadVars
<1>3. UNCHANGED <<UsedSlots, Returned, Taken, SlotOf>>
  BY <1>2, OwnerUnchanged
<1>4. UNCHANGED R!uVars
  BY <1>2, <1>3 DEF R!uVars, R!ringVars, R!ownerVars, ringVars
<1>5. avail \in Seq(Requests) /\ avail_idx \in Nat /\ DOMAIN avail = 1 .. Len(avail)
  BY <1>1 DEF VTypeOK
<1>6. /\ avail' \in Seq(Requests) /\ Len(avail') = Len(avail) + 1 /\ Len(avail) \in Nat
      /\ DOMAIN avail' = 1 .. Len(avail) + 1
      /\ \A k \in 1 .. Len(avail) : avail'[k] = avail[k]
      /\ avail'[Len(avail) + 1] = r
      /\ ToSet(avail') = ToSet(avail) \cup {r}
  BY <1>2, <1>5, ToSetAppend
<1>7. r \notin Known
  BY <1>2 DEF Known, Taken, UsedSlots
<1>8. VTypeOK'
  <2>1. avail_idx' \in Nat /\ kick' \in BOOLEAN
    BY <1>2, <1>5
  <2> QED BY <1>1, <1>2, <1>6, <2>1 DEF VTypeOK
<1>9. ChainsOnce'
  <2>1. \A j, k \in DOMAIN avail' : avail'[j] = avail'[k] => j = k
    <3>1. \A k \in 1 .. Len(avail) : avail[k] # r
      BY <1>2, <1>5 DEF ToSet
    <3>2. \A j, k \in 1 .. Len(avail) : avail[j] = avail[k] => j = k
      BY <1>1, <1>5 DEF ChainsOnce
    <3>3. SUFFICES ASSUME NEW j \in 1 .. Len(avail) + 1, NEW k \in 1 .. Len(avail) + 1,
                          avail'[j] = avail'[k]
                   PROVE  j = k
      BY <1>6
    <3>4. /\ j \in 1 .. Len(avail) \/ j = Len(avail) + 1
          /\ k \in 1 .. Len(avail) \/ k = Len(avail) + 1
      BY <1>6
    <3> QED BY <1>6, <3>1, <3>2, <3>3, <3>4
  <2>2. \A j \in DOMAIN avail' : avail'[j] \notin Taken'
    <3>1. SUFFICES ASSUME NEW j \in 1 .. Len(avail) + 1 PROVE avail'[j] \notin Taken
      BY <1>3, <1>6
    <3>2. CASE j \in 1 .. Len(avail)
      BY <1>1, <1>5, <1>6, <3>2 DEF ChainsOnce
    <3>3. CASE j = Len(avail) + 1
      BY <1>6, <1>7, <3>3 DEF Known
    <3> QED BY <1>6, <3>2, <3>3
  <2>3. Cardinality(Known') = avail_idx'
    <3>1. Known' = Known \cup {r}
      BY <1>3, <1>6 DEF Known
    <3>2. Known \subseteq Requests /\ IsFiniteSet(Requests)
      BY <1>1, QueueFacts DEF Known, QueueAssumption
    <3>3. IsFiniteSet(Known)
      BY <3>2, FS_Subset
    <3>4. Cardinality(Known \cup {r}) = Cardinality(Known) + 1
      BY <1>7, <3>3, FS_AddElement
    <3> QED BY <1>1, <1>2, <3>1, <3>4 DEF ChainsOnce
  <2>4. Cardinality(UsedSlots') + Len(used') + Len(avail') = avail_idx'
    <3>1. Cardinality(UsedSlots) + Len(used) + Len(avail) = avail_idx
      BY <1>1 DEF ChainsOnce
    <3>2. Cardinality(UsedSlots) \in Nat /\ Len(used) \in Nat
      BY <1>1, QueueFacts
    <3> QED BY <1>2, <1>3, <1>5, <1>6, <3>1, <3>2
  <2>5. Len(request_slots') + Len(avail') <= Slots + avail_idx'
    <3>1. Len(request_slots) + Len(avail) <= Slots + avail_idx /\ Slots \in Nat
      BY <1>1 DEF ChainsOnce, QueueAssumption
    <3>2. Len(request_slots) \in Nat
      BY <1>1, QueueFacts
    <3> QED BY <1>2, <1>5, <1>6, <3>1, <3>2
  <2>6. /\ \A j, k \in DOMAIN used' : used'[j].req = used'[k].req => j = k
        /\ \A i \in UsedSlots' : request_slots'[i].req \notin Returned'
    BY <1>1, <1>2, <1>3 DEF ChainsOnce
  <2> QED BY <2>1, <2>2, <2>3, <2>4, <2>5, <2>6 DEF ChainsOnce
<1>10. TrackerMatchesSlots'
  BY <1>1, <1>2, <1>3 DEF TrackerMatchesSlots
<1>11. InterruptDue'
  BY <1>1, <1>2 DEF InterruptDue, Told
<1>12. KickDue'
  <2>1. avail_event' + Len(avail') <= avail_idx'
    BY <1>1, <1>2, <1>5, <1>6 DEF KickDue, VTypeOK
  <2>2. avail' # <<>> /\ avail_event \in Nat
    BY <1>1, <1>6 DEF VTypeOK
  <2>3. /\ Running' <=> Running
        /\ kick => kick'
        /\ ~EventIdx => kick'
        /\ avail_event = avail_idx => kick'
    BY <1>2 DEF Running
  <2> QED BY <1>1, <1>2, <1>3, <2>1, <2>2, <2>3 DEF KickDue, NoLostKick
<1> QED BY <1>4, <1>8, <1>9, <1>10, <1>11, <1>12 DEF QueueInv

LEMMA GuestReapsStep ==
    ASSUME QueueAssumption, VInv, GuestReaps
    PROVE  UNCHANGED R!uVars /\ QueueInv'
<1>1. VTypeOK /\ ChainsOnce /\ TrackerMatchesSlots /\ KickDue /\ InterruptDue
  BY DEF VInv
<1>2. /\ irq' = FALSE /\ used_event' = Len(used)
      /\ UNCHANGED <<ringVars, avail, avail_idx, avail_event, kick, used, signalled_used,
                     request_slots, tracker, ios_pending_signal, phase, step, pq_busy>>
  BY DEF GuestReaps, slotVars, threadVars
<1>3. UNCHANGED <<UsedSlots, Returned, Taken, SlotOf>>
  BY <1>2, OwnerUnchanged
<1>4. UNCHANGED R!uVars
  BY <1>2, <1>3 DEF R!uVars, R!ringVars, R!ownerVars, ringVars
<1>5. Len(used) \in Nat /\ signalled_used \in 0 .. Len(used)
  BY <1>1 DEF VTypeOK
<1>6. VTypeOK'
  <2>1. used_event' \in 0 .. Len(used')
    BY <1>2, <1>5
  <2>2. {pq_busy', kick', irq', ios_pending_signal'} \subseteq BOOLEAN
    BY <1>1, <1>2 DEF VTypeOK
  <2> QED BY <1>1, <1>2, <2>1, <2>2 DEF VTypeOK
<1>7. ChainsOnce' /\ TrackerMatchesSlots'
  BY <1>1, <1>2, <1>3 DEF ChainsOnce, TrackerMatchesSlots, Known
<1>8. KickDue'
  BY <1>1, <1>2, <1>3 DEF KickDue, NoLostKick, Running
<1>9. InterruptDue'
  <2>1. used_event' + 1 .. Len(used') = {}
    BY <1>2, <1>5
  <2>2. Told'
    BY <2>1 DEF Told
  <2>3. ~(signalled_used' > used_event')
    BY <1>2, <1>5
  <2> QED BY <2>2, <2>3 DEF InterruptDue
<1> QED BY <1>4, <1>6, <1>7, <1>8, <1>9 DEF QueueInv

LEMMA HandleEventStep ==
    ASSUME QueueAssumption, VInv, HandleEvent
    PROVE  UNCHANGED R!uVars /\ QueueInv'
<1>1. VTypeOK /\ ChainsOnce /\ TrackerMatchesSlots /\ KickDue /\ InterruptDue
  BY DEF VInv
<1>2. /\ phase = "idle" /\ kick' = FALSE /\ phase' = "poll"
      /\ UNCHANGED <<ringVars, avail, avail_idx, avail_event, used, used_event, signalled_used,
                     irq, request_slots, tracker, ios_pending_signal, step, pq_busy>>
  BY DEF HandleEvent, slotVars
<1>3. UNCHANGED <<UsedSlots, Returned, Taken, SlotOf>>
  BY <1>2, OwnerUnchanged
<1>4. UNCHANGED R!uVars
  BY <1>2, <1>3 DEF R!uVars, R!ringVars, R!ownerVars, ringVars
<1>5. VTypeOK'
  BY <1>1, <1>2 DEF VTypeOK
<1>6. ChainsOnce' /\ TrackerMatchesSlots'
  BY <1>1, <1>2, <1>3 DEF ChainsOnce, TrackerMatchesSlots, Known
<1>7. InterruptDue'
  BY <1>1, <1>2 DEF InterruptDue, Told
<1>8. KickDue'
  BY <1>1, <1>2 DEF KickDue, NoLostKick, Running
<1> QED BY <1>4, <1>5, <1>6, <1>7, <1>8 DEF QueueInv

LEMMA EnableStep ==
    ASSUME QueueAssumption, VInv, EnableNotification
    PROVE  UNCHANGED R!uVars /\ QueueInv'
<1>1. VTypeOK /\ ChainsOnce /\ TrackerMatchesSlots /\ KickDue /\ InterruptDue
  BY DEF VInv
<1>2. /\ phase = "enable" /\ avail_event' = avail_idx - Len(avail) /\ phase' = "armed"
      /\ UNCHANGED <<ringVars, avail, avail_idx, kick, used, used_event, signalled_used,
                     irq, request_slots, tracker, ios_pending_signal, step, pq_busy>>
  BY DEF EnableNotification, slotVars, guestVars
<1>3. UNCHANGED <<UsedSlots, Returned, Taken, SlotOf>>
  BY <1>2, OwnerUnchanged
<1>4. UNCHANGED R!uVars
  BY <1>2, <1>3 DEF R!uVars, R!ringVars, R!ownerVars, ringVars
<1>5. Len(avail) \in Nat /\ avail_event \in Nat /\ avail_idx \in Nat
      /\ avail_event + Len(avail) <= avail_idx /\ (avail = <<>> => Len(avail) = 0)
  BY <1>1 DEF VTypeOK, KickDue
<1>6. avail_event' \in Nat /\ avail_event' + Len(avail) = avail_idx
      /\ (avail = <<>> => avail_event' = avail_idx)
  BY <1>2, <1>5
<1>7. VTypeOK'
  BY <1>1, <1>2, <1>6 DEF VTypeOK
<1>8. ChainsOnce' /\ TrackerMatchesSlots'
  BY <1>1, <1>2, <1>3 DEF ChainsOnce, TrackerMatchesSlots, Known
<1>9. InterruptDue'
  BY <1>1, <1>2 DEF InterruptDue, Told
<1>10. KickDue'
  <2>1. avail_event' + Len(avail') <= avail_idx'
    BY <1>2, <1>5, <1>6
  <2> QED BY <1>1, <1>2, <1>6, <2>1 DEF KickDue, NoLostKick, Running
<1> QED BY <1>4, <1>7, <1>8, <1>9, <1>10 DEF QueueInv

LEMMA DeviceStepKeeps ==
    ASSUME QueueAssumption, VInv, NEW e \in kernel, NEW ok \in BOOLEAN, DeviceAnswers(e, ok)
    PROVE  [R!UNext]_(R!uVars) /\ QueueInv'
<1>1. VTypeOK /\ ChainsOnce /\ TrackerMatchesSlots /\ KickDue /\ InterruptDue
  BY DEF VInv
<1>2. UNCHANGED <<avail, avail_idx, avail_event, kick, used, used_event, signalled_used, irq,
                  request_slots, tracker, ios_pending_signal, phase, step, pq_busy>>
  BY DEF DeviceAnswers, slotVars, guestVars, threadVars
<1>3. UNCHANGED <<UsedSlots, Returned, Taken, SlotOf>>
  BY <1>2, OwnerUnchanged
<1>4. [R!UNext]_(R!uVars)
  BY DeviceAnswersRing DEF R!UNext
<1>5. VTypeOK'
  BY <1>1, <1>2 DEF VTypeOK
<1>6. ChainsOnce' /\ TrackerMatchesSlots'
  BY <1>1, <1>2, <1>3 DEF ChainsOnce, TrackerMatchesSlots, Known
<1>7. InterruptDue'
  BY <1>1, <1>2 DEF InterruptDue, Told
<1>8. KickDue'
  BY <1>1, <1>2, <1>3 DEF KickDue, NoLostKick, Running
<1> QED BY <1>4, <1>5, <1>6, <1>7, <1>8 DEF QueueInv

LEMMA SubmitStep ==
    ASSUME QueueAssumption, VInv, NEW ok \in BOOLEAN, SubmitIo(ok)
    PROVE  [R!UNext]_(R!uVars) /\ QueueInv'
<1>1. VTypeOK /\ ChainsOnce /\ TrackerMatchesSlots /\ KickDue /\ InterruptDue
  BY DEF VInv
<1>2. /\ Running /\ step = "pop" /\ avail = <<>> /\ step' = "poll"
      /\ UNCHANGED <<avail, avail_idx, avail_event, kick, used, used_event, signalled_used, irq,
                     request_slots, tracker, ios_pending_signal, phase, pq_busy>>
  BY DEF SubmitIo, slotVars, guestVars
<1>3. UNCHANGED <<UsedSlots, Returned, Taken, SlotOf>>
  BY <1>2, OwnerUnchanged
<1>4. [R!UNext]_(R!uVars)
  BY <1>1, QueueFacts, SubmitsToRing DEF R!UNext
<1>5. VTypeOK'
  BY <1>1, <1>2 DEF VTypeOK
<1>6. ChainsOnce' /\ TrackerMatchesSlots'
  BY <1>1, <1>2, <1>3 DEF ChainsOnce, TrackerMatchesSlots, Known
<1>7. InterruptDue'
  BY <1>1, <1>2 DEF InterruptDue, Told
<1>8. KickDue'
  BY <1>1, <1>2, <1>3 DEF KickDue, NoLostKick, Running
<1> QED BY <1>4, <1>5, <1>6, <1>7, <1>8 DEF QueueInv

\* The wakeups while a chain is popped and processed.
LEMMA PoppedKick ==
    ASSUME QueueAssumption, VInv, NEW r \in Requests, Popped(r)
    PROVE  /\ KickDue'
           /\ UNCHANGED <<avail_event, avail_idx, kick, used_event, signalled_used, irq, phase,
                          step>>
           /\ pq_busy' = TRUE
<1>1. VTypeOK /\ ChainsOnce /\ KickDue
  BY DEF VInv
<1>2. /\ Running /\ step = "pop" /\ avail # <<>> /\ pq_busy' = TRUE
      /\ UNCHANGED <<avail_event, avail_idx, kick, used_event, signalled_used, irq, phase, step>>
  BY DEF Popped
<1>3. Len(avail') = Len(avail) - 1 /\ Len(avail) \in Nat /\ avail_event \in Nat /\ avail_idx \in Nat
  BY <1>1, PoppedFacts DEF VTypeOK
<1>4. avail_event' + Len(avail') <= avail_idx'
  BY <1>1, <1>2, <1>3 DEF KickDue
<1>5. KickDue'
  BY <1>1, <1>2, <1>4 DEF KickDue, NoLostKick, Running
<1> QED BY <1>2, <1>5

\* A chain that is answered at once.  Only one that could not be parsed is not
\* remembered for a signal.
LEMMA AnsweredStep ==
    ASSUME QueueAssumption, VInv, NEW r \in Requests, Popped(r), UNCHANGED <<ringVars, tracker>>,
           request_slots' \in Seq(SlotRecord), Len(request_slots') <= Len(request_slots) + 1,
           UsedSlots' = UsedSlots,
           \A i \in UsedSlots : request_slots'[i].req = request_slots[i].req,
           CompleteBadChain(r) \/ \E status \in {"ok", "ioerr", "unsupp"} : CompleteIo(r, status)
    PROVE  [R!UNext]_(R!uVars) /\ QueueInv'
<1>1. VTypeOK /\ ChainsOnce /\ TrackerMatchesSlots /\ KickDue /\ InterruptDue
  BY DEF VInv
<1>2. PICK status \in {"ok", "ioerr", "unsupp", "unwritten"} :
         /\ used' = Append(used, [req |-> r, status |-> status])
         /\ \/ status = "unwritten" /\ UNCHANGED ios_pending_signal
            \/ ios_pending_signal' = TRUE
  BY DEF CompleteBadChain, CompleteIo
<1> DEFINE u == [req |-> r, status |-> status]
<1>3. u \in UsedRecord /\ u.req = r /\ u.status = status
  BY DEF UsedRecord
<1>4. used' = Append(used, u)
  BY <1>2
<1> HIDE DEF u
<1>5. /\ R!OwnerAnswers(r) /\ ChainsOnce'
      /\ used' \in Seq(UsedRecord) /\ Len(used') = Len(used) + 1
      /\ \A k \in 1 .. Len(used) : used'[k] = used[k]
  BY <1>3, <1>4, AnswersItself
<1>6. /\ KickDue' /\ pq_busy' = TRUE
      /\ UNCHANGED <<avail_event, avail_idx, kick, used_event, signalled_used, irq, phase, step>>
  BY PoppedKick
<1>7. /\ avail' \in Seq(Requests) /\ Len(used) \in Nat
      /\ used_event \in 0 .. Len(used) /\ signalled_used \in 0 .. Len(used)
  BY <1>1, PoppedFacts DEF VTypeOK
<1>8. \A i \in DOMAIN request_slots' :
         request_slots'[i].used => request_slots'[i].req \in Requests
  BY <1>1 DEF UsedSlots, VTypeOK
<1>9. VTypeOK'
  <2>1. used_event' \in 0 .. Len(used') /\ signalled_used' \in 0 .. Len(used')
    BY <1>5, <1>6, <1>7
  <2>2. {pq_busy', kick', irq', ios_pending_signal'} \subseteq BOOLEAN
    BY <1>1, <1>2, <1>6 DEF VTypeOK
  <2> QED BY <1>1, <1>5, <1>6, <1>7, <1>8, <2>1, <2>2 DEF VTypeOK
<1>10. TrackerMatchesSlots'
  BY <1>1 DEF TrackerMatchesSlots
<1>11. InterruptDue'
  <2>1. EventIdx /\ signalled_used' > used_event' => irq'
    BY <1>1, <1>6 DEF InterruptDue
  <2>2. CASE ios_pending_signal' = TRUE
    BY <1>6, <2>1, <2>2 DEF InterruptDue
  <2>3. CASE status = "unwritten" /\ UNCHANGED ios_pending_signal
    <3>1. ASSUME Told PROVE Told'
      <4>1. CASE irq
        BY <1>6, <4>1 DEF Told
      <4>2. CASE \A k \in used_event + 1 .. Len(used) : used[k].status = "unwritten"
        <5>1. used'[Len(used) + 1].status = "unwritten"
          BY <1>1, <1>3, <1>4, <2>3, ToSetAppend DEF VTypeOK
        <5>2. ASSUME NEW k \in used_event' + 1 .. Len(used') PROVE used'[k].status = "unwritten"
          <6>1. k \in used_event + 1 .. Len(used) \/ k = Len(used) + 1
            BY <1>5, <1>6, <1>7
          <6>2. k \in used_event + 1 .. Len(used) => k \in 1 .. Len(used)
            BY <1>7
          <6> QED BY <1>5, <4>2, <5>1, <6>1, <6>2
        <5> QED BY <5>2 DEF Told
      <4> QED BY <3>1, <4>1, <4>2 DEF Told
    <3> QED BY <1>1, <1>6, <2>1, <2>3, <3>1 DEF InterruptDue
  <2> QED BY <1>2, <2>2, <2>3
<1>12. [R!UNext]_(R!uVars)
  BY <1>5 DEF R!UNext
<1> QED BY <1>5, <1>6, <1>9, <1>10, <1>11, <1>12 DEF QueueInv

LEMMA ProcessStep ==
    ASSUME QueueAssumption, VInv, NEW r \in Requests, Process(r)
    PROVE  [R!UNext]_(R!uVars) /\ QueueInv'
<1>1. VTypeOK /\ ChainsOnce /\ TrackerMatchesSlots /\ KickDue /\ InterruptDue
  BY DEF VInv
<1>2. request_slots \in Seq(SlotRecord) /\ Len(request_slots) \in Nat
      /\ DOMAIN request_slots = 1 .. Len(request_slots)
  BY <1>1 DEF VTypeOK
<1>3. CASE ProcessBadChain(r) \/ ProcessAtOnce(r)
  <2>1. /\ Popped(r) /\ UNCHANGED <<ringVars, tracker, request_slots>>
        /\ CompleteBadChain(r) \/ \E status \in {"ok", "ioerr", "unsupp"} : CompleteIo(r, status)
    BY <1>3 DEF ProcessBadChain, ProcessAtOnce, slotVars
  <2>2. UsedSlots' = UsedSlots
    BY <2>1 DEF UsedSlots
  <2> QED BY <1>2, <2>1, <2>2, AnsweredStep
<1>4. CASE ProcessWriteFails(r)
  <2> DEFINE i == get_request_slot(DataLen[r])
  <2>1. /\ Popped(r) /\ UNCHANGED <<ringVars, tracker>>
        /\ \E status \in {"ok", "ioerr", "unsupp"} : CompleteIo(r, status)
        /\ request_slots' =
             IF i \in DOMAIN request_slots
               THEN [request_slots EXCEPT ![i] =
                       [used |-> FALSE, len |-> request_slots[i].len, req |-> r]]
               ELSE Append(request_slots, [used |-> FALSE, len |-> DataLen[r], req |-> r])
    BY <1>4 DEF ProcessWriteFails
  <2>2. DataLen[r] \in Nat /\ avail # <<>>
    BY <2>1 DEF QueueAssumption, Popped
  <2>3. i \notin UsedSlots
    BY <1>1, <2>2, SlotChosen
  <2> HIDE DEF i
  <2>4. /\ request_slots' \in Seq(SlotRecord) /\ Len(request_slots') <= Len(request_slots) + 1
        /\ UsedSlots' = UsedSlots
        /\ \A j \in UsedSlots : request_slots'[j].req = request_slots[j].req
    <3>1. CASE i \in DOMAIN request_slots
      <4> DEFINE new == [used |-> FALSE, len |-> request_slots[i].len, req |-> r]
      <4>1. /\ DOMAIN request_slots' = 1 .. Len(request_slots)
            /\ request_slots'[i] = new
            /\ \A j \in 1 .. Len(request_slots) : j # i => request_slots'[j] = request_slots[j]
            /\ request_slots' = [j \in 1 .. Len(request_slots) |-> request_slots'[j]]
        BY <1>2, <2>1, <3>1
      <4>2. request_slots[i] \in SlotRecord
        BY <1>2, <3>1
      <4>3. request_slots[i].len \in Nat
        BY <4>2 DEF SlotRecord
      <4>4. new \in SlotRecord /\ ~new.used
        BY <4>3 DEF SlotRecord
      <4> HIDE DEF new
      <4>5. \A j \in 1 .. Len(request_slots) : request_slots'[j] \in SlotRecord
        BY <1>2, <4>1, <4>4
      <4>6. request_slots' \in Seq(SlotRecord) /\ Len(request_slots') = Len(request_slots)
        BY <1>2, <4>1, <4>5
      <4>7. UsedSlots' = UsedSlots
        BY <1>2, <2>3, <4>1, <4>4 DEF UsedSlots
      <4>8. \A j \in UsedSlots : request_slots'[j].req = request_slots[j].req
        BY <1>2, <2>3, <4>1 DEF UsedSlots
      <4> QED BY <1>2, <4>6, <4>7, <4>8
    <3>2. CASE i \notin DOMAIN request_slots
      <4> DEFINE new == [used |-> FALSE, len |-> DataLen[r], req |-> r]
      <4>1. request_slots' = Append(request_slots, new)
        BY <2>1, <3>2
      <4>2. new \in SlotRecord /\ ~new.used
        BY <2>2 DEF SlotRecord
      <4> HIDE DEF new
      <4>3. /\ request_slots' \in Seq(SlotRecord)
            /\ DOMAIN request_slots' = 1 .. Len(request_slots) + 1
            /\ Len(request_slots') = Len(request_slots) + 1
            /\ \A j \in 1 .. Len(request_slots) : request_slots'[j] = request_slots[j]
            /\ request_slots'[Len(request_slots) + 1] = new
        BY <1>2, <4>1, <4>2, ToSetAppend
      <4>4. UsedSlots' = UsedSlots
        BY <1>2, <4>2, <4>3 DEF UsedSlots
      <4> QED BY <1>2, <4>3, <4>4 DEF UsedSlots
    <3> QED BY <3>1, <3>2
  <2> QED BY <2>1, <2>4, AnsweredStep
<1>5. CASE ProcessIo(r)
  <2>1. /\ \E i \in Ids : R!OwnerAdd(i, r)
        /\ request_slots' \in Seq(SlotRecord)
        /\ \A i \in DOMAIN request_slots' :
              request_slots'[i].used => request_slots'[i].req \in Requests
        /\ DOMAIN tracker' = DOMAIN tracker
        /\ ChainsOnce' /\ TrackerMatchesSlots'
    BY <1>5, AddsToRing
  <2>2. Popped(r) /\ UNCHANGED <<used, ios_pending_signal>>
    BY <1>5 DEF ProcessIo
  <2>3. /\ KickDue' /\ pq_busy' = TRUE
        /\ UNCHANGED <<avail_event, avail_idx, kick, used_event, signalled_used, irq, phase, step>>
    BY <2>2, PoppedKick
  <2>4. avail' \in Seq(Requests)
    BY <1>1, <2>2, PoppedFacts
  <2>5. VTypeOK'
    <3>1. {pq_busy', kick', irq', ios_pending_signal'} \subseteq BOOLEAN
      BY <1>1, <2>2, <2>3 DEF VTypeOK
    <3> QED BY <1>1, <2>1, <2>2, <2>3, <2>4, <3>1 DEF VTypeOK
  <2>6. InterruptDue'
    BY <1>1, <2>2, <2>3 DEF InterruptDue, Told
  <2> QED BY <2>1, <2>3, <2>5, <2>6 DEF QueueInv, R!UNext
<1> QED BY <1>3, <1>4, <1>5 DEF Process

\* poll_io, the signal and the end of a round of process_queue.
LEMMA PollStep ==
    ASSUME QueueAssumption, VInv, PollIo
    PROVE  [R!UNext]_(R!uVars) /\ QueueInv'
<1>1. VTypeOK /\ ChainsOnce /\ TrackerMatchesSlots /\ KickDue /\ InterruptDue /\ Owner!UInv
  BY DEF VInv
<1>2. /\ [R!UNext]_(R!uVars)
      /\ request_slots' \in Seq(SlotRecord)
      /\ \A i \in DOMAIN request_slots' :
            request_slots'[i].used => request_slots'[i].req \in Requests
      /\ DOMAIN tracker' = DOMAIN tracker
      /\ ChainsOnce' /\ TrackerMatchesSlots'
  BY PollsRing
<1>3. /\ used' \in Seq(UsedRecord) /\ Len(used') = Len(used) + Len(Polled)
      /\ \A k \in 1 .. Len(used) : used'[k] = used[k]
  BY PollReturns
<1>4. Len(Polled) \in Nat
  BY PolledFacts
<1> DEFINE pending_signal == ios_pending_signal \/ Polled # <<>>
           needs == pending_signal
                      /\ (~EventIdx \/ NeedsNotification(signalled_used, Len(used')))
<1>5. /\ Running /\ step = "poll"
      /\ signalled_used' = (IF pending_signal /\ EventIdx THEN Len(used') ELSE signalled_used)
      /\ irq' = (irq \/ needs)
      /\ ios_pending_signal' = (pending_signal /\ ~needs)
      /\ phase' \in AfterRound(pq_busy \/ ring_busy')
      /\ step' = "pop" /\ pq_busy' = FALSE
      /\ UNCHANGED <<avail, avail_idx, avail_event, kick, used_event>>
  BY DEF PollIo
<1>6. /\ Len(used) \in Nat /\ used_event \in 0 .. Len(used) /\ signalled_used \in 0 .. Len(used)
      /\ EventIdx \in BOOLEAN
  BY <1>1 DEF VTypeOK, QueueAssumption
<1>7. /\ (irq \/ needs) => irq'
      /\ (pending_signal /\ ~needs) => ios_pending_signal'
      /\ needs <=> (ios_pending_signal \/ Polled # <<>>)
                     /\ (~EventIdx \/ NeedsNotification(signalled_used, Len(used')))
      /\ irq' \in BOOLEAN /\ ios_pending_signal' \in BOOLEAN
  BY <1>5
<1>8. pending_signal <=> (ios_pending_signal \/ Polled # <<>>)
  OBVIOUS
<1> HIDE DEF needs, pending_signal
<1>9. VTypeOK'
  <2>1. used_event' \in 0 .. Len(used') /\ signalled_used' \in 0 .. Len(used')
    BY <1>3, <1>4, <1>5, <1>6
  <2>2. {pq_busy', kick', irq', ios_pending_signal'} \subseteq BOOLEAN
    BY <1>1, <1>5, <1>7 DEF VTypeOK
  <2>3. phase' \in {"idle", "poll", "enable", "armed", "last"}
    BY <1>5 DEF AfterRound, Running
  <2> QED BY <1>1, <1>2, <1>3, <1>5, <2>1, <2>2, <2>3 DEF VTypeOK
<1>10. InterruptDue'
  <2>1. CASE needs
    BY <1>7, <2>1 DEF InterruptDue, Told
  <2>2. CASE pending_signal /\ ~needs
    <3>1. EventIdx /\ ~NeedsNotification(signalled_used, Len(used'))
      BY <1>7, <1>8, <2>2
    <3>2. signalled_used > used_event \/ Len(used') <= used_event
      BY <1>3, <1>4, <1>6, <3>1 DEF NeedsNotification
    <3>3. signalled_used > used_event => irq'
      BY <1>1, <1>7, <3>1 DEF InterruptDue
    <3>4. Len(used') <= used_event => used_event' + 1 .. Len(used') = {}
      BY <1>3, <1>4, <1>5, <1>6
    <3>5. Told'
      BY <3>2, <3>3, <3>4 DEF Told
    <3>6. signalled_used' > used_event' => irq'
      BY <1>3, <1>4, <1>5, <1>6, <2>2, <3>1, <3>2, <3>3
    <3> QED BY <3>5, <3>6 DEF InterruptDue
  <2>3. CASE ~pending_signal
    <3>1. Polled = <<>> /\ ~ios_pending_signal
      BY <1>8, <2>3
    <3>2. used' = used
      <4>1. Len(used') = Len(used)
        BY <1>3, <1>6, <3>1
      <4>2. used \in Seq(UsedRecord)
        BY <1>1 DEF VTypeOK
      <4> QED BY <1>3, <4>1, <4>2
    <3>3. Told
      BY <1>1, <3>1 DEF InterruptDue
    <3>4. Told'
      BY <1>5, <1>7, <3>2, <3>3 DEF Told
    <3>5. EventIdx /\ signalled_used' > used_event' => irq'
      BY <1>1, <1>5, <1>7, <2>3 DEF InterruptDue
    <3> QED BY <3>4, <3>5 DEF InterruptDue
  <2> QED BY <2>1, <2>2, <2>3
<1>11. KickDue'
  <2>1. ~ring_busy' => UsedSlots' = {}
    <3>1. R!BusyWhileOpen'
      BY <1>1, <1>2, OwnerStep
    <3>2. ring_busy' <=> \E i \in Ids : SlotOf'[i] # NoRequest
      BY <3>1 DEF R!BusyWhileOpen, R!ring_busy, ring_busy
    <3>3. (DOMAIN request_slots \subseteq Ids)'
      <4>1. \A i \in DOMAIN request_slots : i \in Ids
        BY <1>1, QueueFacts
      <4>2. DOMAIN request_slots' = DOMAIN request_slots
        BY <1>1, SlotsPut DEF PollIo
      <4> QED BY <4>1, <4>2
    <3>4. \A i \in UsedSlots' : i \in Ids /\ SlotOf'[i] = request_slots'[i].req
      BY <3>3 DEF SlotOf, UsedSlots
    <3>5. \A i \in UsedSlots' : request_slots'[i].req # NoRequest
      BY <1>2 DEF UsedSlots, QueueAssumption
    <3> QED BY <3>2, <3>4, <3>5
  <2>2. UsedSlots' \subseteq UsedSlots
    BY <1>1, SlotsPut DEF PollIo
  <2>3. /\ phase = "poll" /\ (phase' = "poll"
                              \/ (EventIdx /\ phase' = "enable")
                              \/ (~EventIdx /\ phase' = "last" /\ ~pq_busy /\ ~ring_busy'))
        \/ /\ phase = "armed" /\ EventIdx
           /\ phase' = "enable" \/ (phase' = "idle" /\ ~pq_busy /\ ~ring_busy')
        \/ /\ phase = "last" /\ ~EventIdx /\ phase' = "idle"
    BY <1>1, <1>5 DEF AfterRound, Running, KickDue
  <2>4. /\ avail_event \in Nat /\ avail_idx \in Nat /\ Len(avail) \in Nat
        /\ avail_event + Len(avail) <= avail_idx /\ avail \in Seq(Requests)
    BY <1>1 DEF VTypeOK, KickDue
  <2>5. avail_event = avail_idx => avail = <<>>
    BY <2>4
  <2>6. avail_event' + Len(avail') <= avail_idx'
    BY <1>5, <2>4
  <2>7. EventIdx /\ phase' = "idle" =>
           /\ kick \/ avail_event = avail_idx
           /\ UsedSlots' = {}
    BY <1>1, <1>5, <2>1, <2>3 DEF KickDue
  <2>8. ~EventIdx /\ phase' = "last" => kick \/ (avail = <<>> /\ UsedSlots' = {})
    BY <1>1, <1>5, <2>1, <2>3 DEF KickDue, Running
  <2>9. ~EventIdx /\ phase' = "idle" => kick \/ (avail = <<>> /\ UsedSlots' = {})
    BY <1>1, <2>2, <2>3 DEF KickDue
  <2>10. NoLostKick'
    BY <1>5, <2>5, <2>7, <2>9 DEF NoLostKick
  <2> QED BY <1>5, <2>3, <2>6, <2>7, <2>8, <2>10 DEF KickDue, Running
<1> QED BY <1>2, <1>9, <1>10, <1>11 DEF QueueInv

\* Every step of the queue is a step of an owner that keeps the contract of the
\* channel, or leaves the channel and the owner's view of it alone.
LEMMA NextKeeps ==
    ASSUME QueueAssumption, VInv, [VNext]_vVars
    PROVE  VInv' /\ [Owner!UNext]_(Owner!uVars)
<1>1. [R!UNext]_(R!uVars) /\ QueueInv'
  <2>1. CASE \E r \in Requests : GuestAdds(r)
    BY <2>1, GuestAddsStep
  <2>2. CASE GuestReaps
    BY <2>2, GuestReapsStep
  <2>3. CASE \E r \in Requests : Process(r)
    BY <2>3, ProcessStep
  <2>4. CASE \E ok \in BOOLEAN : SubmitIo(ok)
    BY <2>4, SubmitStep
  <2>5. CASE PollIo
    BY <2>5, PollStep
  <2>6. CASE HandleEvent
    BY <2>6, HandleEventStep
  <2>7. CASE EnableNotification
    BY <2>7, EnableStep
  <2>8. CASE DeviceStep
    BY <2>8, DeviceStepKeeps DEF DeviceStep
  <2>9. CASE UNCHANGED vVars
    <3>1. UNCHANGED <<ringVars, avail, avail_idx, avail_event, kick, used, used_event,
                      signalled_used, irq, request_slots, tracker, ios_pending_signal,
                      phase, step, pq_busy>>
      BY <2>9 DEF vVars, slotVars, threadVars
    <3>2. UNCHANGED <<UsedSlots, Returned, Taken, SlotOf>>
      BY <3>1, OwnerUnchanged
    <3>3. UNCHANGED R!uVars
      BY <3>1, <3>2 DEF R!uVars, R!ringVars, R!ownerVars, ringVars
    <3>4. VTypeOK' /\ ChainsOnce' /\ TrackerMatchesSlots'
      BY <3>1, <3>2 DEF VInv, VTypeOK, ChainsOnce, TrackerMatchesSlots, Known
    <3>5. KickDue' /\ InterruptDue'
      BY <3>1, <3>2 DEF VInv, KickDue, NoLostKick, Running, InterruptDue, Told
    <3> QED BY <3>3, <3>4, <3>5 DEF QueueInv
  <2> QED BY <2>1, <2>2, <2>3, <2>4, <2>5, <2>6, <2>7, <2>8, <2>9 DEF VNext, ThreadStep
<1>2. Owner!UInv'
  BY <1>1, OwnerStep DEF VInv
<1> QED BY <1>1, <1>2, SameNext DEF VInv, QueueInv

LEMMA InitKeeps ==
    ASSUME QueueAssumption, VInit
    PROVE  VInv /\ Owner!UInit
<1>1. /\ avail = <<>> /\ avail_idx = 0 /\ avail_event = 0 /\ kick = FALSE
      /\ used = <<>> /\ used_event = 0 /\ signalled_used = 0 /\ irq = FALSE
      /\ request_slots
           = [i \in 1 .. Slots |-> [used |-> FALSE, len |-> BufSize, req |-> NoRequest]]
      /\ tracker = [i \in 1 .. TrackedSlots |-> "none"]
      /\ ios_pending_signal = FALSE
      /\ phase = "idle" /\ step = "pop" /\ pq_busy = FALSE
  BY DEF VInit
<1>2. Len(used) = 0 /\ Len(avail) = 0 /\ Slots \in Nat /\ BufSize \in Nat
  BY <1>1 DEF QueueAssumption
<1>3. UsedSlots = {}
  BY <1>1 DEF UsedSlots
<1>4. Returned = {}
  BY <1>1 DEF Returned, ToSet
<1>5. Taken = {} /\ SlotOf = [i \in Ids |-> NoRequest]
  BY <1>3, <1>4 DEF Taken, SlotOf
<1>6. R!UInit
  BY <1>4, <1>5 DEF VInit, RingInit, R!UInit, R!RingInit
<1>7. Owner!UInv
  <2>1. R!Contract
    BY DEF QueueAssumption, R!Contract
  <2> QED BY <1>6, <2>1, R!UInitInv, SameInv
<1>8. request_slots \in Seq(SlotRecord) /\ Len(request_slots) = Slots
  <2>1. [used |-> FALSE, len |-> BufSize, req |-> NoRequest] \in SlotRecord
    BY <1>2 DEF SlotRecord
  <2> QED BY <1>1, <1>2, <2>1
<1>9. VTypeOK
  <2>1. \A i \in DOMAIN request_slots :
           request_slots[i].used => request_slots[i].req \in Requests
    BY <1>3 DEF UsedSlots
  <2>2. avail \in Seq(Requests) /\ used \in Seq(UsedRecord)
    BY <1>1
  <2>3. used_event \in 0 .. Len(used) /\ signalled_used \in 0 .. Len(used)
    BY <1>1, <1>2
  <2> QED BY <1>1, <1>8, <2>1, <2>2, <2>3 DEF VTypeOK
<1>10. ChainsOnce
  <2>1. Cardinality(UsedSlots) = 0
    BY <1>3, FS_EmptySet
  <2>2. Known = {}
    BY <1>1, <1>5 DEF Known, ToSet
  <2>3. Cardinality(Known) = 0
    BY <2>2, FS_EmptySet
  <2>4. DOMAIN avail = {} /\ DOMAIN used = {}
    BY <1>1
  <2> QED BY <1>1, <1>2, <1>3, <1>8, <2>1, <2>3, <2>4 DEF ChainsOnce
<1>11. TrackerMatchesSlots
  BY <1>1, <1>3 DEF TrackerMatchesSlots
<1>12. KickDue
  BY <1>1, <1>2, <1>3 DEF KickDue, NoLostKick, Running
<1>13. InterruptDue
  BY <1>1, <1>2 DEF InterruptDue, Told
<1> QED BY <1>6, <1>7, <1>9, <1>10, <1>11, <1>12, <1>13, SameInit DEF VInv

-----------------------------------------------------------------------------
(* What the invariant gives.                                               *)

LEMMA InvChains ==
    ASSUME QueueAssumption, VInv
    PROVE  ChainsConserved /\ SlotsHeldByKernel
<1>1. VTypeOK /\ ChainsOnce
  BY DEF VInv
<1>2. DOMAIN request_slots \subseteq Ids /\ DOMAIN used = 1 .. Len(used) /\ Len(used) \in Nat
      /\ Returned = {used[k].req : k \in DOMAIN used}
      /\ \A k \in DOMAIN used : used[k] \in UsedRecord
  BY <1>1, QueueFacts
<1>3. \A i, j \in UsedSlots : request_slots[i].req = request_slots[j].req => i = j
  <2>1. UsedSlots \subseteq Ids /\ \A i \in UsedSlots : SlotOf[i] = request_slots[i].req
    BY <1>2, SlotOfIs
  <2>2. \A i \in UsedSlots : request_slots[i].req # NoRequest
    BY <1>1 DEF VTypeOK, UsedSlots, QueueAssumption
  <2>3. R!SlotsExact
    BY SameInv DEF VInv, R!UInv
  <2> QED BY <2>1, <2>2, <2>3 DEF R!SlotsExact
<1>4. \A i \in UsedSlots : request_slots[i].req \notin Returned \cup ToSet(avail)
  BY <1>1 DEF ChainsOnce, Taken, ToSet
<1>5. Cardinality(Returned) = Len(used)
  <2> DEFINE reqs == [k \in 1 .. Len(used) |-> used[k].req]
  <2>1. \A k \in 1 .. Len(used) : used[k].req \in Requests
    BY <1>2 DEF UsedRecord
  <2>2. reqs \in Seq(Requests) /\ Len(reqs) = Len(used) /\ DOMAIN reqs = 1 .. Len(used)
    BY <1>2, <2>1
  <2>3. \A j, k \in DOMAIN reqs : reqs[j] = reqs[k] => j = k
    BY <1>1, <1>2 DEF ChainsOnce
  <2>4. ToSet(reqs) = Returned
    BY <1>2 DEF ToSet
  <2> HIDE DEF reqs
  <2> QED BY <2>2, <2>3, <2>4, CountOnce
<1>6. ChainsConserved
  BY <1>1, <1>3, <1>4, <1>5 DEF ChainsConserved, ChainsOnce
<1>7. SlotsHeldByKernel
  <2>1. ASSUME NEW e \in kernel \cup ToSet(sq) \cup ToSet(Polled)
        PROVE  e.id \in UsedSlots /\ request_slots[e.id].req = e.req
    <3>1. CASE e \in kernel
      BY <3>1, HeldBySlots
    <3>2. CASE e \in ToSet(sq)
      BY <3>2, HeldBySlots DEF ToSet
    <3>3. CASE e \in ToSet(Polled)
      BY <3>3, PolledFacts DEF ToSet
    <3> QED BY <3>1, <3>2, <3>3
  <2> QED BY <2>1 DEF SlotsHeldByKernel
<1> QED BY <1>6, <1>7

LEMMA InvWakeups == VInv => NoLostKick /\ NoLostInterrupt
<1>1. VInv => NoLostKick
  BY DEF VInv, KickDue
<1>2. VInv => NoLostInterrupt
  BY DEF VInv, KickDue, InterruptDue, NoLostInterrupt, Running
<1> QED BY <1>1, <1>2

-----------------------------------------------------------------------------
(* Parsing.                                                                *)

\* Request::parse accepts exactly the well-formed chains of any length.
THEOREM ParseExact ==
    ASSUME NEW n \in Nat, NEW c \in Chain(n)
    PROVE  LET p == Parse(c) IN
           /\ p.error = "none" <=> WellFormed(c)
           /\ p.error = "none" =>
                /\ p.data = [j \in 1 .. Len(c.desc) - 2 |-> c.desc[j + 1].len]
                /\ p.status = Len(c.desc) /\ p.type = c.type
<1> DEFINE p == Parse(c)
           wrong == {i \in 2 .. n - 1 : check_data_desc(c.desc[i], c.type) # "none"}
           first == CHOOSE i \in wrong : \A j \in wrong : i <= j
           status == check_status_desc(c.desc[n])
<1>1. /\ c.desc \in [1 .. n -> Desc] /\ Len(c.desc) = n
      /\ c.type \in RequestTypes /\ c.sector \in {0, 1}
  BY DEF Chain
<1>2. \A i \in 1 .. n : /\ c.desc[i].write_only \in BOOLEAN /\ c.desc[i].mapped \in BOOLEAN
                        /\ c.desc[i].len \in {0, 1}
  BY <1>1 DEF Desc
<1>3. \A e : Bad(e).error = e
  BY DEF Bad
<1>4. \A d, t : check_data_desc(d, t) = "none" <=> (d.write_only \/ t # "In")
  BY DEF check_data_desc
<1>5. \A d : check_status_desc(d) = "none" <=> (d.write_only /\ ~(d.len < 1) /\ d.mapped)
  BY DEF check_status_desc
<1>6. WellFormed(c) <=>
        /\ n >= 2 /\ ~c.desc[1].write_only /\ c.desc[1].mapped
        /\ status = "none"
        /\ wrong = {}
        /\ c.type = "Flush" => c.sector = 0
  <2>1. status = "none" <=> c.desc[n].write_only /\ ~(c.desc[n].len < 1) /\ c.desc[n].mapped
    BY <1>5
  <2>2. wrong = {} <=> \A i \in 2 .. n - 1 : c.desc[i].write_only \/ c.type # "In"
    BY <1>4
  <2>3. ASSUME n >= 2
        PROVE  status = "none" <=> c.desc[n].write_only /\ c.desc[n].len >= 1 /\ c.desc[n].mapped
    <3>1. c.desc[n].len \in {0, 1}
      BY <1>2, <2>3
    <3> QED BY <2>1, <3>1
  <2>4. ASSUME n >= 2, status = "none"
        PROVE  wrong = {} <=> (c.type = "In" => \A i \in 2 .. n : c.desc[i].write_only)
    <3>1. c.desc[n].write_only
      BY <2>3, <2>4
    <3>2. \A i \in 2 .. n : i \in 2 .. n - 1 \/ i = n
      OBVIOUS
    <3>3. 2 .. n - 1 \subseteq 2 .. n
      OBVIOUS
    <3> QED BY <2>2, <3>1, <3>2, <3>3
  <2> HIDE DEF wrong, status
  <2> QED BY <1>1, <2>3, <2>4 DEF WellFormed
<1>7. wrong # {} => check_data_desc(c.desc[first], c.type) # "none"
  <2>1. ASSUME wrong # {} PROVE \E i \in wrong : \A j \in wrong : i <= j
    <3>1. wrong \subseteq Nat
      OBVIOUS
    <3> QED BY <2>1, <3>1, LeastExists
  <2>2. wrong # {} => first \in wrong
    BY <2>1
  <2> QED BY <2>2
<1>8. Walk(c, n) = IF wrong # {} THEN Bad(check_data_desc(c.desc[first], c.type))
                     ELSE IF status # "none" THEN Bad(status)
                     ELSE Good(c, [j \in 1 .. n - 2 |-> c.desc[j + 1].len], n)
  BY DEF Walk
<1> DEFINE good == Good(c, [j \in 1 .. n - 2 |-> c.desc[j + 1].len], n)
<1>9. /\ good.error = "none" /\ good.status = n /\ good.type = c.type
      /\ good.data = [j \in 1 .. n - 2 |-> c.desc[j + 1].len]
  BY DEF Good
<1>10. \/ p.error = "none" /\ WellFormed(c) /\ p = good
       \/ p.error # "none" /\ ~WellFormed(c)
  <2> HIDE DEF wrong, status, first, good
  <2>1. CASE n = 0 \/ c.desc[1].write_only \/ ~c.desc[1].mapped
             \/ (c.type = "Flush" /\ c.sector # 0) \/ n = 1
    <3>1. \E e : p = Bad(e) /\ e # "none"
      BY <1>1, <2>1 DEF Parse
    <3>2. ~WellFormed(c)
      BY <1>6, <2>1
    <3> QED BY <1>3, <3>1, <3>2
  <2>2. CASE ~(n = 0 \/ c.desc[1].write_only \/ ~c.desc[1].mapped
               \/ (c.type = "Flush" /\ c.sector # 0) \/ n = 1)
    <3>1. p = Walk(c, n) /\ n >= 2
      BY <1>1, <2>2 DEF Parse
    <3>2. CASE wrong # {}
      BY <1>3, <1>6, <1>7, <1>8, <3>1, <3>2
    <3>3. CASE wrong = {} /\ status # "none"
      BY <1>3, <1>6, <1>8, <3>1, <3>3
    <3>4. CASE wrong = {} /\ status = "none"
      BY <1>6, <1>8, <1>9, <2>2, <3>1, <3>4 DEF good
    <3> QED BY <3>2, <3>3, <3>4
  <2> QED BY <2>1, <2>2
<1> HIDE DEF good, p
<1>11. /\ p.error = "none" <=> WellFormed(c)
       /\ p.error = "none" =>
            /\ p.data = [j \in 1 .. Len(c.desc) - 2 |-> c.desc[j + 1].len]
            /\ p.status = Len(c.desc) /\ p.type = c.type
  BY <1>1, <1>9, <1>10
<1> QED BY <1>11 DEF p

-----------------------------------------------------------------------------
(* The theorems.                                                           *)

\* The queue's invariant holds in every reachable state of the thread, the
\* guest and the kernel.
THEOREM VhostInvariant == QueueAssumption => (VSpec => []VInv)
<1> SUFFICES ASSUME QueueAssumption PROVE VSpec => []VInv
  OBVIOUS
<1>1. VInit => VInv
  BY InitKeeps
<1>2. VInv /\ [VNext]_vVars => VInv'
  BY NextKeeps
<1> QED BY <1>1, <1>2, PTL DEF VSpec

\* UbiBlkBackendThread is an owner as bdev_uring.rs asks for: every behaviour of
\* the queue is one of UringOwner, in which a slot is given to a chain only after
\* the channel has answered for the last one.
THEOREM VhostKeepsRingContract == QueueAssumption => (VSpec => KeepsRingContract)
<1> SUFFICES ASSUME QueueAssumption PROVE VSpec => KeepsRingContract
  OBVIOUS
<1>1. VInit => Owner!UInit
  BY InitKeeps
<1>2. VInv /\ [VNext]_vVars => [Owner!UNext]_(Owner!uVars)
  BY NextKeeps
<1> QED BY <1>1, <1>2, VhostInvariant, PTL DEF VSpec, KeepsRingContract, Owner!USpec

\* get_request_slot, poll_io and put_request_slot lose no chain, return none
\* twice and give no slot away while the kernel has its buffer, also when the
\* submission queue is full or a submit fails or falls short.
THEOREM VhostChainsConserved ==
    QueueAssumption => (VSpec => [](ChainsConserved /\ SlotsHeldByKernel))
<1> SUFFICES ASSUME QueueAssumption PROVE VSpec => [](ChainsConserved /\ SlotsHeldByKernel)
  OBVIOUS
<1>1. VInv => ChainsConserved /\ SlotsHeldByKernel
  BY InvChains
<1> QED BY <1>1, VhostInvariant, PTL

\* The I/O tracker shows the slots in use with the kind of their I/O.
THEOREM VhostTracked == QueueAssumption => (VSpec => []TrackerMatchesSlots)
<1> SUFFICES ASSUME QueueAssumption PROVE VSpec => []TrackerMatchesSlots
  OBVIOUS
<1>1. VInv => TrackerMatchesSlots
  BY DEF VInv
<1> QED BY <1>1, VhostInvariant, PTL

\* handle_event goes to sleep only when every chain that was made available has
\* been returned or a kick is there to wake it, and with the guest told of every
\* completed request it wants to be told of: with and without EVENT_IDX.
THEOREM VhostWakeups == QueueAssumption => (VSpec => [](NoLostKick /\ NoLostInterrupt))
<1> SUFFICES ASSUME QueueAssumption PROVE VSpec => [](NoLostKick /\ NoLostInterrupt)
  OBVIOUS
<1>1. VInv => NoLostKick /\ NoLostInterrupt
  BY InvWakeups
<1> QED BY <1>1, VhostInvariant, PTL

\* The channel's own guarantee, carried over to the queue: a chain in a slot has
\* exactly one entry or answer in the channel, and a free slot has none.
THEOREM VhostAnsweredOnce == QueueAssumption => (VSpec => []R!OneAnswerEach)
<1> SUFFICES ASSUME QueueAssumption PROVE VSpec => []R!OneAnswerEach
  OBVIOUS
<1>1. VInv => R!OneAnswerEach
  BY SameInv, R!InvOneAnswer DEF VInv
<1> QED BY <1>1, VhostInvariant, PTL

=============================================================================
