---------------------------- MODULE UblkQueueProofs ----------------------------
(***************************************************************************)
(* A ublk queue, for every number of tags and requests and every size of   *)
(* the ring: whatever submits fail or fall short, no command is completed  *)
(* twice and no tag without one; and as long as no submit fails the queue  *)
(* keeps the contract of the io_uring channel, so that what                *)
(* UringOwnerProofs shows of the channel holds under it.                   *)
(***************************************************************************)
EXTENDS UblkQueue, TLAPS

\* What a request asks for is one of the operations, and a free tag is no request.
UblkAssumption ==
    /\ NoRequest \notin Requests
    /\ QueueSize \in Nat
    /\ OpOf \in [Requests -> UblkOp]

\* The ring's theorems, about the requests in flight.
R == INSTANCE UringOwnerProofs WITH
    slot <- inflight_requests, issued <- Issued, answered <- Completed, GivesUp <- FALSE

-----------------------------------------------------------------------------
(* The two instances of the owner, and the channel itself, say the same.   *)

LEMMA SameInv == Owner!UInv <=> R!UInv
BY DEF Owner!UInv, Owner!UTypeOK, Owner!HeldOnce, Owner!Exact, Owner!KernelExact,
       Owner!SlotsExact, Owner!Balanced, Owner!InSeq, Owner!InKernel, Owner!Entry,
       Owner!AnswerRecord, Owner!IsFiniteSet, Owner!Cardinality,
       R!UInv, R!UTypeOK, R!HeldOnce, R!Exact, R!KernelExact,
       R!SlotsExact, R!Balanced, R!InSeq, R!InKernel, R!Entry,
       R!AnswerRecord, R!IsFiniteSet, R!Cardinality

LEMMA SameInit == Owner!UInit <=> R!UInit
BY DEF Owner!UInit, Owner!RingInit, R!UInit, R!RingInit

LEMMA SameVars == UNCHANGED Owner!uVars <=> UNCHANGED R!uVars
BY DEF Owner!uVars, Owner!ringVars, Owner!ownerVars, R!uVars, R!ringVars, R!ownerVars

LEMMA SameAdd ==
    ASSUME NEW i, NEW r
    PROVE  Owner!OwnerAdd(i, r) <=> R!OwnerAdd(i, r)
BY DEF Owner!OwnerAdd, Owner!RingAdd, Owner!RingAddFlush, Owner!Answer,
       R!OwnerAdd, R!RingAdd, R!RingAddFlush, R!Answer

LEMMA SameAnswers ==
    ASSUME NEW r
    PROVE  Owner!OwnerAnswers(r) <=> R!OwnerAnswers(r)
BY DEF Owner!OwnerAnswers, Owner!ringVars, R!OwnerAnswers, R!ringVars

LEMMA SameSubmit ==
    ASSUME NEW ok
    PROVE  Owner!OwnerSubmit(ok) <=> R!OwnerSubmit(ok)
BY DEF Owner!OwnerSubmit, Owner!RingSubmit, Owner!Take, Owner!ToSet,
       R!OwnerSubmit, R!RingSubmit, R!Take, R!ToSet

LEMMA SamePoll == Owner!OwnerPoll <=> R!OwnerPoll
BY DEF Owner!OwnerPoll, Owner!RingPoll, Owner!Polled, Owner!ToSet,
       R!OwnerPoll, R!RingPoll, R!Polled, R!ToSet

LEMMA SameKernel ==
    ASSUME NEW e, NEW ok
    PROVE  Owner!KernelAnswers(e, ok) /\ UNCHANGED Owner!ownerVars
             <=> R!KernelAnswers(e, ok) /\ UNCHANGED R!ownerVars
BY DEF Owner!KernelAnswers, Owner!Answer, Owner!ownerVars,
       R!KernelAnswers, R!Answer, R!ownerVars

LEMMA SameNext == [Owner!UNext]_(Owner!uVars) <=> [R!UNext]_(R!uVars)
<1>1. Owner!UNext <=> R!UNext
  BY SameAdd, SameAnswers, SameSubmit, SamePoll, SameKernel DEF Owner!UNext, R!UNext
<1> QED BY <1>1, SameVars

-----------------------------------------------------------------------------
(* Sequences of tags.                                                      *)

\* Every member of s is one of u.
Within(s, u) == \A k \in DOMAIN s : \E j \in DOMAIN u : s[k] = u[j]

LEMMA TailTags ==
    ASSUME NEW s \in Seq(Ids), s # <<>>, Once(s)
    PROVE  /\ Tail(s) \in Seq(Ids) /\ Once(Tail(s)) /\ Within(Tail(s), s)
           /\ Head(s) = s[1] /\ 1 \in DOMAIN s
           /\ \A k \in DOMAIN Tail(s) : Tail(s)[k] # Head(s)
<1> DEFINE t == Tail(s)
<1>1. /\ Len(s) \in Nat /\ Len(s) > 0 /\ Head(s) = s[1] /\ DOMAIN t = 1 .. Len(s) - 1
      /\ t \in Seq(Ids) /\ DOMAIN s = 1 .. Len(s)
      /\ \A k \in 1 .. Len(s) - 1 : t[k] = s[k + 1]
  OBVIOUS
<1> HIDE DEF t
<1>2. \A k \in DOMAIN t : k + 1 \in DOMAIN s /\ t[k] = s[k + 1] /\ k \in Nat /\ k + 1 # 1
  BY <1>1
<1>3. 1 \in DOMAIN s
  BY <1>1
<1>4. Once(t)
  BY <1>2 DEF Once
<1>5. Within(t, s)
  BY <1>2 DEF Within
<1>6. \A k \in DOMAIN t : t[k] # Head(s)
  BY <1>1, <1>2, <1>3 DEF Once
<1> QED BY <1>1, <1>3, <1>4, <1>5, <1>6 DEF t

LEMMA AppendTag ==
    ASSUME NEW s \in Seq(Ids), NEW t \in Ids, Once(s), \A k \in DOMAIN s : s[k] # t
    PROVE  /\ Append(s, t) \in Seq(Ids) /\ Once(Append(s, t))
           /\ \A k \in DOMAIN Append(s, t) :
                 Append(s, t)[k] = t \/ \E j \in DOMAIN s : Append(s, t)[k] = s[j]
<1> DEFINE u == Append(s, t)
<1>1. /\ u \in Seq(Ids) /\ Len(s) \in Nat /\ DOMAIN u = 1 .. Len(s) + 1
      /\ DOMAIN s = 1 .. Len(s)
      /\ \A k \in 1 .. Len(s) : u[k] = s[k]
      /\ u[Len(s) + 1] = t
  OBVIOUS
<1> HIDE DEF u
<1>2. \A k \in DOMAIN u : (k \in DOMAIN s /\ u[k] = s[k]) \/ (k = Len(s) + 1 /\ u[k] = t)
  BY <1>1
<1>3. Once(u)
  BY <1>2 DEF Once
<1> QED BY <1>1, <1>2, <1>3 DEF u

LEMMA SplitTags ==
    ASSUME NEW s \in Seq(Ids), NEW n \in 1 .. Len(s), Once(s)
    PROVE  /\ SubSeq(s, 1, n) \in Seq(Ids) /\ SubSeq(s, n + 1, Len(s)) \in Seq(Ids)
           /\ Once(SubSeq(s, 1, n)) /\ Once(SubSeq(s, n + 1, Len(s)))
           /\ Within(SubSeq(s, 1, n), s) /\ Within(SubSeq(s, n + 1, Len(s)), s)
           /\ Apart(SubSeq(s, n + 1, Len(s)), SubSeq(s, 1, n))
<1> DEFINE u == SubSeq(s, 1, n)
           v == SubSeq(s, n + 1, Len(s))
<1>1. /\ Len(s) \in Nat /\ DOMAIN s = 1 .. Len(s) /\ n \in Nat /\ n <= Len(s)
      /\ u \in Seq(Ids) /\ v \in Seq(Ids)
      /\ DOMAIN u = 1 .. n /\ DOMAIN v = 1 .. Len(s) - n
      /\ \A k \in 1 .. n : u[k] = s[k]
      /\ \A k \in 1 .. Len(s) - n : v[k] = s[k + n]
  OBVIOUS
<1> HIDE DEF u, v
<1>2. \A k \in DOMAIN u : k \in DOMAIN s /\ u[k] = s[k] /\ k <= n /\ k \in Nat
  BY <1>1
<1>3. \A k \in DOMAIN v : k + n \in DOMAIN s /\ v[k] = s[k + n] /\ k + n > n /\ k \in Nat
  BY <1>1
<1>4. Once(u) /\ Once(v)
  BY <1>1, <1>2, <1>3 DEF Once
<1>5. Within(u, s) /\ Within(v, s)
  BY <1>2, <1>3 DEF Within
<1>6. Apart(v, u)
  BY <1>1, <1>2, <1>3 DEF Once, Apart
<1> QED BY <1>1, <1>4, <1>5, <1>6 DEF u, v

-----------------------------------------------------------------------------
(* Completion.                                                             *)

\* Tags that have a command outstanding are completed: once each.
LEMMA Completes ==
    ASSUME UblkAssumption, QInv, NEW result, DOMAIN result \subseteq Ids,
           \A t \in DOMAIN result : tag_req[t] \in Requests /\ result[t] \in Results,
           Complete(result)
    PROVE  /\ tag_req' \in [Ids -> Requests \cup {NoRequest}]
           /\ \A t \in Ids :
                 tag_req'[t] = IF t \in DOMAIN result THEN NoRequest ELSE tag_req[t]
           /\ fetched' = fetched
           /\ done' \in [Requests \cup {NoRequest} -> Seq(Results)]
           /\ \A r \in Requests : Len(done'[r]) <= 1
           /\ done'[NoRequest] = <<>>
           /\ OutstandingOnce'
           /\ Completed' = Completed \cup {tag_req[t] : t \in DOMAIN result}
<1> DEFINE tagged(r) == {t \in DOMAIN result : tag_req[t] = r}
<1>1. QTypeOK /\ CompletedOnce /\ OutstandingOnce
  BY DEF QInv
<1>2. /\ tag_req' = [t \in Ids |-> IF t \in DOMAIN result THEN NoRequest ELSE tag_req[t]]
      /\ fetched' = fetched
      /\ tag_req \in [Ids -> Requests \cup {NoRequest}]
      /\ done \in [Requests \cup {NoRequest} -> Seq(Results)]
  BY <1>1 DEF Complete, QTypeOK
<1>3. \A t \in Ids : tag_req'[t] = IF t \in DOMAIN result THEN NoRequest ELSE tag_req[t]
  BY <1>2
<1>4. /\ DOMAIN done' = Requests \cup {NoRequest}
      /\ \A r \in Requests \cup {NoRequest} :
            done'[r] = IF tagged(r) = {} THEN done[r]
                       ELSE Append(done[r], result[CHOOSE t \in tagged(r) : TRUE])
      /\ done' = [r \in Requests \cup {NoRequest} |-> done'[r]]
  BY <1>2 DEF Complete
<1>5. tagged(NoRequest) = {}
  BY DEF UblkAssumption
<1>6. ASSUME NEW r \in Requests, tagged(r) # {}
      PROVE  done[r] = <<>> /\ Len(done'[r]) = 1 /\ done'[r] \in Seq(Results)
  <2>1. PICK t \in DOMAIN result : tag_req[t] = r
    BY <1>6
  <2>2. done[r] = <<>>
    BY <1>1, <2>1 DEF OutstandingOnce, UblkAssumption
  <2>3. result[CHOOSE u \in tagged(r) : TRUE] \in Results
    BY <1>6
  <2>4. PICK x \in Results : done'[r] = Append(<<>>, x)
    BY <1>4, <1>6, <2>2, <2>3
  <2> QED BY <2>2, <2>4
<1> HIDE DEF tagged
<1>7. ASSUME NEW r \in Requests \cup {NoRequest}, tagged(r) = {} PROVE done'[r] = done[r]
  BY <1>4, <1>7
<1>8. done'[NoRequest] = <<>>
  BY <1>1, <1>5, <1>7 DEF CompletedOnce
<1>9. \A r \in Requests : Len(done'[r]) <= 1
  <2> SUFFICES ASSUME NEW r \in Requests PROVE Len(done'[r]) <= 1
    OBVIOUS
  <2>1. CASE tagged(r) = {}
    BY <1>1, <1>7, <2>1 DEF CompletedOnce
  <2>2. CASE tagged(r) # {}
    <3>1. Len(done'[r]) = 1
      BY <1>6, <2>2
    <3> QED BY <3>1
  <2> QED BY <2>1, <2>2
<1>10. done' \in [Requests \cup {NoRequest} -> Seq(Results)]
  <2>1. ASSUME NEW r \in Requests \cup {NoRequest} PROVE done'[r] \in Seq(Results)
    <3>1. CASE tagged(r) = {}
      BY <1>2, <1>7, <3>1
    <3>2. CASE tagged(r) # {}
      BY <1>5, <1>6, <3>2
    <3> QED BY <3>1, <3>2
  <2> QED BY <1>4, <2>1
<1>11. Completed' = Completed \cup {tag_req[t] : t \in DOMAIN result}
  <2>1. ASSUME NEW r \in Requests
        PROVE  r \in Completed' <=> r \in Completed \/ \E t \in DOMAIN result : tag_req[t] = r
    <3>1. CASE tagged(r) = {}
      BY <1>7, <3>1 DEF Completed, tagged
    <3>2. CASE tagged(r) # {}
      <4>1. done'[r] # <<>>
        BY <1>6, <3>2
      <4> QED BY <3>2, <4>1 DEF Completed, tagged
    <3> QED BY <3>1, <3>2
  <2> QED BY <2>1 DEF Completed
<1>12. OutstandingOnce'
  <2>1. ASSUME NEW t \in Ids, NEW u \in Ids, tag_req'[t] = tag_req'[u], tag_req'[t] # NoRequest
        PROVE  t = u
    BY <1>1, <1>3, <2>1 DEF OutstandingOnce
  <2>2. ASSUME NEW t \in Ids, tag_req'[t] # NoRequest PROVE done'[tag_req'[t]] = <<>>
    <3>1. t \notin DOMAIN result /\ tag_req'[t] = tag_req[t] /\ tag_req[t] \in Requests
      BY <1>2, <1>3, <2>2
    <3>2. tagged(tag_req[t]) = {}
      BY <1>1, <3>1 DEF OutstandingOnce, UblkAssumption, tagged
    <3>3. done[tag_req[t]] = <<>>
      BY <1>1, <3>1 DEF OutstandingOnce, UblkAssumption
    <3> QED BY <1>7, <3>1, <3>2, <3>3
  <2> QED BY <2>1, <2>2 DEF OutstandingOnce
<1>13. tag_req' \in [Ids -> Requests \cup {NoRequest}]
  BY <1>2
<1> QED BY <1>2, <1>3, <1>8, <1>9, <1>10, <1>11, <1>12, <1>13

-----------------------------------------------------------------------------
(* The steps keep the invariant, whatever submits fail.                    *)

LEMMA IssuesStep ==
    ASSUME UblkAssumption, QInv, NEW t \in Ids, NEW r \in Requests, DriverIssues(t, r)
    PROVE  QInv'
<1>1. QTypeOK /\ CompletedOnce /\ TagsOnce /\ OutstandingOnce
  BY DEF QInv
<1>2. /\ tag_req[t] = NoRequest /\ r \notin Completed /\ \A u \in Ids : tag_req[u] # r
      /\ tag_req' = [tag_req EXCEPT ![t] = r]
      /\ fetched' = Append(fetched, t)
      /\ UNCHANGED <<batch, pending_requests, inflight_requests, tracker, done, step, queued>>
  BY DEF DriverIssues
<1>3. /\ tag_req \in [Ids -> Requests \cup {NoRequest}]
      /\ fetched \in Seq(Ids) /\ batch \in Seq(Ids) /\ pending_requests \in Seq(Ids)
      /\ inflight_requests \in [Ids -> Requests \cup {NoRequest}]
  BY <1>1 DEF QTypeOK
<1>4. /\ \A k \in DOMAIN fetched : fetched[k] \in Ids /\ Waits(fetched[k]) /\ fetched[k] # t
      /\ \A k \in DOMAIN batch : batch[k] \in Ids /\ Waits(batch[k]) /\ batch[k] # t
      /\ \A k \in DOMAIN pending_requests :
            /\ pending_requests[k] \in Ids /\ Waits(pending_requests[k])
            /\ pending_requests[k] # t
  BY <1>1, <1>2, <1>3 DEF TagsOnce, Waits, UblkAssumption
<1>5. /\ fetched' \in Seq(Ids) /\ Once(fetched')
      /\ \A k \in DOMAIN fetched' : fetched'[k] = t \/ \E j \in DOMAIN fetched : fetched'[k] = fetched[j]
  BY <1>1, <1>2, <1>3, <1>4, AppendTag DEF TagsOnce
<1>6. tag_req'[t] = r /\ \A u \in Ids : u # t => tag_req'[u] = tag_req[u]
  BY <1>2, <1>3
<1>7. inflight_requests[t] = NoRequest
  BY <1>1, <1>2 DEF CompletedOnce, Inflight
<1>8. QTypeOK'
  <2>1. tag_req' \in [Ids -> Requests \cup {NoRequest}]
    BY <1>2, <1>3
  <2> QED BY <1>1, <1>2, <1>5, <2>1 DEF QTypeOK
<1>9. CompletedOnce'
  BY <1>1, <1>2, <1>3, <1>6, <1>7 DEF CompletedOnce, Inflight
<1>10. OutstandingOnce'
  <2>1. done[r] = <<>>
    BY <1>2 DEF Completed
  <2> QED BY <1>1, <1>2, <1>6, <2>1 DEF OutstandingOnce
<1>11. TagsOnce'
  <2>1. Waits(t)'
    BY <1>2, <1>6, <1>7 DEF Waits
  <2>2. /\ \A k \in DOMAIN fetched' : Waits(fetched[k])'
        /\ \A k \in DOMAIN batch' : Waits(batch[k])'
        /\ \A k \in DOMAIN pending_requests' : Waits(pending_requests[k])'
    BY <1>2, <1>4, <1>5, <1>6, <2>1 DEF Waits
  <2>3. Apart(fetched', batch) /\ Apart(fetched', pending_requests)
    BY <1>1, <1>4, <1>5 DEF TagsOnce, Apart
  <2> QED BY <1>1, <1>2, <1>5, <2>2, <2>3 DEF TagsOnce
<1> QED BY <1>8, <1>9, <1>10, <1>11 DEF QInv

LEMMA DeliverStep ==
    ASSUME UblkAssumption, QInv, NEW n \in 1 .. Len(fetched), DeliverBatch(n)
    PROVE  QInv'
<1>1. QTypeOK /\ CompletedOnce /\ TagsOnce /\ OutstandingOnce
  BY DEF QInv
<1>2. /\ batch' = SubSeq(fetched, 1, n) /\ fetched' = SubSeq(fetched, n + 1, Len(fetched))
      /\ UNCHANGED <<tag_req, pending_requests, inflight_requests, tracker, done, step, queued>>
  BY DEF DeliverBatch
<1>3. fetched \in Seq(Ids) /\ Once(fetched)
  BY <1>1 DEF QTypeOK, TagsOnce
<1>4. /\ batch' \in Seq(Ids) /\ fetched' \in Seq(Ids) /\ Once(batch') /\ Once(fetched')
      /\ Within(batch', fetched) /\ Within(fetched', fetched) /\ Apart(fetched', batch')
  BY <1>2, <1>3, SplitTags
<1>5. QTypeOK' /\ CompletedOnce' /\ OutstandingOnce'
  BY <1>1, <1>2, <1>4 DEF QTypeOK, CompletedOnce, OutstandingOnce, Inflight
<1>6. Apart(fetched', pending_requests) /\ Apart(batch', pending_requests)
  BY <1>1, <1>4 DEF TagsOnce, Apart, Within
<1>7. /\ \A k \in DOMAIN fetched' : Waits(fetched'[k])
      /\ \A k \in DOMAIN batch' : Waits(batch'[k])
      /\ \A k \in DOMAIN pending_requests : Waits(pending_requests[k])
  BY <1>1, <1>4 DEF TagsOnce, Within
<1>8. TagsOnce'
  <2>1. /\ \A k \in DOMAIN fetched' : Waits(fetched[k])'
        /\ \A k \in DOMAIN batch' : Waits(batch[k])'
        /\ \A k \in DOMAIN pending_requests' : Waits(pending_requests[k])'
    BY <1>2, <1>7 DEF Waits
  <2> QED BY <1>1, <1>2, <1>4, <1>6, <2>1 DEF TagsOnce
<1> QED BY <1>5, <1>8 DEF QInv

\* The first of a sequence of waiting tags is completed or goes on.
LEMMA HeadWaits ==
    ASSUME QInv
    PROVE  /\ batch # <<>> =>
                /\ Head(batch) \in Ids /\ Waits(Head(batch))
                /\ Tail(batch) \in Seq(Ids) /\ Once(Tail(batch)) /\ Within(Tail(batch), batch)
                /\ \A k \in DOMAIN Tail(batch) : Tail(batch)[k] # Head(batch)
                /\ \A k \in DOMAIN fetched : fetched[k] # Head(batch)
                /\ \A k \in DOMAIN pending_requests : pending_requests[k] # Head(batch)
           /\ pending_requests # <<>> =>
                /\ Head(pending_requests) \in Ids /\ Waits(Head(pending_requests))
                /\ Tail(pending_requests) \in Seq(Ids) /\ Once(Tail(pending_requests))
                /\ Within(Tail(pending_requests), pending_requests)
                /\ \A k \in DOMAIN Tail(pending_requests) :
                      Tail(pending_requests)[k] # Head(pending_requests)
                /\ \A k \in DOMAIN fetched : fetched[k] # Head(pending_requests)
                /\ \A k \in DOMAIN batch : batch[k] # Head(pending_requests)
<1>1. TagsOnce /\ batch \in Seq(Ids) /\ pending_requests \in Seq(Ids)
  BY DEF QInv, QTypeOK
<1>2. Once(batch) /\ Once(pending_requests)
  BY <1>1 DEF TagsOnce
<1>3. ASSUME batch # <<>>
      PROVE  /\ Head(batch) \in Ids /\ Waits(Head(batch))
             /\ Tail(batch) \in Seq(Ids) /\ Once(Tail(batch)) /\ Within(Tail(batch), batch)
             /\ \A k \in DOMAIN Tail(batch) : Tail(batch)[k] # Head(batch)
             /\ \A k \in DOMAIN fetched : fetched[k] # Head(batch)
             /\ \A k \in DOMAIN pending_requests : pending_requests[k] # Head(batch)
  <2>1. /\ Tail(batch) \in Seq(Ids) /\ Once(Tail(batch)) /\ Within(Tail(batch), batch)
        /\ Head(batch) = batch[1] /\ 1 \in DOMAIN batch
        /\ \A k \in DOMAIN Tail(batch) : Tail(batch)[k] # Head(batch)
    BY <1>1, <1>2, <1>3, TailTags
  <2>2. Head(batch) \in Ids
    BY <1>1, <2>1
  <2> QED BY <1>1, <2>1, <2>2 DEF TagsOnce, Apart
<1>4. ASSUME pending_requests # <<>>
      PROVE  /\ Head(pending_requests) \in Ids /\ Waits(Head(pending_requests))
             /\ Tail(pending_requests) \in Seq(Ids) /\ Once(Tail(pending_requests))
             /\ Within(Tail(pending_requests), pending_requests)
             /\ \A k \in DOMAIN Tail(pending_requests) :
                   Tail(pending_requests)[k] # Head(pending_requests)
             /\ \A k \in DOMAIN fetched : fetched[k] # Head(pending_requests)
             /\ \A k \in DOMAIN batch : batch[k] # Head(pending_requests)
  <2>1. /\ Tail(pending_requests) \in Seq(Ids) /\ Once(Tail(pending_requests))
        /\ Within(Tail(pending_requests), pending_requests)
        /\ Head(pending_requests) = pending_requests[1] /\ 1 \in DOMAIN pending_requests
        /\ \A k \in DOMAIN Tail(pending_requests) :
              Tail(pending_requests)[k] # Head(pending_requests)
    BY <1>1, <1>2, <1>4, TailTags
  <2>2. Head(pending_requests) \in Ids
    BY <1>1, <2>1
  <2> QED BY <1>1, <2>1, <2>2 DEF TagsOnce, Apart
<1> QED BY <1>3, <1>4

\* A command is completed without the channel.
LEMMA CompletesItself ==
    ASSUME UblkAssumption, QInv, NEW t \in Ids, Waits(t), Complete([u \in {t} |-> "invalid"]),
           UNCHANGED <<ringVars, inflight_requests, tracker>>
    PROVE  /\ tag_req' \in [Ids -> Requests \cup {NoRequest}]
           /\ \A u \in Ids : u # t => tag_req'[u] = tag_req[u]
           /\ fetched' = fetched
           /\ done' \in [Requests \cup {NoRequest} -> Seq(Results)]
           /\ CompletedOnce' /\ OutstandingOnce'
           /\ R!OwnerAnswers(tag_req[t]) /\ tag_req[t] \in Requests
<1> DEFINE result == [u \in {t} |-> "invalid"]
<1>1. /\ DOMAIN result = {t} /\ DOMAIN result \subseteq Ids /\ Complete(result)
      /\ \A u \in DOMAIN result : tag_req[u] \in Requests /\ result[u] \in Results
  BY DEF Waits, Results
<1> HIDE DEF result
<1>2. /\ tag_req' \in [Ids -> Requests \cup {NoRequest}]
      /\ \A u \in Ids : tag_req'[u] = IF u \in DOMAIN result THEN NoRequest ELSE tag_req[u]
      /\ fetched' = fetched
      /\ done' \in [Requests \cup {NoRequest} -> Seq(Results)]
      /\ \A r \in Requests : Len(done'[r]) <= 1
      /\ done'[NoRequest] = <<>>
      /\ OutstandingOnce'
      /\ Completed' = Completed \cup {tag_req[u] : u \in DOMAIN result}
  BY <1>1, Completes
<1>3. /\ \A u \in Ids : u # t => tag_req'[u] = tag_req[u]
      /\ Completed' = Completed \cup {tag_req[t]}
  BY <1>1, <1>2
<1>4. \A u \in Inflight : u # t /\ inflight_requests[u] = tag_req[u] /\ u \in Ids
                          /\ inflight_requests[u] # NoRequest
  BY DEF QInv, CompletedOnce, Inflight, Waits
<1>5. Inflight' = Inflight
  BY DEF Inflight
<1>6. CompletedOnce'
  BY <1>2, <1>3, <1>4, <1>5 DEF CompletedOnce
<1>7. tag_req[t] \in Requests /\ tag_req[t] # NoRequest
  BY DEF Waits, UblkAssumption
<1>8. tag_req[t] \notin Issued
  <2>1. tag_req[t] \notin Completed
    BY <1>7 DEF QInv, OutstandingOnce, Completed
  <2>2. \A u \in Inflight : inflight_requests[u] # tag_req[t]
    BY <1>4, <1>7 DEF QInv, OutstandingOnce
  <2> QED BY <2>1, <2>2 DEF Issued
<1>9. Issued' = Issued \cup {tag_req[t]}
  BY <1>3, <1>5 DEF Issued
<1>10. R!OwnerAnswers(tag_req[t])
  BY <1>3, <1>8, <1>9 DEF R!OwnerAnswers, R!ringVars, ringVars
<1> QED BY <1>2, <1>3, <1>6, <1>7, <1>10

LEMMA HandleStep ==
    ASSUME UblkAssumption, QInv, NEW t \in Ids, Handle(t)
    PROVE  QInv' /\ [R!UNext]_(R!uVars)
<1>1. QTypeOK /\ CompletedOnce /\ TagsOnce /\ OutstandingOnce
  BY DEF QInv
<1>2. /\ batch # <<>> /\ t = Head(batch) /\ batch' = Tail(batch)
      /\ UNCHANGED <<ringVars, inflight_requests, tracker>>
  BY DEF Handle
<1>3. /\ Waits(t) /\ batch' \in Seq(Ids) /\ Once(batch') /\ Within(batch', batch)
      /\ \A k \in DOMAIN batch' : batch'[k] # t
      /\ \A k \in DOMAIN fetched : fetched[k] # t
      /\ \A k \in DOMAIN pending_requests : pending_requests[k] # t
  BY <1>2, HeadWaits
<1>4. /\ fetched \in Seq(Ids) /\ pending_requests \in Seq(Ids)
      /\ \A k \in DOMAIN fetched : fetched[k] \in Ids /\ Waits(fetched[k])
      /\ \A k \in DOMAIN batch' : batch'[k] \in Ids /\ Waits(batch'[k])
      /\ \A k \in DOMAIN pending_requests :
            pending_requests[k] \in Ids /\ Waits(pending_requests[k])
  BY <1>1, <1>3 DEF QTypeOK, TagsOnce, Within
<1>5. Apart(fetched, batch') /\ Apart(batch', pending_requests)
  BY <1>1, <1>3 DEF TagsOnce, Apart, Within
<1>6. CASE Complete([u \in {t} |-> "invalid"]) /\ UNCHANGED <<pending_requests, step, queued>>
  <2>1. /\ tag_req' \in [Ids -> Requests \cup {NoRequest}]
        /\ \A u \in Ids : u # t => tag_req'[u] = tag_req[u]
        /\ fetched' = fetched
        /\ done' \in [Requests \cup {NoRequest} -> Seq(Results)]
        /\ CompletedOnce' /\ OutstandingOnce'
        /\ R!OwnerAnswers(tag_req[t]) /\ tag_req[t] \in Requests
    BY <1>2, <1>3, <1>6, CompletesItself
  <2>2. QTypeOK'
    BY <1>1, <1>2, <1>3, <1>6, <2>1 DEF QTypeOK
  <2>3. TagsOnce'
    <3>1. /\ \A k \in DOMAIN fetched' : Waits(fetched[k])'
          /\ \A k \in DOMAIN batch' : Waits(batch[k])'
          /\ \A k \in DOMAIN pending_requests' : Waits(pending_requests[k])'
      BY <1>2, <1>3, <1>4, <1>6, <2>1 DEF Waits
    <3> QED BY <1>1, <1>3, <1>5, <1>6, <2>1, <3>1 DEF TagsOnce
  <2> QED BY <2>1, <2>2, <2>3 DEF QInv, R!UNext
<1>7. CASE /\ pending_requests' = Append(pending_requests, t)
           /\ step' \in {"drain", "wait"}
           /\ queued' = FALSE
           /\ UNCHANGED <<done, tag_req, fetched>>
  <2>1. /\ pending_requests' \in Seq(Ids) /\ Once(pending_requests')
        /\ \A k \in DOMAIN pending_requests' :
              pending_requests'[k] = t
              \/ \E j \in DOMAIN pending_requests : pending_requests'[k] = pending_requests[j]
    BY <1>1, <1>3, <1>4, <1>7, AppendTag DEF TagsOnce
  <2>2. QTypeOK'
    <3>1. {fetched', batch', pending_requests'} \subseteq Seq(Ids)
      BY <1>3, <1>4, <1>7, <2>1
    <3> QED BY <1>1, <1>2, <1>7, <3>1 DEF QTypeOK
  <2>3. TagsOnce'
    <3>1. /\ \A k \in DOMAIN fetched' : Waits(fetched[k])'
          /\ \A k \in DOMAIN batch' : Waits(batch[k])'
          /\ \A k \in DOMAIN pending_requests' : Waits(pending_requests[k])'
      BY <1>2, <1>3, <1>4, <1>7, <2>1 DEF Waits
    <3>2. Apart(fetched, pending_requests') /\ Apart(batch', pending_requests')
      BY <1>1, <1>3, <1>5, <2>1 DEF Apart, TagsOnce
    <3> QED BY <1>1, <1>3, <1>5, <1>7, <2>1, <3>1, <3>2 DEF TagsOnce
  <2>4. CompletedOnce' /\ OutstandingOnce'
    BY <1>1, <1>2, <1>7 DEF CompletedOnce, OutstandingOnce, Inflight
  <2>5. UNCHANGED R!uVars
    <3>1. UNCHANGED <<Completed, Issued>>
      BY <1>2, <1>7 DEF Completed, Issued, Inflight
    <3> QED BY <1>2, <3>1 DEF R!uVars, R!ringVars, R!ownerVars, ringVars
  <2> QED BY <2>2, <2>3, <2>4, <2>5 DEF QInv
<1>8. \/ Complete([u \in {t} |-> "invalid"]) /\ UNCHANGED <<pending_requests, step, queued>>
      \/ /\ pending_requests' = Append(pending_requests, t)
         /\ step' \in {"drain", "wait"}
         /\ queued' = FALSE
         /\ UNCHANGED <<done, tag_req, fetched>>
  BY DEF Handle, driverVars
<1> QED BY <1>6, <1>7, <1>8

LEMMA EnqueueStep ==
    ASSUME UblkAssumption, QInv, NEW t \in Ids, Enqueue(t)
    PROVE  QInv' /\ [R!UNext]_(R!uVars) /\ (TrackerShowsInflight => TrackerShowsInflight')
<1> DEFINE r == tag_req[t]
           e == [id |-> t, req |-> r]
<1>1. QTypeOK /\ CompletedOnce /\ TagsOnce /\ OutstandingOnce
  BY DEF QInv
<1>2. /\ pending_requests # <<>> /\ t = Head(pending_requests)
      /\ pending_requests' = Tail(pending_requests)
      /\ UNCHANGED <<batch, step>>
  BY DEF Enqueue
<1>3. /\ Waits(t) /\ pending_requests' \in Seq(Ids) /\ Once(pending_requests')
      /\ Within(pending_requests', pending_requests)
      /\ \A k \in DOMAIN pending_requests' : pending_requests'[k] # t
      /\ \A k \in DOMAIN fetched : fetched[k] # t
      /\ \A k \in DOMAIN batch : batch[k] # t
  BY <1>2, HeadWaits
<1>4. /\ fetched \in Seq(Ids) /\ batch \in Seq(Ids)
      /\ \A k \in DOMAIN fetched : fetched[k] \in Ids /\ Waits(fetched[k])
      /\ \A k \in DOMAIN batch : batch[k] \in Ids /\ Waits(batch[k])
      /\ \A k \in DOMAIN pending_requests' :
            pending_requests'[k] \in Ids /\ Waits(pending_requests'[k])
  BY <1>1, <1>3 DEF QTypeOK, TagsOnce, Within
<1>5. Apart(fetched, pending_requests') /\ Apart(batch, pending_requests')
  BY <1>1, <1>3 DEF TagsOnce, Apart, Within
<1>6. r \in Requests /\ r # NoRequest /\ OpOf[r] \in UblkOp
  BY <1>3 DEF Waits, UblkAssumption
<1>7. CASE /\ Complete([u \in {t} |-> "invalid"])
           /\ UNCHANGED <<ringVars, inflight_requests, tracker, queued>>
  <2>1. /\ tag_req' \in [Ids -> Requests \cup {NoRequest}]
        /\ \A u \in Ids : u # t => tag_req'[u] = tag_req[u]
        /\ fetched' = fetched
        /\ done' \in [Requests \cup {NoRequest} -> Seq(Results)]
        /\ CompletedOnce' /\ OutstandingOnce'
        /\ R!OwnerAnswers(tag_req[t]) /\ tag_req[t] \in Requests
    BY <1>3, <1>7, CompletesItself
  <2>2. QTypeOK'
    BY <1>1, <1>2, <1>3, <1>7, <2>1 DEF QTypeOK
  <2>3. TagsOnce'
    <3>1. /\ \A k \in DOMAIN fetched' : Waits(fetched[k])'
          /\ \A k \in DOMAIN batch' : Waits(batch[k])'
          /\ \A k \in DOMAIN pending_requests' : Waits(pending_requests[k])'
      BY <1>2, <1>3, <1>4, <1>7, <2>1 DEF Waits
    <3> QED BY <1>1, <1>2, <1>3, <1>5, <2>1, <3>1 DEF TagsOnce
  <2>4. TrackerShowsInflight => TrackerShowsInflight'
    BY <1>7 DEF TrackerShowsInflight, Inflight
  <2> QED BY <2>1, <2>2, <2>3, <2>4 DEF QInv, R!UNext
<1>8. CASE /\ RingAddFlush(e) \/ RingAdd(e)
           /\ OpOf[r] # "Unsupported"
           /\ tracker' = [tracker EXCEPT ![t] = OpOf[r]]
           /\ inflight_requests' = [inflight_requests EXCEPT ![t] = r]
           /\ queued' = TRUE
           /\ UNCHANGED <<tag_req, fetched, done>>
  <2>1. /\ inflight_requests \in [Ids -> Requests \cup {NoRequest}]
        /\ tracker \in [Ids -> UblkOp \cup {"none"}]
    BY <1>1 DEF QTypeOK
  <2>2. /\ inflight_requests'[t] = r /\ tracker'[t] = OpOf[r]
        /\ \A u \in Ids : u # t => /\ inflight_requests'[u] = inflight_requests[u]
                                   /\ tracker'[u] = tracker[u]
        /\ inflight_requests' \in [Ids -> Requests \cup {NoRequest}]
        /\ tracker' \in [Ids -> UblkOp \cup {"none"}]
    BY <1>6, <1>8, <2>1
  <2>3. Inflight' = Inflight \cup {t} /\ t \notin Inflight
    BY <1>3, <1>6, <2>2 DEF Inflight, Waits
  <2>4. QTypeOK'
    <3>1. {fetched', batch', pending_requests'} \subseteq Seq(Ids)
      BY <1>2, <1>3, <1>4, <1>8
    <3> QED BY <1>1, <1>2, <1>8, <2>2, <3>1 DEF QTypeOK
  <2>5. CompletedOnce' /\ OutstandingOnce'
    BY <1>1, <1>8, <2>2, <2>3 DEF CompletedOnce, OutstandingOnce, Inflight
  <2>6. TagsOnce'
    <3>1. /\ \A k \in DOMAIN fetched' : Waits(fetched[k])'
          /\ \A k \in DOMAIN batch' : Waits(batch[k])'
          /\ \A k \in DOMAIN pending_requests' : Waits(pending_requests[k])'
      BY <1>2, <1>3, <1>4, <1>8, <2>2 DEF Waits
    <3> QED BY <1>1, <1>2, <1>3, <1>5, <1>8, <3>1 DEF TagsOnce
  <2>7. R!OwnerAdd(t, r)
    <3>1. \A u \in Inflight : inflight_requests[u] = tag_req[u] /\ u \in Ids /\ u # t
                              /\ inflight_requests[u] # NoRequest
      BY <1>1, <2>3 DEF CompletedOnce, Inflight
    <3>2. r \notin Issued
      <4>1. r \notin Completed
        BY <1>1, <1>6 DEF OutstandingOnce, Completed
      <4>2. \A u \in Inflight : inflight_requests[u] # r
        BY <1>1, <1>6, <3>1 DEF OutstandingOnce
      <4> QED BY <4>1, <4>2 DEF Issued
    <3>3. Completed' = Completed
      BY <1>8 DEF Completed
    <3>4. Issued' = Issued \cup {r}
      <4>1. \A u \in Inflight : inflight_requests'[u] = inflight_requests[u]
        BY <2>2, <3>1
      <4> QED BY <2>2, <2>3, <3>3, <4>1 DEF Issued
    <3>5. R!RingAdd(e) \/ R!RingAddFlush(e)
      BY <1>8 DEF R!RingAdd, R!RingAddFlush, R!Answer, RingAdd, RingAddFlush, Answer
    <3>6. inflight_requests[t] = NoRequest
      BY <1>3 DEF Waits
    <3> QED BY <1>8, <3>2, <3>3, <3>4, <3>5, <3>6 DEF R!OwnerAdd
  <2>8. TrackerShowsInflight => TrackerShowsInflight'
    BY <1>6, <2>2, <2>3 DEF TrackerShowsInflight, UblkOp
  <2> QED BY <1>6, <2>4, <2>5, <2>6, <2>7, <2>8 DEF QInv, R!UNext
<1>9. \/ /\ Complete([u \in {t} |-> "invalid"])
         /\ UNCHANGED <<ringVars, inflight_requests, tracker, queued>>
      \/ /\ RingAddFlush(e) \/ RingAdd(e)
         /\ OpOf[r] # "Unsupported"
         /\ tracker' = [tracker EXCEPT ![t] = OpOf[r]]
         /\ inflight_requests' = [inflight_requests EXCEPT ![t] = r]
         /\ queued' = TRUE
         /\ UNCHANGED <<tag_req, fetched, done>>
  BY DEF Enqueue, driverVars
<1> QED BY <1>7, <1>8, <1>9

\* Requests in flight are completed and their slots emptied: all of them after a
\* failed submit, those that poll returned otherwise.
LEMMA CompletesInflight ==
    ASSUME UblkAssumption, QInv, NEW result, DOMAIN result \subseteq Inflight,
           \A t \in DOMAIN result : result[t] \in Results, Complete(result),
           inflight_requests' = [t \in Ids |-> IF t \in DOMAIN result THEN NoRequest
                                                                   ELSE inflight_requests[t]],
           UNCHANGED <<batch, pending_requests>>, tracker' \in [Ids -> UblkOp \cup {"none"}],
           step' \in {"wait", "drain", "poll"}, queued' \in BOOLEAN
    PROVE  /\ QInv'
           /\ Completed' = Completed \cup {inflight_requests[t] : t \in DOMAIN result}
           /\ Inflight' = Inflight \ DOMAIN result
<1>1. QTypeOK /\ CompletedOnce /\ TagsOnce /\ OutstandingOnce
  BY DEF QInv
<1>2. /\ inflight_requests \in [Ids -> Requests \cup {NoRequest}]
      /\ fetched \in Seq(Ids) /\ batch \in Seq(Ids) /\ pending_requests \in Seq(Ids)
  BY <1>1 DEF QTypeOK
<1>3. \A t \in DOMAIN result : /\ t \in Ids /\ inflight_requests[t] = tag_req[t]
                               /\ inflight_requests[t] # NoRequest /\ tag_req[t] \in Requests
  BY <1>1, <1>2 DEF CompletedOnce, Inflight
<1>4. /\ tag_req' \in [Ids -> Requests \cup {NoRequest}]
      /\ \A t \in Ids : tag_req'[t] = IF t \in DOMAIN result THEN NoRequest ELSE tag_req[t]
      /\ fetched' = fetched
      /\ done' \in [Requests \cup {NoRequest} -> Seq(Results)]
      /\ \A r \in Requests : Len(done'[r]) <= 1
      /\ done'[NoRequest] = <<>>
      /\ OutstandingOnce'
      /\ Completed' = Completed \cup {tag_req[t] : t \in DOMAIN result}
  <2>1. DOMAIN result \subseteq Ids
    BY <1>3
  <2> QED BY <1>3, <2>1, Completes
<1>5. \A t \in Ids : inflight_requests'[t] = IF t \in DOMAIN result THEN NoRequest
                                                                  ELSE inflight_requests[t]
  OBVIOUS
<1>6. Inflight' = Inflight \ DOMAIN result
  BY <1>5 DEF Inflight
<1>7. Completed' = Completed \cup {inflight_requests[t] : t \in DOMAIN result}
  BY <1>3, <1>4
<1>8. CompletedOnce'
  BY <1>1, <1>4, <1>5, <1>6 DEF CompletedOnce, Inflight
<1>9. QTypeOK'
  <2>1. inflight_requests' \in [Ids -> Requests \cup {NoRequest}]
    BY <1>2
  <2> QED BY <1>1, <1>4, <2>1 DEF QTypeOK
<1>10. TagsOnce'
  <2>1. ASSUME NEW t \in Ids, Waits(t)
        PROVE  tag_req'[t] = tag_req[t] /\ inflight_requests'[t] = inflight_requests[t]
    BY <1>3, <1>4, <1>5, <2>1 DEF Waits
  <2>2. /\ \A k \in DOMAIN fetched : fetched[k] \in Ids /\ Waits(fetched[k])
        /\ \A k \in DOMAIN batch : batch[k] \in Ids /\ Waits(batch[k])
        /\ \A k \in DOMAIN pending_requests :
              pending_requests[k] \in Ids /\ Waits(pending_requests[k])
    BY <1>1, <1>2 DEF TagsOnce
  <2>3. /\ \A k \in DOMAIN fetched' : Waits(fetched[k])'
        /\ \A k \in DOMAIN batch' : Waits(batch[k])'
        /\ \A k \in DOMAIN pending_requests' : Waits(pending_requests[k])'
    BY <1>4, <2>1, <2>2 DEF Waits
  <2> QED BY <1>1, <1>4, <2>3 DEF TagsOnce
<1> QED BY <1>4, <1>6, <1>7, <1>8, <1>9, <1>10 DEF QInv

LEMMA SubmitStep ==
    ASSUME UblkAssumption, QInv, NEW ok \in BOOLEAN, Submit(ok)
    PROVE  QInv'
<1>1. QTypeOK /\ CompletedOnce /\ TagsOnce /\ OutstandingOnce
  BY DEF QInv
<1>2. UNCHANGED <<batch, pending_requests, tracker, queued>>
  BY DEF Submit
<1>3. CASE ok /\ step' = "poll" /\ UNCHANGED <<inflight_requests, tag_req, fetched, done>>
  <2>1. QTypeOK' /\ CompletedOnce' /\ OutstandingOnce'
    BY <1>1, <1>2, <1>3 DEF QTypeOK, CompletedOnce, OutstandingOnce, Inflight
  <2>2. TagsOnce'
    BY <1>1, <1>2, <1>3 DEF TagsOnce, Waits
  <2> QED BY <2>1, <2>2 DEF QInv
<1>4. CASE /\ step' = "wait" /\ Complete([t \in Inflight |-> "invalid"])
           /\ inflight_requests' = [t \in Ids |-> NoRequest]
  <2> DEFINE result == [t \in Inflight |-> "invalid"]
  <2>1. DOMAIN result = Inflight /\ Complete(result) /\ \A t \in DOMAIN result : result[t] \in Results
    BY <1>4 DEF Results
  <2>2. inflight_requests' = [t \in Ids |-> IF t \in DOMAIN result THEN NoRequest
                                                                  ELSE inflight_requests[t]]
    BY <1>4, <2>1 DEF Inflight
  <2>3. tracker' \in [Ids -> UblkOp \cup {"none"}] /\ queued' \in BOOLEAN
        /\ step' \in {"wait", "drain", "poll"}
    BY <1>1, <1>2, <1>4 DEF QTypeOK
  <2> HIDE DEF result
  <2> QED BY <1>2, <2>1, <2>2, <2>3, CompletesInflight
<1> QED BY <1>3, <1>4 DEF Submit, driverVars

LEMMA PollStep ==
    ASSUME UblkAssumption, QInv, Poll
    PROVE  /\ QInv'
           /\ Completed' = Completed \cup {inflight_requests[t] : t \in KnownIds}
           /\ Inflight' = Inflight \ KnownIds
<1> DEFINE result == [t \in KnownIds |-> CompleteRequest(FirstAnswer(t))]
<1>1. QTypeOK
  BY DEF QInv
<1>2. /\ DOMAIN result = KnownIds /\ Complete(result)
      /\ \A t \in DOMAIN result : result[t] \in Results
  BY DEF Poll, CompleteRequest, Results
<1>3. KnownIds \subseteq Inflight
  BY DEF KnownIds
<1>4. /\ inflight_requests' = [t \in Ids |-> IF t \in KnownIds THEN NoRequest
                                                            ELSE inflight_requests[t]]
      /\ tracker' = [t \in Ids |-> IF t \in KnownIds THEN "none" ELSE tracker[t]]
      /\ UNCHANGED <<batch, pending_requests>>
      /\ step' \in {"wait", "drain", "poll"} /\ queued' \in BOOLEAN
  BY DEF Poll
<1>5. tracker' \in [Ids -> UblkOp \cup {"none"}]
  BY <1>1, <1>4 DEF QTypeOK
<1> HIDE DEF result
<1> QED BY <1>2, <1>3, <1>4, <1>5, CompletesInflight

\* Everything of the queue's own state left alone.
LEMMA QueueUnchanged ==
    ASSUME QInv, UNCHANGED <<tag_req, fetched, batch, pending_requests, inflight_requests,
                             tracker, done, step, queued>>
    PROVE  /\ QInv' /\ UNCHANGED <<Completed, Issued, Inflight>>
           /\ TrackerShowsInflight => TrackerShowsInflight'
<1>1. QTypeOK /\ CompletedOnce /\ TagsOnce /\ OutstandingOnce
  BY DEF QInv
<1>2. QTypeOK' /\ CompletedOnce' /\ OutstandingOnce'
  BY <1>1 DEF QTypeOK, CompletedOnce, OutstandingOnce, Inflight
<1>3. TagsOnce'
  BY <1>1 DEF TagsOnce, Waits
<1>4. UNCHANGED <<Completed, Issued, Inflight>>
  BY DEF Completed, Issued, Inflight
<1>5. TrackerShowsInflight => TrackerShowsInflight'
  BY DEF TrackerShowsInflight, Inflight
<1> QED BY <1>2, <1>3, <1>4, <1>5 DEF QInv

LEMMA QInitInv ==
    ASSUME UblkAssumption, QInit
    PROVE  QInv
<1>1. /\ tag_req = [t \in Ids |-> NoRequest]
      /\ fetched = <<>> /\ batch = <<>> /\ pending_requests = <<>>
      /\ done = [r \in Requests \cup {NoRequest} |-> <<>>]
      /\ inflight_requests = [t \in Ids |-> NoRequest]
      /\ tracker = [t \in Ids |-> "none"]
      /\ step = "wait" /\ queued = FALSE
  BY DEF QInit
<1>2. QTypeOK
  <2>1. <<>> \in Seq(Ids) /\ <<>> \in Seq(Results)
    OBVIOUS
  <2> QED BY <1>1, <2>1 DEF QTypeOK
<1>3. CompletedOnce
  <2>1. \A r \in Requests \cup {NoRequest} : done[r] = <<>> /\ Len(done[r]) = 0
    BY <1>1
  <2>2. Inflight = {}
    BY <1>1 DEF Inflight
  <2> QED BY <2>1, <2>2 DEF CompletedOnce
<1>4. TagsOnce
  <2>1. \A s : s = <<>> => DOMAIN s = {}
    OBVIOUS
  <2>2. DOMAIN fetched = {} /\ DOMAIN batch = {} /\ DOMAIN pending_requests = {}
    BY <1>1, <2>1
  <2> QED BY <2>2 DEF TagsOnce, Once, Apart
<1>5. OutstandingOnce
  BY <1>1 DEF OutstandingOnce
<1> QED BY <1>2, <1>3, <1>4, <1>5 DEF QInv

LEMMA QNextInv ==
    ASSUME UblkAssumption, QInv, [QNext]_qVars
    PROVE  QInv'
<1>1. CASE \E t \in Ids, r \in Requests : DriverIssues(t, r)
  BY <1>1, IssuesStep
<1>2. CASE \E n \in 1 .. Len(fetched) : DeliverBatch(n)
  BY <1>2, DeliverStep
<1>3. CASE \E t \in Ids : Handle(t) \/ Enqueue(t)
  BY <1>3, HandleStep, EnqueueStep
<1>4. CASE \E ok \in BOOLEAN : Submit(ok)
  BY <1>4, SubmitStep
<1>5. CASE Poll
  BY <1>5, PollStep
<1>6. CASE DeviceStep
  BY <1>6, QueueUnchanged DEF DeviceStep, DeviceAnswers, driverVars
<1>7. CASE UNCHANGED qVars
  BY <1>7, QueueUnchanged DEF qVars, driverVars
<1> QED BY <1>1, <1>2, <1>3, <1>4, <1>5, <1>6, <1>7 DEF QNext, QueueStep

\* No ublk command is completed twice and no tag without a command, for every
\* number of failed and short submits, whose answers may come when the tag has
\* been given to another command.
THEOREM UblkCompletedOnce == UblkAssumption => (QSpec => [](QInv /\ CompletedOnce))
<1> SUFFICES ASSUME UblkAssumption PROVE QSpec => [](QInv /\ CompletedOnce)
  OBVIOUS
<1>1. QInit => QInv
  BY QInitInv
<1>2. QInv /\ [QNext]_qVars => QInv'
  BY QNextInv
<1>3. QInv => CompletedOnce
  BY DEF QInv
<1> QED BY <1>1, <1>2, <1>3, PTL DEF QSpec

-----------------------------------------------------------------------------
(* While no submit fails: each step is one of an owner that keeps the      *)
(* contract, or a stutter.                                                 *)

\* What the channel holds under a tag is of the request in flight on it.
LEMMA HeldByTags ==
    ASSUME QRingInv
    PROVE  /\ \A k \in DOMAIN cq :
                 cq[k].id \in Inflight /\ cq[k].req = inflight_requests[cq[k].id]
           /\ \A k \in DOMAIN finished_requests :
                 /\ finished_requests[k].id \in Inflight
                 /\ finished_requests[k].req = inflight_requests[finished_requests[k].id]
           /\ \A e \in kernel : e.id \in Inflight /\ e.req = inflight_requests[e.id]
<1>1. R!UInv
  BY SameInv DEF QRingInv
<1>2. /\ \A k \in DOMAIN cq : cq[k].id \in Ids
      /\ \A k \in DOMAIN finished_requests : finished_requests[k].id \in Ids
      /\ \A e \in kernel : e.id \in Ids
  BY <1>1, R!ElementIds DEF R!UInv
<1>3. /\ R!Exact(cq) /\ R!Exact(finished_requests) /\ R!KernelExact
      /\ \A i \in Ids : R!HeldOnce(i)
  BY <1>1 DEF R!UInv
<1>4. \A i \in Ids : R!InSeq(cq, i) \/ R!InSeq(finished_requests, i) \/ R!InKernel(i)
                       => i \in Inflight
  BY <1>3 DEF R!HeldOnce, Inflight
<1>5. ASSUME NEW k \in DOMAIN cq
      PROVE  cq[k].id \in Inflight /\ cq[k].req = inflight_requests[cq[k].id]
  <2>1. R!InSeq(cq, cq[k].id) /\ cq[k].req = inflight_requests[cq[k].id]
    BY <1>3 DEF R!InSeq, R!Exact
  <2> QED BY <1>2, <1>4, <2>1
<1>6. ASSUME NEW k \in DOMAIN finished_requests
      PROVE  /\ finished_requests[k].id \in Inflight
             /\ finished_requests[k].req = inflight_requests[finished_requests[k].id]
  <2>1. /\ R!InSeq(finished_requests, finished_requests[k].id)
        /\ finished_requests[k].req = inflight_requests[finished_requests[k].id]
    BY <1>3 DEF R!InSeq, R!Exact
  <2> QED BY <1>2, <1>4, <2>1
<1>7. ASSUME NEW e \in kernel PROVE e.id \in Inflight /\ e.req = inflight_requests[e.id]
  <2>1. R!InKernel(e.id) /\ e.req = inflight_requests[e.id]
    BY <1>3 DEF R!InKernel, R!KernelExact
  <2> QED BY <1>2, <1>4, <2>1
<1> QED BY <1>5, <1>6, <1>7

\* poll answers for requests in flight only.
LEMMA PolledFacts ==
    ASSUME QRingInv
    PROVE  \A k \in DOMAIN Polled :
              Polled[k].id \in Inflight /\ Polled[k].req = inflight_requests[Polled[k].id]
<1> DEFINE f == finished_requests
<1>1. R!UInv
  BY SameInv DEF QRingInv
<1>2. f \in Seq(R!AnswerRecord) /\ cq \in Seq(R!AnswerRecord)
      /\ DOMAIN f = 1 .. Len(f) /\ DOMAIN cq = 1 .. Len(cq)
  BY <1>1 DEF R!UInv, R!UTypeOK
<1>3. \A T : \A s, u \in Seq(T) :
        /\ DOMAIN (s \o u) = 1 .. Len(s) + Len(u)
        /\ \A k \in 1 .. Len(s) + Len(u) :
              \/ k \in 1 .. Len(s) /\ (s \o u)[k] = s[k]
              \/ k - Len(s) \in 1 .. Len(u) /\ (s \o u)[k] = u[k - Len(s)]
  OBVIOUS
<1>4. \A k \in DOMAIN Polled : \/ k \in DOMAIN f /\ Polled[k] = f[k]
                               \/ k - Len(f) \in DOMAIN cq /\ Polled[k] = cq[k - Len(f)]
  BY <1>2, <1>3 DEF Polled
<1> QED BY <1>4, HeldByTags

\* A poll that returns something is the owner's; one that returns nothing
\* changes nothing of the ring.
LEMMA PollsRing ==
    ASSUME UblkAssumption, QRingInv, Poll
    PROVE  [R!UNext]_(R!uVars) /\ TrackerShowsInflight'
<1>1. /\ RingPoll
      /\ inflight_requests' = [t \in Ids |-> IF t \in KnownIds THEN NoRequest
                                                            ELSE inflight_requests[t]]
      /\ tracker' = [t \in Ids |-> IF t \in KnownIds THEN "none" ELSE tracker[t]]
  BY DEF Poll
<1>2. /\ Completed' = Completed \cup {inflight_requests[t] : t \in KnownIds}
      /\ Inflight' = Inflight \ KnownIds
  BY PollStep DEF QRingInv
<1>3. \A t : t \in KnownIds <=> \E a \in ToSet(Polled) : a.id = t
  BY PolledFacts DEF KnownIds, ToSet
<1>4. {inflight_requests[t] : t \in KnownIds} = {a.req : a \in ToSet(Polled)}
  <2>1. \A a \in ToSet(Polled) : a.id \in KnownIds /\ a.req = inflight_requests[a.id]
    BY PolledFacts, <1>3 DEF ToSet
  <2> QED BY <1>3, <2>1
<1>5. KnownIds \subseteq Inflight /\ Inflight \subseteq Ids
  BY DEF KnownIds, Inflight
<1>6. Issued' = Issued
  <2>1. \A t \in Inflight' : inflight_requests'[t] = inflight_requests[t]
    BY <1>1, <1>2, <1>5
  <2>2. ASSUME NEW x \in Issued' PROVE x \in Issued
    BY <1>2, <1>5, <2>1, <2>2 DEF Issued
  <2>3. ASSUME NEW x \in Issued PROVE x \in Issued'
    <3>1. CASE x \in Completed
      BY <1>2, <3>1 DEF Issued
    <3>2. CASE \E t \in Inflight : x = inflight_requests[t]
      <4>1. PICK t \in Inflight : x = inflight_requests[t]
        BY <3>2
      <4>2. CASE t \in KnownIds
        BY <1>2, <4>1, <4>2 DEF Issued
      <4>3. CASE t \notin KnownIds
        <5>1. t \in Inflight' /\ x = inflight_requests'[t]
          BY <1>2, <2>1, <4>1, <4>3
        <5> QED BY <5>1 DEF Issued
      <4> QED BY <4>2, <4>3
    <3> QED BY <2>3, <3>1, <3>2 DEF Issued
  <2> QED BY <2>2, <2>3
<1>7. inflight_requests' = [t \in Ids |-> IF \E a \in ToSet(Polled) : a.id = t
                                          THEN NoRequest ELSE inflight_requests[t]]
  BY <1>1, <1>3
<1>8. TrackerShowsInflight'
  <2>1. \A t \in Ids : tracker[t] # "none" <=> t \in Inflight
    BY DEF QRingInv, TrackerShowsInflight
  <2>2. \A t \in Ids : tracker'[t] = IF t \in KnownIds THEN "none" ELSE tracker[t]
    BY <1>1
  <2> QED BY <1>2, <2>1, <2>2 DEF TrackerShowsInflight
<1>9. R!RingPoll /\ R!Polled = Polled
  BY <1>1 DEF R!RingPoll, RingPoll, R!Polled, Polled
<1>10. CASE Polled # <<>>
  <2>1. R!OwnerPoll
    BY <1>2, <1>4, <1>6, <1>7, <1>9, <1>10 DEF R!OwnerPoll, R!ToSet, ToSet
  <2> QED BY <1>8, <2>1 DEF R!UNext
<1>11. CASE Polled = <<>>
  <2>1. R!UInv
    BY SameInv DEF QRingInv
  <2>2. finished_requests \in Seq(R!AnswerRecord) /\ cq \in Seq(R!AnswerRecord)
    BY <2>1 DEF R!UInv, R!UTypeOK
  <2>3. finished_requests = <<>> /\ cq = <<>>
    BY <1>11, <2>2 DEF Polled
  <2>4. UNCHANGED ringVars
    <3>1. completions \in Nat /\ Len(cq) = 0
      BY <2>1, <2>3 DEF R!UInv, R!UTypeOK
    <3> QED BY <1>1, <2>3, <3>1 DEF RingPoll, ringVars
  <2>5. ToSet(Polled) = {}
    BY <1>11 DEF ToSet
  <2>6. Completed' = Completed
    BY <1>2, <1>3, <2>5
  <2>7. inflight_requests' = inflight_requests
    <3>1. inflight_requests \in [Ids -> Requests \cup {NoRequest}]
      BY DEF QRingInv, QInv, QTypeOK
    <3> QED BY <1>7, <2>5, <3>1
  <2> QED BY <1>6, <1>8, <2>4, <2>6, <2>7 DEF R!uVars, R!ringVars, R!ownerVars, ringVars
<1> QED BY <1>10, <1>11

LEMMA SubmitsToRing ==
    ASSUME QRingInv, Submit(TRUE)
    PROVE  [R!UNext]_(R!uVars) /\ TrackerShowsInflight'
<1>1. UNCHANGED <<inflight_requests, done, tracker>>
  BY DEF Submit
<1>2. UNCHANGED <<Completed, Issued, Inflight>>
  BY <1>1 DEF Completed, Issued, Inflight
<1>3. TrackerShowsInflight'
  BY <1>1, <1>2 DEF QRingInv, TrackerShowsInflight
<1>4. CASE UNCHANGED ringVars
  BY <1>1, <1>2, <1>3, <1>4 DEF R!uVars, R!ringVars, R!ownerVars, ringVars
<1>5. CASE RingSubmit(TRUE)
  <2>1. R!RingSubmit(TRUE)
    BY <1>5 DEF R!RingSubmit, R!Take, RingSubmit, Take
  <2>2. inflight_requests = [i \in Ids |-> inflight_requests[i]]
    BY DEF QRingInv, QInv, QTypeOK
  <2>3. R!OwnerSubmit(TRUE)
    BY <1>1, <1>2, <2>1, <2>2 DEF R!OwnerSubmit
  <2> QED BY <1>3, <2>3 DEF R!UNext
<1> QED BY <1>4, <1>5 DEF Submit

LEMMA DeviceAnswersRing ==
    ASSUME QInv, NEW e \in kernel, NEW ok \in BOOLEAN, DeviceAnswers(e, ok)
    PROVE  [R!UNext]_(R!uVars)
<1>1. /\ KernelAnswers(e, ok)
      /\ UNCHANGED <<tag_req, fetched, batch, pending_requests, inflight_requests, tracker,
                     done, step, queued>>
  BY DEF DeviceAnswers, driverVars
<1>2. UNCHANGED <<Completed, Issued>>
  BY <1>1, QueueUnchanged
<1>3. R!KernelAnswers(e, ok) /\ UNCHANGED R!ownerVars
  BY <1>1, <1>2 DEF R!KernelAnswers, R!Answer, R!ownerVars, KernelAnswers, Answer
<1> QED BY <1>3 DEF R!UNext

\* Steps that leave the ring, what is in flight and what is completed alone.
LEMMA RingUnchanged ==
    ASSUME UNCHANGED <<ringVars, inflight_requests, done>>
    PROVE  UNCHANGED R!uVars
<1>1. UNCHANGED <<Completed, Issued>>
  BY DEF Completed, Issued, Inflight
<1> QED BY <1>1 DEF R!uVars, R!ringVars, R!ownerVars, ringVars

LEMMA RingStep ==
    ASSUME UblkAssumption, QRingInv, [QNext]_qVars, ~Submit(FALSE)
    PROVE  [R!UNext]_(R!uVars) /\ TrackerShowsInflight'
<1>1. QInv /\ TrackerShowsInflight
  BY DEF QRingInv
<1>2. ASSUME UNCHANGED <<inflight_requests, tracker>> PROVE TrackerShowsInflight'
  BY <1>1, <1>2 DEF TrackerShowsInflight, Inflight
<1>3. CASE \E t \in Ids, r \in Requests : DriverIssues(t, r)
  BY <1>2, <1>3, RingUnchanged DEF DriverIssues
<1>4. CASE \E n \in 1 .. Len(fetched) : DeliverBatch(n)
  BY <1>2, <1>4, RingUnchanged DEF DeliverBatch
<1>5. CASE \E t \in Ids : Handle(t)
  <2>1. PICK t \in Ids : Handle(t)
    BY <1>5
  <2>2. UNCHANGED <<inflight_requests, tracker>>
    BY <2>1 DEF Handle
  <2> QED BY <1>1, <1>2, <2>1, <2>2, HandleStep
<1>6. CASE \E t \in Ids : Enqueue(t)
  BY <1>1, <1>6, EnqueueStep
<1>7. CASE \E ok \in BOOLEAN : Submit(ok)
  BY <1>7, SubmitsToRing
<1>8. CASE Poll
  BY <1>8, PollsRing
<1>9. CASE DeviceStep
  <2>1. PICK e \in kernel, ok \in BOOLEAN : DeviceAnswers(e, ok)
    BY <1>9 DEF DeviceStep
  <2>2. UNCHANGED <<inflight_requests, tracker>>
    BY <2>1 DEF DeviceAnswers
  <2> QED BY <1>1, <1>2, <2>1, <2>2, DeviceAnswersRing
<1>10. CASE UNCHANGED qVars
  BY <1>2, <1>10, RingUnchanged DEF qVars
<1> QED BY <1>3, <1>4, <1>5, <1>6, <1>7, <1>8, <1>9, <1>10 DEF QNext, QueueStep

LEMMA QRingInit ==
    ASSUME UblkAssumption, QInit
    PROVE  QRingInv /\ Owner!UInit
<1>1. QInv
  BY QInitInv
<1>2. /\ done = [r \in Requests \cup {NoRequest} |-> <<>>]
      /\ inflight_requests = [t \in Ids |-> NoRequest]
      /\ tracker = [t \in Ids |-> "none"]
      /\ RingInit
  BY DEF QInit
<1>3. Completed = {} /\ Inflight = {} /\ Issued = {}
  BY <1>2 DEF Completed, Inflight, Issued
<1>4. R!UInit
  BY <1>2, <1>3 DEF R!UInit, R!RingInit, RingInit
<1>5. R!Contract
  BY DEF UblkAssumption, R!Contract
<1>6. R!UInv
  BY <1>4, <1>5, R!UInitInv
<1>7. TrackerShowsInflight
  BY <1>2, <1>3 DEF TrackerShowsInflight
<1> QED BY <1>1, <1>4, <1>6, <1>7, SameInv, SameInit DEF QRingInv

LEMMA QRingNext ==
    ASSUME UblkAssumption, QRingInv, [QNext]_qVars, ~Submit(FALSE)
    PROVE  QRingInv' /\ [Owner!UNext]_(Owner!uVars)
<1>1. [R!UNext]_(R!uVars) /\ TrackerShowsInflight'
  BY RingStep
<1>2. R!Contract
  BY DEF UblkAssumption, R!Contract
<1>3. R!UInv'
  BY <1>1, <1>2, SameInv, R!UNextInv DEF QRingInv
<1>4. Owner!UInv'
  BY <1>3, SameInv, PTL
<1>5. QInv'
  BY QNextInv DEF QRingInv
<1> QED BY <1>1, <1>4, <1>5, SameNext DEF QRingInv

\* A stuttering step.
LEMMA StutterRing ==
    ASSUME UblkAssumption, QRingInv, UNCHANGED qVars
    PROVE  QRingInv' /\ [Owner!UNext]_(Owner!uVars)
<1>1. UNCHANGED R!uVars
  BY RingUnchanged DEF qVars
<1>2. R!Contract
  BY DEF UblkAssumption, R!Contract
<1>3. R!UInv'
  BY <1>1, <1>2, SameInv, R!UNextInv DEF QRingInv
<1>4. Owner!UInv'
  BY <1>3, SameInv, PTL
<1>5. QInv' /\ TrackerShowsInflight'
  BY QueueUnchanged DEF QRingInv, qVars, driverVars
<1> QED BY <1>1, <1>4, <1>5, SameNext DEF QRingInv

\* Without faults no submit fails.
LEMMA NoFaults ==
    ASSUME QRingInv, MaxFaults = 0
    PROVE  ~Submit(FALSE)
<1>1. faults \in Nat
  BY SameInv DEF QRingInv, R!UInv, R!UTypeOK
<1> QED BY <1>1 DEF Submit, RingSubmit

-----------------------------------------------------------------------------
(* The theorems that hold while no submit fails.                           *)

\* The queue, its tracker and the ring agree in every state that is reached
\* without a failed submit.
THEOREM UblkRingInvariant ==
    UblkAssumption => (QSpec /\ SubmitsSucceed => []QRingInv)
<1> SUFFICES ASSUME UblkAssumption PROVE QSpec /\ SubmitsSucceed => []QRingInv
  OBVIOUS
<1>1. QInit => QRingInv
  BY QRingInit
<1>2. QRingInv /\ [QNext]_qVars /\ [~Submit(FALSE)]_qVars => QRingInv'
  BY QRingNext, StutterRing
<1> QED BY <1>1, <1>2, PTL DEF QSpec, SubmitsSucceed

\* UblkIoHandler is an owner as bdev_uring.rs asks for, as long as no submit
\* fails: a tag is given to the channel again only after its answer.
THEOREM UblkKeepsRingContract ==
    UblkAssumption => (QSpec /\ SubmitsSucceed => KeepsRingContract)
<1> SUFFICES ASSUME UblkAssumption PROVE QSpec /\ SubmitsSucceed => KeepsRingContract
  OBVIOUS
<1>1. QInit => Owner!UInit
  BY QRingInit
<1>2. QRingInv /\ [QNext]_qVars /\ [~Submit(FALSE)]_qVars
        => [Owner!UNext]_(Owner!uVars)
  BY QRingNext, StutterRing
<1> QED BY <1>1, <1>2, UblkRingInvariant, PTL
        DEF QSpec, SubmitsSucceed, KeepsRingContract, Owner!USpec

\* The kernel works for the request that its tag stands for, and the tracker
\* shows exactly what is in flight, short submits included.
THEOREM UblkEntriesOwned ==
    UblkAssumption => (QSpec /\ SubmitsSucceed => [](EntriesOwned /\ TrackerShowsInflight))
<1> SUFFICES ASSUME UblkAssumption
             PROVE  QSpec /\ SubmitsSucceed => [](EntriesOwned /\ TrackerShowsInflight)
  OBVIOUS
<1>1. QRingInv => EntriesOwned /\ TrackerShowsInflight
  BY HeldByTags DEF EntriesOwned, QRingInv
<1> QED BY <1>1, UblkRingInvariant, PTL

=============================================================================
