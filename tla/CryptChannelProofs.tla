-------------------------- MODULE CryptChannelProofs --------------------------
(***************************************************************************)
(* The encrypting channel over a synchronous base channel, or over one     *)
(* that answers later and in any order: for every disk, every number of    *)
(* requests at a time and every number of requests.                        *)
(***************************************************************************)
EXTENDS CryptChannel, TLAPS

\* Decrypting with the sector number of the encryption gives the value back.
LEMMA DecEnc ==
    ASSUME NEW v, NEW s \in Nat
    PROVE  Dec(Enc(Clear(v), s), s) = Clear(v)
<1> DEFINE d == Enc(Clear(v), s)
<1>1. d = [value |-> v, layers |-> <<<<"enc", s>>>>]
  BY DEF Enc, Clear
<1>2. Len(d.layers) = 1 /\ d.layers[1] = <<"enc", s>>
  BY <1>1
<1>3. SubSeq(<<<<"enc", s>>>>, 1, 0) = <<>>
  OBVIOUS
<1> HIDE DEF d
<1>4. Dec(d, s) = [d EXCEPT !.layers = SubSeq(@, 1, 0)]
  BY <1>2 DEF Dec
<1> QED BY <1>1, <1>3, <1>4 DEF Clear, d

\* What the base channel does with a request, and what it leaves alone.
LEMMA PerformedFacts ==
    ASSUME SectorCount \in Nat, DiskEncryptedOnce,
           DOMAIN buf = Ids, DOMAIN owned = Ids,
           NEW r \in Request, NEW b, DOMAIN b = 1 .. 2, NEW o, o.op = r.op, o.count = r.count,
           r.op = "write" => Sealed(b, r.start, r.count, [k \in 1 .. r.count |-> o.value[1]]),
           Performed(r, b, o)
    PROVE  /\ DiskEncryptedOnce'
           /\ DOMAIN buf' = Ids /\ DOMAIN owned' = Ids
           /\ DOMAIN buf'[r.id] = 1 .. 2
           /\ owned'[r.id].op = r.op /\ owned'[r.id].count = r.count
           /\ \A i \in Ids : i # r.id => buf'[i] = buf[i] /\ owned'[i] = owned[i]
           /\ \E ok \in BOOLEAN :
                 /\ finished' = Append(finished, <<r.id, ok>>)
                 /\ ok /\ r.op = "read" =>
                       Sealed(buf'[r.id], r.start, r.count, owned'[r.id].value)
<1>1. PICK ok \in BOOLEAN :
        /\ finished' = Append(finished, <<r.id, ok>>)
        /\ disk' = IF ok THEN DiskAfter(r, b) ELSE disk
        /\ buf' = [buf EXCEPT ![r.id] = IF ok THEN BufAfter(r, b) ELSE b]
        /\ plain' = [s \in Sectors |-> IF ok /\ r.op = "write" /\ Covers(r, s)
                                       THEN o.value[1] ELSE plain[s]]
        /\ owned' = [owned EXCEPT ![r.id] =
             IF r.op = "read"
             THEN Owner(o.op, o.was, o.ok, o.count,
                        [i \in 1 .. r.count |-> plain[r.start + i - 1]])
             ELSE o]
  BY DEF Performed
<1>2. /\ r.id \in Ids /\ r.start \in Nat /\ r.count \in 0 .. 2
      /\ r.start + r.count <= SectorCount
  BY DEF Request
<1>3. DiskEncryptedOnce'
  <2> SUFFICES ASSUME NEW s \in Sectors PROVE disk'[s] = Enc(Clear(plain'[s]), s)
    BY DEF DiskEncryptedOnce
  <2>1. CASE ok /\ r.op = "write" /\ Covers(r, s)
    <3>1. s \in Nat /\ s - r.start + 1 \in 1 .. r.count
      BY <1>2, <2>1 DEF Covers, Sectors
    <3>2. Tweak(r.start, s - r.start + 1) = s
      BY <1>2, <3>1 DEF Tweak
    <3>3. b[s - r.start + 1] = Enc(Clear(o.value[1]), s)
      BY <2>1, <3>1, <3>2 DEF Sealed
    <3>4. disk'[s] = b[s - r.start + 1] /\ plain'[s] = o.value[1]
      BY <1>1, <2>1 DEF DiskAfter
    <3> QED BY <3>3, <3>4
  <2>2. CASE ~(ok /\ r.op = "write" /\ Covers(r, s))
    <3>1. disk'[s] = disk[s] /\ plain'[s] = plain[s]
      BY <1>1, <2>2 DEF DiskAfter
    <3> QED BY <3>1 DEF DiskEncryptedOnce
  <2> QED BY <2>1, <2>2
<1>4. DOMAIN buf' = Ids /\ DOMAIN owned' = Ids
      /\ \A i \in Ids : i # r.id => buf'[i] = buf[i] /\ owned'[i] = owned[i]
  BY <1>1
<1>5. DOMAIN buf'[r.id] = 1 .. 2
  BY <1>1, <1>2 DEF BufAfter
<1>6. owned'[r.id].op = r.op /\ owned'[r.id].count = r.count
  BY <1>1, <1>2 DEF Owner
<1>7. ASSUME ok, r.op = "read"
      PROVE  Sealed(buf'[r.id], r.start, r.count, owned'[r.id].value)
  <2> SUFFICES ASSUME NEW k \in 1 .. r.count
               PROVE  buf'[r.id][k] = Enc(Clear(owned'[r.id].value[k]), Tweak(r.start, k))
    BY DEF Sealed
  <2>1. owned'[r.id].value = [i \in 1 .. r.count |-> plain[r.start + i - 1]]
    BY <1>1, <1>2, <1>7 DEF Owner
  <2>2. k \in 1 .. 2 /\ r.start + k - 1 \in Sectors
    BY <1>2 DEF Sectors
  <2>3. buf'[r.id][k] = disk[r.start + k - 1]
    BY <1>1, <1>2, <1>7, <2>2 DEF BufAfter
  <2> QED BY <2>1, <2>2, <2>3 DEF DiskEncryptedOnce, Tweak
<1> QED BY <1>1, <1>3, <1>4, <1>5, <1>6, <1>7
-----------------------------------------------------------------------------
(* The steps.                                                              *)

\* A read is noted under its id when it is added, and nothing else is.
Noted(r) ==
    /\ DOMAIN read_requests' = Ids
    /\ \A i \in Ids : i # r.id => read_requests'[i] = read_requests[i]
    /\ IF r.op = "read"
       THEN read_requests'[r.id].start = r.start /\ read_requests'[r.id].count = r.count
       ELSE read_requests'[r.id].count = 0

\* The answer of a request is there, and the request was the only one of its id.
LEMMA PerformedInv ==
    ASSUME SectorCount \in Nat, CInv, ops' \in Nat,
           NEW r \in Request, NEW b, DOMAIN b = 1 .. 2, NEW o, o.op = r.op, o.count = r.count,
           r.op = "write" => Sealed(b, r.start, r.count, [k \in 1 .. r.count |-> o.value[1]]),
           Performed(r, b, o), Noted(r), ~IsFinished(r.id),
           inflight' = {q \in inflight : q.id # r.id}
    PROVE  CInv'
<1>1. r.id \in Ids /\ r.op \in Ops /\ r.start \in Nat /\ r.count \in 0 .. 2
  BY DEF Request
<1>2. CTypeOK /\ DiskEncryptedOnce /\ inflight \subseteq Request
      /\ finished \in Seq(Ids \X BOOLEAN)
  BY DEF CInv, CTypeOK
<1>3. /\ DiskEncryptedOnce'
      /\ DOMAIN buf' = Ids /\ DOMAIN owned' = Ids
      /\ DOMAIN buf'[r.id] = 1 .. 2
      /\ owned'[r.id].op = r.op /\ owned'[r.id].count = r.count
      /\ \A i \in Ids : i # r.id => buf'[i] = buf[i] /\ owned'[i] = owned[i]
      /\ \E ok \in BOOLEAN :
            /\ finished' = Append(finished, <<r.id, ok>>)
            /\ ok /\ r.op = "read" =>
                  Sealed(buf'[r.id], r.start, r.count, owned'[r.id].value)
  BY <1>2, PerformedFacts DEF CTypeOK
<1>4. PICK ok \in BOOLEAN :
        /\ finished' = Append(finished, <<r.id, ok>>)
        /\ ok /\ r.op = "read" => Sealed(buf'[r.id], r.start, r.count, owned'[r.id].value)
  BY <1>3
<1>5. \A i \in Ids : i # r.id => buf'[i] = buf[i] /\ owned'[i] = owned[i]
                                /\ read_requests'[i] = read_requests[i]
  BY <1>3 DEF Noted
<1>6. /\ finished' \in Seq(Ids \X BOOLEAN) /\ Len(finished') = Len(finished) + 1
      /\ \A k \in DOMAIN finished : finished'[k] = finished[k] /\ finished[k] \in Ids \X BOOLEAN
                                    /\ k \in DOMAIN finished'
      /\ finished'[Len(finished) + 1] = <<r.id, ok>>
      /\ \A k \in DOMAIN finished' : k \in DOMAIN finished \/ k = Len(finished) + 1
      /\ Len(finished) + 1 \in DOMAIN finished' /\ Len(finished) + 1 \notin DOMAIN finished
  BY <1>1, <1>2, <1>4
<1>7. \A k \in DOMAIN finished : finished[k][1] \in Ids /\ finished[k][1] # r.id
  BY <1>6 DEF IsFinished
<1>8. CTypeOK'
  BY <1>1, <1>2, <1>3, <1>5, <1>6 DEF CTypeOK, Noted
<1>9. ReadsInTheClear'
  BY <1>1, <1>3, <1>5 DEF CInv, ReadsInTheClear, Ops
<1>10. \A q \in inflight' : InflightSound(q)'
  <2> SUFFICES ASSUME NEW q \in inflight' PROVE InflightSound(q)'
    OBVIOUS
  <2>1. q \in inflight /\ q.id # r.id /\ q.id \in Ids
    BY <1>2 DEF Request
  <2>2. buf'[q.id] = buf[q.id] /\ owned'[q.id] = owned[q.id]
        /\ read_requests'[q.id] = read_requests[q.id]
    BY <1>5, <2>1
  <2>3. InflightSound(q)
    BY <2>1 DEF CInv
  <2> QED BY <2>2, <2>3 DEF InflightSound
<1>11. \A q, p \in inflight' : q.id = p.id => q = p
  BY DEF CInv
<1>12. \A j, k \in DOMAIN finished' : finished'[j][1] = finished'[k][1] => j = k
  <2>1. \A j, k \in DOMAIN finished : finished[j][1] = finished[k][1] => j = k
    BY DEF CInv
  <2> QED BY <1>6, <1>7, <2>1
<1>13. \A i \in Ids : i # r.id /\ FinishedSound(i) => FinishedSound(i)'
  BY <1>5 DEF FinishedSound
<1>14. ok => FinishedSound(r.id)'
  BY <1>1, <1>3, <1>4 DEF FinishedSound, Noted
<1>15. ASSUME NEW k \in DOMAIN finished', finished'[k][2]
       PROVE  FinishedSound(finished[k][1])'
  <2>1. CASE k \in DOMAIN finished
    <3>1. PICK i \in Ids : i = finished[k][1]
      BY <1>7, <2>1
    <3>2. FinishedSound(i) /\ i # r.id /\ finished'[k][1] = i
      BY <1>6, <1>7, <1>15, <2>1, <3>1 DEF CInv
    <3>3. FinishedSound(i)'
      BY <1>13, <3>2
    <3> QED BY <3>2, <3>3 DEF FinishedSound
  <2>2. CASE k = Len(finished) + 1
    <3>1. ok /\ finished'[k][1] = r.id
      BY <1>6, <1>15, <2>2
    <3> QED BY <1>14, <3>1 DEF FinishedSound
  <2> QED BY <1>6, <2>1, <2>2
<1>16. ASSUME NEW i PROVE IsFinished(i)' <=> IsFinished(i) \/ i = r.id
  <2>1. ASSUME IsFinished(i)' PROVE IsFinished(i) \/ i = r.id
    BY <1>6, <2>1 DEF IsFinished
  <2>2. ASSUME NEW k \in DOMAIN finished, finished[k][1] = i PROVE IsFinished(i)'
    BY <1>6, <2>2 DEF IsFinished
  <2>3. IsFinished(r.id)'
    BY <1>6 DEF IsFinished
  <2> QED BY <2>1, <2>2, <2>3 DEF IsFinished
<1>17. \A i : IsInflight(i)' <=> IsInflight(i) /\ i # r.id
  BY DEF IsInflight
<1>18. \A i \in Ids : owned'[i].op # "free" <=> IsFinished(i)' \/ IsInflight(i)'
  BY <1>1, <1>3, <1>5, <1>16, <1>17 DEF CInv, Ops
<1>19. \A i \in Ids : ~(IsFinished(i)' /\ IsInflight(i)')
  BY <1>16, <1>17 DEF CInv
<1>20. \A i \in Ids : owned'[i].op # "read" => read_requests'[i].count = 0
  BY <1>3, <1>5 DEF CInv, Noted
<1> QED BY <1>3, <1>8, <1>9, <1>10, <1>11, <1>12, <1>15, <1>18, <1>19, <1>20 DEF CInv

\* The request of a free id goes to the base channel.
LEMMA BaseAddInv ==
    ASSUME SectorCount \in Nat, CInv, ops' = ops + 1,
           NEW r \in Request, NEW b, DOMAIN b = 1 .. 2, owned[r.id].op = "free",
           r.op = "write" => Sealed(b, r.start, r.count, [k \in 1 .. r.count |-> ops + 1]),
           BaseAdd(r, b), Noted(r)
    PROVE  CInv'
<1> DEFINE o == Owner(r.op, "none", FALSE, r.count, <<ops + 1>>)
<1>1. r.id \in Ids /\ r.op \in Ops /\ r.start \in Nat /\ r.count \in 0 .. 2
  BY DEF Request
<1>2. CTypeOK /\ ops' \in Nat
  BY DEF CInv, CTypeOK
<1>3. o.op = r.op /\ o.count = r.count /\ o.value[1] = ops + 1
  BY DEF Owner
<1>4. ~IsFinished(r.id) /\ ~IsInflight(r.id)
  BY <1>1 DEF CInv
<1>5. r.op = "write" => Sealed(b, r.start, r.count, [k \in 1 .. r.count |-> o.value[1]])
  BY <1>3 DEF Sealed
<1>6. IF sync THEN Performed(r, b, o) /\ UNCHANGED inflight
      ELSE /\ inflight' = inflight \cup {r}
           /\ buf' = [buf EXCEPT ![r.id] = b]
           /\ owned' = [owned EXCEPT ![r.id] = o]
           /\ UNCHANGED <<disk, finished, plain>>
  BY DEF BaseAdd
<1> HIDE DEF o
<1>7. CASE sync
  <2>1. inflight' = {q \in inflight : q.id # r.id}
    BY <1>4, <1>6, <1>7 DEF IsInflight
  <2> QED BY <1>2, <1>3, <1>4, <1>5, <1>6, <1>7, <2>1, PerformedInv
<1>8. CASE ~sync
  <2>1. /\ DOMAIN buf' = Ids /\ DOMAIN owned' = Ids
        /\ buf'[r.id] = b /\ owned'[r.id] = o
        /\ \A i \in Ids : i # r.id => buf'[i] = buf[i] /\ owned'[i] = owned[i]
                                     /\ read_requests'[i] = read_requests[i]
    BY <1>1, <1>2, <1>6, <1>8 DEF CTypeOK, Noted
  <2>2. UNCHANGED <<disk, finished, plain>> /\ inflight' = inflight \cup {r}
    BY <1>6, <1>8
  <2>3. CTypeOK'
    BY <1>1, <1>2, <1>3, <2>1, <2>2 DEF CTypeOK, Noted
  <2>4. DiskEncryptedOnce'
    BY <2>2 DEF CInv, DiskEncryptedOnce
  <2>5. ReadsInTheClear'
    BY <1>1, <1>3, <2>1 DEF CInv, ReadsInTheClear, Ops
  <2>6. ASSUME NEW q \in inflight PROVE q.id \in Ids /\ q.id # r.id
    BY <1>2, <1>4 DEF CTypeOK, Request, IsInflight
  <2>7. ASSUME NEW q \in inflight' PROVE InflightSound(q)'
    <3>1. CASE q \in inflight
      <4>1. buf'[q.id] = buf[q.id] /\ owned'[q.id] = owned[q.id]
            /\ read_requests'[q.id] = read_requests[q.id]
        BY <2>1, <2>6, <3>1
      <4> QED BY <3>1, <4>1 DEF CInv, InflightSound
    <3>2. CASE q = r
      BY <1>3, <1>5, <2>1, <3>2 DEF InflightSound, Noted
    <3> QED BY <2>2, <3>1, <3>2
  <2>8. \A q, p \in inflight' : q.id = p.id => q = p
    BY <2>2, <2>6 DEF CInv
  <2>9. \A j, k \in DOMAIN finished' : finished'[j][1] = finished'[k][1] => j = k
    BY <2>2 DEF CInv
  <2>10. ASSUME NEW k \in DOMAIN finished', finished'[k][2]
         PROVE  FinishedSound(finished[k][1])'
    <3>1. finished[k] \in Ids \X BOOLEAN /\ k \in DOMAIN finished
      BY <1>2, <2>2 DEF CTypeOK
    <3>2. PICK i \in Ids : i = finished[k][1]
      BY <3>1
    <3>3. i # r.id /\ FinishedSound(i)
      BY <1>4, <2>2, <2>10, <3>1, <3>2 DEF CInv, IsFinished
    <3>4. FinishedSound(i)'
      BY <2>1, <3>3 DEF FinishedSound
    <3>5. finished'[k][1] = i
      BY <2>2, <3>2
    <3> QED BY <3>4, <3>5 DEF FinishedSound
  <2>11. \A i : IsFinished(i)' <=> IsFinished(i)
    BY <2>2 DEF IsFinished
  <2>12. \A i : IsInflight(i)' <=> IsInflight(i) \/ i = r.id
    BY <2>2 DEF IsInflight
  <2>13. \A i \in Ids : owned'[i].op # "free" <=> IsFinished(i)' \/ IsInflight(i)'
    BY <1>1, <1>3, <2>1, <2>11, <2>12 DEF CInv, Ops
  <2>14. \A i \in Ids : ~(IsFinished(i)' /\ IsInflight(i)')
    BY <1>4, <2>11, <2>12 DEF CInv
  <2>15. \A i \in Ids : owned'[i].op # "read" => read_requests'[i].count = 0
    BY <1>3, <2>1 DEF CInv, Noted
  <2> QED BY <2>3, <2>4, <2>5, <2>7, <2>8, <2>9, <2>10, <2>13, <2>14, <2>15 DEF CInv
<1> QED BY <1>7, <1>8

LEMMA AddReadInv ==
    ASSUME SectorCount \in Nat, CInv, NEW id \in Ids, NEW r \in Ranges, AddRead(id, r)
    PROVE  CInv'
<1> DEFINE q == [id |-> id, op |-> "read", start |-> r.start, count |-> r.count]
<1>1. r.start \in Nat /\ r.count \in 1 .. 2 /\ r.start + r.count <= SectorCount
  BY DEF Ranges, Sectors
<1>2. q \in Request /\ q.op = "read" /\ q.id = id
  BY <1>1 DEF Request, Ops
<1>3. DOMAIN buf[id] = 1 .. 2 /\ ops' = ops + 1 /\ owned[id].op = "free"
      /\ BaseAdd(q, buf[id])
  BY DEF AddRead, MayUse, CInv, CTypeOK
<1>4. Noted(q)
  BY <1>2 DEF AddRead, Noted, CInv, CTypeOK
<1> HIDE DEF q
<1> QED BY <1>2, <1>3, <1>4, BaseAddInv

LEMMA AddWriteInv ==
    ASSUME SectorCount \in Nat, CInv, NEW id \in Ids, NEW r \in Ranges, AddWrite(id, r)
    PROVE  CInv'
<1> DEFINE q == [id |-> id, op |-> "write", start |-> r.start, count |-> r.count]
           b == Encrypt([i \in 1 .. 2 |-> Clear(ops + 1)], r.start, r.count)
<1>1. r.start \in Nat /\ r.count \in 1 .. 2 /\ r.start + r.count <= SectorCount
  BY DEF Ranges, Sectors
<1>2. /\ q \in Request /\ q.op = "write" /\ q.id = id
      /\ q.start = r.start /\ q.count = r.count
  BY <1>1 DEF Request, Ops
<1>3. ops' = ops + 1 /\ owned[id].op = "free" /\ BaseAdd(q, b) /\ UNCHANGED read_requests
  BY DEF AddWrite, MayUse
<1>4. DOMAIN b = 1 .. 2
  BY DEF Encrypt
<1>5. Sealed(b, r.start, r.count, [k \in 1 .. r.count |-> ops + 1])
  BY <1>1 DEF Sealed, Encrypt
<1>6. Noted(q)
  BY <1>2, <1>3 DEF Noted, CInv, CTypeOK
<1> HIDE DEF q, b
<1> QED BY <1>2, <1>3, <1>4, <1>5, <1>6, BaseAddInv

LEMMA AddFlushInv ==
    ASSUME SectorCount \in Nat, CInv, NEW id \in Ids, AddFlush(id)
    PROVE  CInv'
<1> DEFINE q == [id |-> id, op |-> "flush", start |-> 0, count |-> 0]
<1>1. q \in Request /\ q.op = "flush" /\ q.id = id
  BY DEF Request, Ops
<1>2. DOMAIN buf[id] = 1 .. 2 /\ ops' = ops + 1 /\ owned[id].op = "free"
      /\ BaseAdd(q, buf[id]) /\ UNCHANGED read_requests
  BY DEF AddFlush, MayUse, CInv, CTypeOK
<1>3. Noted(q)
  BY <1>1, <1>2 DEF Noted, CInv, CTypeOK
<1> HIDE DEF q
<1> QED BY <1>1, <1>2, <1>3, BaseAddInv

LEMMA BaseAnswersInv ==
    ASSUME SectorCount \in Nat, CInv, NEW r \in inflight, BaseAnswers(r)
    PROVE  CInv'
<1>1. r \in Request /\ r.id \in Ids
  BY DEF CInv, CTypeOK, Request
<1>2. InflightSound(r) /\ IsInflight(r.id) /\ ~IsFinished(r.id)
  BY <1>1 DEF CInv, IsInflight
<1>3. inflight' = {q \in inflight : q.id # r.id}
  BY DEF BaseAnswers, CInv
<1>4. DOMAIN buf[r.id] = 1 .. 2 /\ ops' \in Nat /\ Performed(r, buf[r.id], owned[r.id])
  BY <1>1 DEF BaseAnswers, CInv, CTypeOK
<1>5. Noted(r)
  BY <1>1, <1>2 DEF BaseAnswers, Noted, InflightSound, CInv, CTypeOK
<1> QED BY <1>1, <1>2, <1>3, <1>4, <1>5, PerformedInv DEF InflightSound

LEMMA PollInv ==
    ASSUME CInv, Poll
    PROVE  CInv'
<1>1. CTypeOK
  BY DEF CInv
<1>2. finished' = <<>> /\ UNCHANGED <<sync, disk, inflight, plain, ops>>
  BY DEF Poll
<1>3. /\ DOMAIN buf' = Ids /\ DOMAIN owned' = Ids /\ DOMAIN read_requests' = Ids
      /\ \A i \in Ids :
           /\ buf'[i] = IF Succeeded(i) /\ read_requests[i].count > 0
                        THEN Decrypt(buf[i], read_requests[i].start, read_requests[i].count)
                        ELSE buf[i]
           /\ read_requests'[i] = IF IsFinished(i) THEN None ELSE read_requests[i]
           /\ owned'[i] = IF IsFinished(i)
                          THEN Owner("free", owned[i].op, Succeeded(i), owned[i].count,
                                     owned[i].value)
                          ELSE owned[i]
  BY DEF Poll, AfterPoll
<1>4. \A i : ~IsFinished(i)'
  BY <1>2 DEF IsFinished
<1>5. \A i : Succeeded(i) => IsFinished(i)
  BY DEF IsFinished, Succeeded
<1>6. \A i \in Ids : ~IsFinished(i) => /\ buf'[i] = buf[i] /\ owned'[i] = owned[i]
                                        /\ read_requests'[i] = read_requests[i]
  BY <1>3, <1>5
<1>7. \A i \in Ids : IsFinished(i) =>
          /\ owned'[i].op = "free" /\ owned'[i].was = owned[i].op /\ owned'[i].ok = Succeeded(i)
          /\ owned'[i].count = owned[i].count /\ owned'[i].value = owned[i].value
  BY <1>3 DEF Owner
<1>8. CTypeOK'
  <2>1. \A i \in Ids : DOMAIN buf'[i] = 1 .. 2
    BY <1>1, <1>3 DEF CTypeOK, Decrypt
  <2>2. \A i \in Ids : owned'[i].op \in Ops \cup {"free"} /\ owned'[i].count \in 0 .. 2
    BY <1>1, <1>6, <1>7 DEF CTypeOK
  <2> QED BY <1>1, <1>2, <1>3, <2>1, <2>2 DEF CTypeOK
<1>9. DiskEncryptedOnce'
  BY <1>2 DEF CInv, DiskEncryptedOnce
<1>10. ReadsInTheClear'
  <2> SUFFICES ASSUME NEW i \in Ids, owned'[i].op = "free", owned'[i].was = "read", owned'[i].ok,
                      NEW k \in 1 .. owned'[i].count
               PROVE  buf'[i][k] = Clear(owned'[i].value[k])
    BY DEF ReadsInTheClear
  <2>1. CASE ~IsFinished(i)
    BY <1>6, <2>1 DEF CInv, ReadsInTheClear
  <2>2. CASE IsFinished(i)
    <3>1. owned[i].op = "read" /\ owned'[i].value = owned[i].value
          /\ owned'[i].count = owned[i].count
      BY <1>7, <2>2
    <3>2. Succeeded(i)
      <4>1. owned'[i].ok = Succeeded(i)
        BY <1>7, <2>2
      <4> QED BY <4>1, Zenon
    <3>3. FinishedSound(i)
      BY <3>1, <3>2 DEF CInv, Succeeded
    <3>4. owned[i].count \in 0 .. 2 /\ k \in 1 .. 2 /\ DOMAIN buf[i] = 1 .. 2
      BY <1>1, <3>1 DEF CTypeOK
    <3>5. /\ read_requests[i].start \in Nat /\ read_requests[i].count = owned[i].count
          /\ Sealed(buf[i], read_requests[i].start, owned[i].count, owned[i].value)
      BY <3>1, <3>3 DEF FinishedSound
    <3>6. buf'[i] = Decrypt(buf[i], read_requests[i].start, read_requests[i].count)
      BY <1>3, <3>1, <3>4, <3>5, <3>2
    <3>7. buf'[i][k] = Dec(buf[i][k], Tweak(read_requests[i].start, k))
      BY <3>1, <3>4, <3>5, <3>6 DEF Decrypt
    <3>8. buf[i][k] = Enc(Clear(owned[i].value[k]), Tweak(read_requests[i].start, k))
      BY <3>1, <3>5 DEF Sealed
    <3>9. Tweak(read_requests[i].start, k) \in Nat
      BY <3>4, <3>5 DEF Tweak
    <3> QED BY <3>1, <3>7, <3>8, <3>9, DecEnc
  <2> QED BY <2>1, <2>2
<1>11. ASSUME NEW q \in inflight' PROVE InflightSound(q)'
  <2>1. q \in inflight /\ q.id \in Ids
    BY <1>1, <1>2 DEF CTypeOK, Request
  <2>2. ~IsFinished(q.id)
    BY <2>1 DEF CInv, IsInflight
  <2>3. buf'[q.id] = buf[q.id] /\ owned'[q.id] = owned[q.id]
        /\ read_requests'[q.id] = read_requests[q.id]
    BY <1>6, <2>1, <2>2
  <2> QED BY <2>1, <2>3 DEF CInv, InflightSound
<1>12. \A q, p \in inflight' : q.id = p.id => q = p
  BY <1>2 DEF CInv
<1>13. \A k \in DOMAIN finished' : FALSE
  BY <1>2
<1>14. \A i : IsInflight(i)' <=> IsInflight(i)
  BY <1>2 DEF IsInflight
<1>15. \A i \in Ids : owned'[i].op # "free" <=> IsFinished(i)' \/ IsInflight(i)'
  BY <1>4, <1>6, <1>7, <1>14 DEF CInv
<1>16. \A i \in Ids : owned'[i].op # "read" => read_requests'[i].count = 0
  BY <1>3, <1>6 DEF CInv, None
<1> QED BY <1>4, <1>8, <1>9, <1>10, <1>11, <1>12, <1>13, <1>15, <1>16 DEF CInv

LEMMA CInitInv == SectorCount \in Nat /\ CInit => CInv
<1> SUFFICES ASSUME SectorCount \in Nat, CInit PROVE CInv
  OBVIOUS
<1> USE DEF CInit
<1>1. CTypeOK
  BY DEF CTypeOK, Owner
<1>2. DiskEncryptedOnce
  BY DEF DiskEncryptedOnce
<1>3. ReadsInTheClear
  BY DEF ReadsInTheClear, Owner
<1>4. \A k \in DOMAIN finished : FALSE
  OBVIOUS
<1>5. \A i : ~IsFinished(i) /\ ~IsInflight(i)
  BY <1>4 DEF IsFinished, IsInflight
<1>6. \A i \in Ids : owned[i].op = "free" /\ read_requests[i].count = 0
  BY DEF Owner, None
<1> QED BY <1>1, <1>2, <1>3, <1>4, <1>5, <1>6 DEF CInv

LEMMA CStutterInv == CInv /\ UNCHANGED vars => CInv'
<1> SUFFICES ASSUME CInv, UNCHANGED vars PROVE CInv'
  OBVIOUS
<1> USE DEF vars
<1>1. CTypeOK' /\ DiskEncryptedOnce' /\ ReadsInTheClear'
  BY DEF CInv, CTypeOK, DiskEncryptedOnce, ReadsInTheClear
<1>2. \A q \in inflight' : InflightSound(q)'
  BY DEF CInv, InflightSound
<1>3. ASSUME NEW k \in DOMAIN finished', finished'[k][2] PROVE FinishedSound(finished[k][1])'
  BY <1>3 DEF CInv, FinishedSound
<1>4. \A i : (IsFinished(i)' <=> IsFinished(i)) /\ (IsInflight(i)' <=> IsInflight(i))
  BY DEF IsFinished, IsInflight
<1> QED BY <1>1, <1>2, <1>3, <1>4 DEF CInv

LEMMA CNextInv == SectorCount \in Nat /\ CInv /\ [CNext]_vars => CInv'
<1> SUFFICES ASSUME SectorCount \in Nat, CInv, [CNext]_vars PROVE CInv'
  OBVIOUS
<1>1. ASSUME NEW id \in Ids, NEW r \in Ranges, AddRead(id, r) PROVE CInv'
  BY <1>1, AddReadInv
<1>2. ASSUME NEW id \in Ids, NEW r \in Ranges, AddWrite(id, r) PROVE CInv'
  BY <1>2, AddWriteInv
<1>3. ASSUME NEW id \in Ids, AddFlush(id) PROVE CInv'
  BY <1>3, AddFlushInv
<1>4. ASSUME NEW r \in inflight, BaseAnswers(r) PROVE CInv'
  BY <1>4, BaseAnswersInv
<1>5. CASE Poll
  BY <1>5, PollInv
<1>6. CASE UNCHANGED vars
  BY <1>6, CStutterInv
<1> QED BY <1>1, <1>2, <1>3, <1>4, <1>5, <1>6 DEF CNext

-----------------------------------------------------------------------------
\* The encrypting channel keeps its inductive invariant on a disk of any size,
\* over either kind of base channel.
THEOREM CryptInvariant == SectorCount \in Nat => (CSpec => []CInv)
<1> SUFFICES ASSUME SectorCount \in Nat PROVE CSpec => []CInv
  OBVIOUS
<1>1. CInit => CInv
  BY CInitInv
<1>2. CInv /\ [CNext]_vars => CInv'
  BY CNextInv
<1> QED BY <1>1, <1>2, PTL DEF CSpec

\* Every sector of the disk holds its last value under exactly one encryption,
\* for its own sector number, whatever requests overlap and fail.
THEOREM EncryptedExactlyOnce == SectorCount \in Nat => (CSpec => []DiskEncryptedOnce)
<1> SUFFICES ASSUME SectorCount \in Nat PROVE CSpec => []DiskEncryptedOnce
  OBVIOUS
<1>1. CInv => DiskEncryptedOnce
  BY DEF CInv
<1> QED BY <1>1, CryptInvariant, PTL

\* The buffer of a read that succeeded holds in the clear what the sectors held
\* when the device read them, as long as the owner leaves the buffer alone.
THEOREM ReadsStayClear == SectorCount \in Nat => (CSpec => []ReadsInTheClear)
<1> SUFFICES ASSUME SectorCount \in Nat PROVE CSpec => []ReadsInTheClear
  OBVIOUS
<1>1. CInv => ReadsInTheClear
  BY DEF CInv
<1> QED BY <1>1, CryptInvariant, PTL

=============================================================================
