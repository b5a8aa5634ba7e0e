---------------------------- MODULE CryptChannel ----------------------------
(***************************************************************************)
(* An encrypting channel (block_device/bdev_crypt.rs) over a synchronous   *)
(* one (bdev_sync.rs) or over one that answers later and in any order, and *)
(* an owner that uses several requests at a time.  Requests are encrypted  *)
(* and decrypted in the owner's buffer, a read when its answer is polled.  *)
(* The owner keeps the rule of every owner in this code: it touches a      *)
(* request's buffer, and uses its id again, only after its answer.         *)
(***************************************************************************)
EXTENDS XtsCipher, FiniteSets

CONSTANTS
    SectorCount,    \* sectors of the disk
    Ids,            \* request ids, each with a buffer of two sectors
    MaxOps          \* bound on the requests of the owner

VARIABLES
    sync,           \* TRUE: the base channel is a SyncIoChannel
    disk,           \* sector -> data
    buf,            \* id -> the owner's buffer
    inflight,       \* requests of the base channel it has not yet worked on
    finished,       \* answers of the base channel, in order: <<id, success>>
    read_requests,  \* id -> a read's [start, count], or none
    owned,          \* id -> the request the owner waits for, or free and the
                    \* request that was answered last
    plain,          \* history: sector -> the value last written
    ops

vars == <<sync, disk, buf, inflight, finished, read_requests, owned, plain, ops>>

Sectors == 0 .. (SectorCount - 1)
None    == [count |-> 0]
Ranges  == {r \in [start : Sectors, count : 1 .. 2] : r.start + r.count <= SectorCount}

\* What the owner knows of an id: the request it waits for (op), or the one that
\* was answered (was, ok), its sectors and their values.
Owner(op, was, ok, count, value) ==
    [op |-> op, was |-> was, ok |-> ok, count |-> count, value |-> value]

CInit ==
    /\ sync \in BOOLEAN
    /\ plain = [s \in Sectors |-> 0]
    /\ disk = [s \in Sectors |-> Enc(Clear(0), s)]
    /\ buf = [i \in Ids |-> <<Clear(0), Clear(0)>>]
    /\ inflight = {} /\ finished = <<>> /\ ops = 0
    /\ read_requests = [i \in Ids |-> None]
    /\ owned = [i \in Ids |-> Owner("free", "none", FALSE, 0, <<>>)]

Covers(r, s) == s \in r.start .. (r.start + r.count - 1)

\* What the disk and the buffer are after request r of the base channel was
\* done with buffer b: read_exact_at, write_all_at.
DiskAfter(r, b) ==
    [s \in Sectors |-> IF r.op = "write" /\ Covers(r, s)
                       THEN b[s - r.start + 1] ELSE disk[s]]
BufAfter(r, b) ==
    [i \in DOMAIN b |-> IF r.op = "read" /\ i <= r.count THEN disk[r.start + i - 1] ELSE b[i]]

\* The base channel has done r, a request of the owner's record o, with buffer
\* b, or has failed to: the answer waits for poll.
Performed(r, b, o) ==
    \E ok \in BOOLEAN :
      /\ finished' = Append(finished, <<r.id, ok>>)
      /\ disk' = IF ok THEN DiskAfter(r, b) ELSE disk
      /\ buf' = [buf EXCEPT ![r.id] = IF ok THEN BufAfter(r, b) ELSE b]
      /\ plain' = [s \in Sectors |-> IF ok /\ r.op = "write" /\ Covers(r, s)
                                     THEN o.value[1] ELSE plain[s]]
      /\ owned' = [owned EXCEPT ![r.id] =
           IF r.op = "read"
           THEN Owner(o.op, o.was, o.ok, o.count,
                      [i \in 1 .. r.count |-> plain[r.start + i - 1]])
           ELSE o]

\* The base channel's add: SyncIoChannel does the request at once, the other
\* one keeps it.
BaseAdd(r, b) ==
    LET o == Owner(r.op, "none", FALSE, r.count, <<ops + 1>>) IN
    IF sync THEN Performed(r, b, o) /\ UNCHANGED inflight
    ELSE /\ inflight' = inflight \cup {r}
         /\ buf' = [buf EXCEPT ![r.id] = b]
         /\ owned' = [owned EXCEPT ![r.id] = o]
         /\ UNCHANGED <<disk, finished, plain>>

MayUse(id) == owned[id].op = "free" /\ ops < MaxOps /\ ops' = ops + 1 /\ sync' = sync

\* CryptIoChannel::add_read.
AddRead(id, r) ==
    /\ MayUse(id)
    /\ read_requests' = [read_requests EXCEPT ![id] = r]
    /\ BaseAdd([id |-> id, op |-> "read", start |-> r.start, count |-> r.count], buf[id])

\* CryptIoChannel::add_write, of a buffer the owner has just filled.
AddWrite(id, r) ==
    /\ MayUse(id)
    /\ BaseAdd([id |-> id, op |-> "write", start |-> r.start, count |-> r.count],
               Encrypt([i \in 1 .. 2 |-> Clear(ops + 1)], r.start, r.count))
    /\ UNCHANGED read_requests

\* add_flush goes to the base channel.
AddFlush(id) ==
    /\ MayUse(id)
    /\ BaseAdd([id |-> id, op |-> "flush", start |-> 0, count |-> 0], buf[id])
    /\ UNCHANGED read_requests

\* The device of the base channel answers one of its requests.
BaseAnswers(r) ==
    /\ r \in inflight /\ inflight' = inflight \ {r}
    /\ Performed(r, buf[r.id], owned[r.id])
    /\ UNCHANGED <<sync, read_requests, ops>>

\* take() of the entries that were answered.
AfterPoll(ids) == [i \in Ids |-> IF i \in ids THEN None ELSE read_requests[i]]

\* The base channel has an answer for id i; that answer is a success.
IsFinished(i) == \E k \in DOMAIN finished : finished[k][1] = i
Succeeded(i)  == \E k \in DOMAIN finished : finished[k][1] = i /\ finished[k][2]

\* CryptIoChannel::poll: all the answers of the base channel; a read that
\* succeeded is decrypted.  The owner then has its requests back.
Poll ==
    /\ finished # <<>> /\ finished' = <<>>
    /\ buf' = [i \in Ids |->
         IF Succeeded(i) /\ read_requests[i].count > 0
         THEN Decrypt(buf[i], read_requests[i].start, read_requests[i].count)
         ELSE buf[i]]
    /\ read_requests' = AfterPoll({i \in Ids : IsFinished(i)})
    /\ owned' = [i \in Ids |->
         IF IsFinished(i)
         THEN Owner("free", owned[i].op, Succeeded(i), owned[i].count, owned[i].value)
         ELSE owned[i]]
    /\ UNCHANGED <<sync, disk, inflight, plain, ops>>

CNext ==
    \/ \E id \in Ids, r \in Ranges : AddRead(id, r) \/ AddWrite(id, r)
    \/ \E id \in Ids : AddFlush(id)
    \/ \E r \in inflight : BaseAnswers(r)
    \/ Poll

CSpec == CInit /\ [][CNext]_vars

-----------------------------------------------------------------------------
\* Every sector of the disk holds its last value, encrypted once, with its own
\* sector number, whatever requests share sectors or buffers in whatever order.
DiskEncryptedOnce == \A s \in Sectors : disk[s] = Enc(Clear(plain[s]), s)

\* The buffer of a read that was answered with success holds, in the clear,
\* what the sectors held when the device read them.
ReadsInTheClear ==
    \A i \in Ids :
      owned[i].op = "free" /\ owned[i].was = "read" /\ owned[i].ok =>
        \A k \in 1 .. owned[i].count : buf[i][k] = Clear(owned[i].value[k])

-----------------------------------------------------------------------------
(* The inductive invariant behind these properties.                        *)

Ops     == {"read", "write", "flush"}
Request == {r \in [id : Ids, op : Ops, start : Nat, count : 0 .. 2] :
              r.start + r.count <= SectorCount}

CTypeOK ==
    /\ ops \in Nat
    /\ DOMAIN buf = Ids /\ DOMAIN owned = Ids /\ DOMAIN read_requests = Ids
    /\ \A i \in Ids : DOMAIN buf[i] = 1 .. 2
    /\ inflight \subseteq Request
    /\ finished \in Seq(Ids \X BOOLEAN)
    /\ \A i \in Ids : owned[i].op \in Ops \cup {"free"} /\ owned[i].count \in 0 .. 2

\* The first count sectors of a buffer are the values, encrypted once, each for
\* its own sector.
Sealed(b, start, count, value) ==
    \A k \in 1 .. count : b[k] = Enc(Clear(value[k]), Tweak(start, k))

IsInflight(i) == \E r \in inflight : r.id = i

\* A request that the device has not worked on yet: what a write has in its
\* buffer, and that its read, if it is one, is noted as it was asked for.
InflightSound(r) ==
    /\ owned[r.id].op = r.op /\ owned[r.id].count = r.count
    /\ r.op = "write" =>
          Sealed(buf[r.id], r.start, r.count, [k \in 1 .. r.count |-> owned[r.id].value[1]])
    /\ r.op = "read" =>
          read_requests[r.id].start = r.start /\ read_requests[r.id].count = r.count

\* A read that was done and not polled: its buffer is as it came from the disk.
FinishedSound(i) ==
    owned[i].op = "read" =>
        /\ read_requests[i].start \in Nat /\ read_requests[i].count = owned[i].count
        /\ Sealed(buf[i], read_requests[i].start, owned[i].count, owned[i].value)

CInv ==
    /\ CTypeOK
    /\ DiskEncryptedOnce
    /\ ReadsInTheClear
    /\ \A r \in inflight : InflightSound(r)
    /\ \A r, q \in inflight : r.id = q.id => r = q
    /\ \A j, k \in DOMAIN finished : finished[j][1] = finished[k][1] => j = k
    /\ \A k \in DOMAIN finished : finished[k][2] => FinishedSound(finished[k][1])
    /\ \A i \in Ids : owned[i].op # "free" <=> IsFinished(i) \/ IsInflight(i)
    /\ \A i \in Ids : ~(IsFinished(i) /\ IsInflight(i))
    /\ \A i \in Ids : owned[i].op # "read" => read_requests[i].count = 0
=============================================================================
