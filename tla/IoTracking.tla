----------------------------- MODULE IoTracking -----------------------------
(***************************************************************************)
(* The record of the I/Os in flight of one queue                           *)
(* (backends/common/io_tracking.rs) and the RPC client thread that reads   *)
(* it (backends/common/rpc.rs).  The queue's thread and the RPC thread     *)
(* share nothing but atomics, so the memory is modelled at the level of    *)
(* the orderings the code asks for:                                        *)
(*   - a location is the sequence of the values stored to it;              *)
(*   - a thread's view gives, for each location, the oldest value it may   *)
(*     still load; a load may return any value that is not older;          *)
(*   - a Release store carries the view of its thread, an Acquire load     *)
(*     takes over the view that the store carried; Relaxed does neither.   *)
(*                                                                         *)
(* I/Os are numbered.  An I/O's offset and its length are abstracted to    *)
(* its number, so that a torn record can be told from a whole one; the     *)
(* byte counters, which are updated like the operation counters and just   *)
(* before them, count I/Os.                                                *)
(***************************************************************************)
EXTENDS Naturals, Sequences, FiniteSets

CONSTANTS
    SlotCount,      \* slots the tracker has: queue_size + EXTRA_TRACKING_SLOTS
    RequestSlots,   \* slots the queue uses; those >= SlotCount are a large I/O
    MaxIos,         \* bound on the I/Os of the queue
    MaxRequests     \* bound on the commands of the RPC client

Slots    == 0 .. (SlotCount - 1)
Kinds    == {"read", "write", "flush"}
Counters == {"bytes_read", "bytes_written", "read_ops", "write_ops", "flush_ops"}
Locs     == ({"kind", "offset", "length"} \X Slots) \cup (Counters \X {0})

VARIABLES
    mem,        \* location -> sequence of [val, view]
    todo,       \* the stores the queue's thread has still to make, in order
    live,       \* the slots with an I/O, by the number of the I/O
    ios,        \* history: the kind of every I/O, by number
    view,       \* the view of the RPC thread
    loads,      \* the slots or counters the RPC thread has still to load
    entry,      \* the slot being read: [slot, kind, io, got]
    response,   \* the answer being put together
    seen,       \* history: the newest I/O this client was shown
    requests    \* commands received so far

ioVars  == <<todo, live, ios>>
rpcVars == <<view, loads, entry, response, seen, requests>>
vars    == <<mem, todo, live, ios, view, loads, entry, response, seen, requests>>

NoView == [l \in Locs |-> 1]
NoIo   == [kind |-> "none", io |-> 0]     \* the kind of a free slot, 0
Idle   == [slot |-> SlotCount]

\* IoTracker::new, shared by the queue's thread and the RPC state.
IInit ==
    /\ mem = [l \in Locs |->
         << [val |-> IF l[1] = "kind" THEN NoIo ELSE 0, view |-> NoView] >>]
    /\ todo = <<>> /\ live = [s \in {} |-> 0] /\ ios = <<>>
    /\ view = NoView /\ loads = <<>> /\ entry = Idle
    /\ response = [command |-> "none"] /\ seen = 0 /\ requests = 0

-----------------------------------------------------------------------------
(* The queue's thread.                                                     *)

Last(s) == s[Len(s)]
Store(l, v, ord) == [loc |-> l, val |-> v, ord |-> ord]

\* Mutant of Tracking: the kind published with a Relaxed store.
TrackingRelaxed(kind, slot, n) ==
    IF slot \notin Slots THEN <<>> ELSE
    << Store(<<"offset", slot>>, n, "Relaxed"), Store(<<"length", slot>>, n, "Relaxed"),
       Store(<<"kind", slot>>, [kind |-> kind, io |-> n], "Relaxed") >>

\* add_read and add_write store where the I/O is and then its kind; add_flush
\* stores the kind only.  A slot beyond the tracker is not recorded.
Tracking(kind, slot, n) ==
    IF slot \notin Slots THEN <<>>
    ELSE (IF kind = "flush" THEN <<>>
          ELSE << Store(<<"offset", slot>>, n, "Relaxed"),
                  Store(<<"length", slot>>, n, "Relaxed") >>)
         \o << Store(<<"kind", slot>>, [kind |-> kind, io |-> n], "Release") >>

\* fetch_add, Relaxed, of the totals of a kind.
Counting(kind) ==
    CASE kind = "read"  -> << Store(<<"bytes_read", 0>>, 1, "Add"),
                              Store(<<"read_ops", 0>>, 1, "Add") >>
      [] kind = "write" -> << Store(<<"bytes_written", 0>>, 1, "Add"),
                              Store(<<"write_ops", 0>>, 1, "Add") >>
      [] kind = "flush" -> << Store(<<"flush_ops", 0>>, 1, "Add") >>

\* add_read, add_write, add_flush, in program order.
AddProgram(kind, slot, n) == Counting(kind) \o Tracking(kind, slot, n)

\* A request enters the queue: the frontend records it in a free slot.
AddIo(kind, slot) ==
    /\ todo = <<>> /\ Len(ios) < MaxIos /\ slot \notin DOMAIN live
    /\ ios' = Append(ios, kind)
    /\ live' = [s \in DOMAIN live \cup {slot} |->
                  IF s = slot THEN Len(ios) + 1 ELSE live[s]]
    /\ todo' = AddProgram(kind, slot, Len(ios) + 1)
    /\ UNCHANGED <<mem, rpcVars>>

\* IoTracker::clear, when the request completes.
ClearIo(slot) ==
    /\ todo = <<>> /\ slot \in DOMAIN live
    /\ live' = [s \in DOMAIN live \ {slot} |-> live[s]]
    /\ todo' = IF slot \in Slots THEN << Store(<<"kind", slot>>, NoIo, "Release") >> ELSE <<>>
    /\ UNCHANGED <<mem, ios, rpcVars>>

\* The queue's thread is the only one that stores, so its own view is the
\* end of every location.
OwnView(l) == [k \in Locs |-> IF k = l THEN Len(mem[k]) + 1 ELSE Len(mem[k])]

DoStore ==
    /\ todo # <<>>
    /\ LET s   == Head(todo)
           new == [val  |-> IF s.ord = "Add" THEN Last(mem[s.loc]).val + 1 ELSE s.val,
                   view |-> IF s.ord = "Release" THEN OwnView(s.loc) ELSE NoView]
       IN  mem' = [mem EXCEPT ![s.loc] = Append(@, new)]
    /\ todo' = Tail(todo)
    /\ UNCHANGED <<live, ios, rpcVars>>

-----------------------------------------------------------------------------
(* The RPC client thread: handle_client reads a command, process_request   *)
(* answers it.                                                             *)

Sup(v, w) == [l \in Locs |-> IF v[l] >= w[l] THEN v[l] ELSE w[l]]

\* An Acquire or a Relaxed load of l that returns its i-th value.
Load(l, i, ord) ==
    /\ i \in view[l] .. Len(mem[l])
    /\ view' = LET here == [view EXCEPT ![l] = i]
               IN  IF ord = "Acquire" THEN Sup(here, mem[l][i].view) ELSE here

SeqOf(n) == [i \in 1 .. n |-> i - 1]

\* "queues" walks the slots of the tracker, "stats" the counters; the other
\* commands, a line that is no JSON and an empty line load nothing.
Receive(command) ==
    /\ loads = <<>> /\ entry.slot = SlotCount /\ requests < MaxRequests
    /\ requests' = requests + 1
    /\ loads' = CASE command = "queues" -> SeqOf(SlotCount)
                  [] command = "stats"  -> <<"bytes_read", "bytes_written", "read_ops",
                                             "write_ops", "flush_ops">>
                  [] OTHER -> <<>>
    /\ response' = CASE command = "queues" -> [command |-> command, ios |-> {}]
                     [] command = "stats"  -> [command |-> command,
                                               stats |-> [c \in {} |-> 0]]
                     [] command = ""       -> response
                     [] OTHER              -> [command |-> command]
    /\ UNCHANGED <<mem, ioVars, view, entry, seen>>

\* snapshot: a slot whose kind is 0 is left out.
SnapshotKind(i) ==
    /\ loads # <<>> /\ response.command = "queues" /\ entry.slot = SlotCount
    /\ LET l == <<"kind", Head(loads)>> IN
       /\ Load(l, i, "Acquire")
       /\ IF mem[l][i].val = NoIo
          THEN loads' = Tail(loads) /\ entry' = Idle
          ELSE /\ entry' = [slot |-> Head(loads), kind |-> mem[l][i].val.kind,
                            io |-> mem[l][i].val.io, got |-> <<>>]
               /\ loads' = loads
    /\ UNCHANGED <<mem, ioVars, response, seen, requests>>

\* ... of the others the offset and then the length are loaded.
SnapshotField(i) ==
    /\ entry.slot # SlotCount /\ Len(entry.got) < 2
    /\ LET l == <<IF entry.got = <<>> THEN "offset" ELSE "length", entry.slot>> IN
       /\ Load(l, i, "Relaxed")
       /\ entry' = [entry EXCEPT !.got = Append(@, mem[l][i].val)]
    /\ UNCHANGED <<mem, ioVars, loads, response, seen, requests>>

\* queue_snapshots: the answer has no place for a flush.
SnapshotEntry ==
    /\ entry.slot # SlotCount /\ Len(entry.got) = 2
    /\ response' = [response EXCEPT !.ios = @ \cup
         {[kind |-> entry.kind, io |-> entry.io,
           where |-> IF entry.kind = "flush" THEN <<>> ELSE entry.got]}]
    /\ seen' = IF entry.io > seen THEN entry.io ELSE seen
    /\ loads' = Tail(loads) /\ entry' = Idle
    /\ UNCHANGED <<mem, ioVars, view, requests>>

\* cumulative_stats.
LoadCounter(i) ==
    /\ loads # <<>> /\ response.command = "stats"
    /\ LET c == Head(loads) IN
       /\ Load(<<c, 0>>, i, "Relaxed")
       /\ response' = [response EXCEPT !.stats =
            [d \in DOMAIN @ \cup {c} |-> IF d = c THEN mem[<<c, 0>>][i].val ELSE @[d]]]
    /\ loads' = Tail(loads)
    /\ UNCHANGED <<mem, ioVars, entry, seen, requests>>

Done == todo = <<>> /\ Len(ios) = MaxIos /\ live = [s \in {} |-> 0]
        /\ loads = <<>> /\ entry.slot = SlotCount /\ requests = MaxRequests /\ UNCHANGED vars

INext ==
    \/ \E k \in Kinds, s \in RequestSlots : AddIo(k, s)
    \/ \E s \in RequestSlots : ClearIo(s)
    \/ DoStore
    \/ \E c \in {"queues", "stats", "version", ""} : Receive(c)
    \/ \E i \in 1 .. (2 * MaxIos + 1) :
          SnapshotKind(i) \/ SnapshotField(i) \/ LoadCounter(i)
    \/ SnapshotEntry
    \/ Done

ISpec == IInit /\ [][INext]_vars

-----------------------------------------------------------------------------
\* A read or a write in a "queues" answer is never shown with the offset or
\* the length of an I/O that used the slot before it: the kind is stored last,
\* with Release, and loaded first, with Acquire (add_read, snapshot).
EntriesNotStale ==
    response.command = "queues" =>
      \A e \in response.ios : \A j \in DOMAIN e.where : e.where[j] >= e.io

CountOf(kind, n) == Cardinality({j \in 1 .. n : ios[j] = kind})

\* A client that was shown an I/O finds it, and all that came before it on its
\* queue, in the totals of a later "stats" answer: the counters are updated
\* before the record is published.
StatsIncludeSeen ==
    response.command = "stats" /\ loads = <<>> =>
      /\ response.stats["read_ops"]      >= CountOf("read", seen)
      /\ response.stats["bytes_read"]    >= CountOf("read", seen)
      /\ response.stats["write_ops"]     >= CountOf("write", seen)
      /\ response.stats["bytes_written"] >= CountOf("write", seen)
      /\ response.stats["flush_ops"]     >= CountOf("flush", seen)

-----------------------------------------------------------------------------
(* The inductive invariant behind these properties.                        *)

Fields == {"offset", "length"}
KindOf(c) == CASE c \in {"bytes_read", "read_ops"}     -> "read"
               [] c \in {"bytes_written", "write_ops"} -> "write"
               [] c = "flush_ops"                      -> "flush"

Views    == [Locs -> Nat \ {0}]
IoOfKind == [kind : Kinds, io : Nat] \cup {NoIo}
Cells(l) == [val : IF l[1] = "kind" THEN IoOfKind ELSE Nat, view : Views]
Shown    == [kind : Kinds, io : Nat, where : Seq(Nat)]
Stores(ord) ==
    [loc : CASE ord = "Add"     -> Counters \X {0}
             [] ord = "Relaxed" -> Fields \X Slots
             [] ord = "Release" -> {"kind"} \X Slots,
     val : IF ord = "Release" THEN IoOfKind ELSE Nat, ord : {ord}]

ITypeOK ==
    /\ mem = [l \in Locs |-> mem[l]]
    /\ \A l \in Locs : mem[l] \in Seq(Cells(l)) \ {<<>>}
    /\ Len(todo) \in Nat /\ todo = [k \in 1 .. Len(todo) |-> todo[k]]
    /\ \A k \in DOMAIN todo : /\ todo[k].ord \in {"Add", "Relaxed", "Release"}
                              /\ todo[k] \in Stores(todo[k].ord)
    /\ ios \in Seq(Kinds) /\ view \in Views
    /\ loads \in Seq(IF response.command = "queues" THEN Slots ELSE Counters)
    /\ \/ entry = Idle
       \/ /\ entry \in [slot : Slots, kind : Kinds, io : Nat, got : Seq(Nat)]
          /\ response.command = "queues" /\ loads # <<>>
    /\ \/ response \in [command : {"none", "version"}] /\ loads = <<>>
       \/ response \in [command : {"queues"}, ios : SUBSET Shown]
       \/ /\ response = [command |-> "stats", stats |-> response.stats]
          /\ DOMAIN response.stats \subseteq Counters
          /\ response.stats \in [DOMAIN response.stats -> Nat]
    /\ seen \in 0 .. Len(ios)

\* With the view v a thread loads of every counter a value that includes the
\* first n I/Os, and of the fields of slot s none that is older than I/O n.
Covers(v, n) == \A c \in Counters : v[<<c, 0>>] > CountOf(KindOf(c), n)
Fresh(v, s, n) ==
    \A f \in Fields : \A i \in v[<<f, s>>] .. Len(mem[<<f, s>>]) : mem[<<f, s>>][i].val >= n

\* The i-th value of a counter is i - 1, and only the stores still to be made
\* keep it from the number of I/Os.
CountersFollow ==
    \A c \in Counters :
      /\ \A i \in DOMAIN mem[<<c, 0>>] : mem[<<c, 0>>][i].val = i - 1
      /\ \/ Len(mem[<<c, 0>>]) > CountOf(KindOf(c), Len(ios))
         \/ /\ Len(mem[<<c, 0>>]) = CountOf(KindOf(c), Len(ios))
            /\ \E j \in DOMAIN todo : todo[j].loc = <<c, 0>>

\* The kind is stored last, and the fields before it are the I/O's own.
KindStoredLast ==
    \A k \in DOMAIN todo :
      /\ todo[k].ord = "Relaxed" => todo[k].val = Len(ios)
      /\ todo[k].ord = "Release" =>
           /\ k = Len(todo)
           /\ todo[k].val # NoIo => todo[k].val.io = Len(ios) /\ ios # <<>>
           /\ todo[k].val # NoIo /\ todo[k].val.kind # "flush" =>
                \A f \in Fields :
                  LET l == <<f, todo[k].loc[2]>>
                  IN  Last(mem[l]).val >= Len(ios) \/ \E j \in 1 .. (k - 1) : todo[j].loc = l

\* A published kind carries a view that covers its I/O.
PublishedSound ==
    \A s \in Slots : \A i \in DOMAIN mem[<<"kind", s>>] :
      LET m == mem[<<"kind", s>>][i] IN
      m.val # NoIo =>
        /\ m.val.io \in 1 .. Len(ios) /\ Covers(m.view, m.val.io)
        /\ m.val.kind # "flush" => Fresh(m.view, s, m.val.io)

\* What the RPC thread has taken over from it while it reads the slot, and
\* keeps of the newest I/O it has shown.
EntrySound ==
    entry # Idle =>
        /\ entry.io \in 1 .. Len(ios) /\ Covers(view, entry.io)
        /\ entry.kind # "flush" =>
             /\ Fresh(view, entry.slot, entry.io)
             /\ \A j \in DOMAIN entry.got : entry.got[j] >= entry.io
SeenCovered == Covers(view, seen)

StatsSoFar ==
    response.command = "stats" =>
      \A c \in Counters :
        \/ c \in DOMAIN response.stats /\ response.stats[c] >= CountOf(KindOf(c), seen)
        \/ c \notin DOMAIN response.stats /\ \E j \in DOMAIN loads : loads[j] = c

IInv ==
    /\ ITypeOK
    /\ CountersFollow
    /\ KindStoredLast
    /\ PublishedSound
    /\ EntrySound
    /\ SeenCovered
    /\ EntriesNotStale
    /\ StatsSoFar
=============================================================================
