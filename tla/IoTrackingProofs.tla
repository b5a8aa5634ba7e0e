-------------------------- MODULE IoTrackingProofs --------------------------
(***************************************************************************)
(* The tracker of a queue and the RPC thread that reads it, for every      *)
(* number of slots, I/Os and commands, on the weak memory of IoTracking.   *)
(***************************************************************************)
EXTENDS IoTracking, FiniteSetTheorems, SequenceTheorems, TLAPS

\* The tracker has a number of slots, possibly none.
TrackerAssumption == SlotCount \in Nat

-----------------------------------------------------------------------------
(* Locations, and the number of I/Os of a kind.                            *)

LEMMA Locations ==
    /\ \A c \in Counters : <<c, 0>> \in Locs /\ KindOf(c) \in Kinds
    /\ \A f \in Fields, s \in Slots : <<f, s>> \in Locs
    /\ \A s \in Slots : <<"kind", s>> \in Locs
    /\ \A l \in Locs : \/ \E c \in Counters : l = <<c, 0>> /\ l[1] # "kind"
                       \/ \E f \in Fields, s \in Slots : l = <<f, s>> /\ l[1] # "kind"
                       \/ \E s \in Slots : l = <<"kind", s>> /\ l[1] = "kind"
BY DEF Locs, Counters, Fields, KindOf, Kinds

LEMMA LocationsApart ==
    /\ \A c, d \in Counters : <<c, 0>> = <<d, 0>> => c = d
    /\ \A c \in Counters, f \in Fields, s \in Slots : <<c, 0>> # <<f, s>>
    /\ \A c \in Counters, s \in Slots : <<c, 0>> # <<"kind", s>>
    /\ \A f \in Fields, s, t \in Slots : <<f, s>> # <<"kind", t>>
    /\ \A f, g \in Fields, s, t \in Slots : <<f, s>> = <<g, t>> => f = g /\ s = t
BY DEF Counters, Fields

LEMMA CountNat ==
    ASSUME NEW kind, NEW n \in Nat
    PROVE  CountOf(kind, n) \in Nat
<1>1. IsFiniteSet(1 .. n)
  BY FS_Interval
<1>2. IsFiniteSet({j \in 1 .. n : ios[j] = kind})
  BY <1>1, FS_Subset
<1> QED BY <1>2, FS_CardinalityType DEF CountOf

LEMMA CountZero == \A kind : CountOf(kind, 0) = 0
<1> SUFFICES ASSUME NEW kind PROVE CountOf(kind, 0) = 0
  OBVIOUS
<1>1. {j \in 1 .. 0 : ios[j] = kind} = {}
  OBVIOUS
<1> QED BY <1>1, FS_EmptySet DEF CountOf

\* What a new I/O does to the counts.
LEMMA CountKept ==
    ASSUME NEW kind, NEW k, ios \in Seq(Kinds), ios' = Append(ios, k),
           NEW n \in 0 .. Len(ios)
    PROVE  CountOf(kind, n)' = CountOf(kind, n)
<1>1. {j \in 1 .. n : ios'[j] = kind} = {j \in 1 .. n : ios[j] = kind}
  OBVIOUS
<1> QED BY <1>1 DEF CountOf

LEMMA CountNext ==
    ASSUME NEW kind, NEW k, ios \in Seq(Kinds), ios' = Append(ios, k)
    PROVE  CountOf(kind, Len(ios))' =
              IF k = kind THEN CountOf(kind, Len(ios)) + 1 ELSE CountOf(kind, Len(ios))
<1> DEFINE N == Len(ios)
<1> DEFINE S == {j \in 1 .. N : ios[j] = kind}
<1>0. N \in Nat /\ Len(ios') = N + 1 /\ ios'[N + 1] = k /\ \A j \in 1 .. N : ios'[j] = ios[j]
  OBVIOUS
<1>1. IsFiniteSet(S)
  <2>1. IsFiniteSet(1 .. N)
    BY <1>0, FS_Interval
  <2> QED BY <2>1, FS_Subset
<1>2. CASE k = kind
  <2>1. {j \in 1 .. (N + 1) : ios'[j] = kind} = S \cup {N + 1} /\ (N + 1) \notin S
    BY <1>0, <1>2
  <2>2. Cardinality(S \cup {N + 1}) = Cardinality(S) + 1
    BY <1>1, <2>1, FS_AddElement
  <2> QED BY <2>1, <2>2, <1>0, <1>2 DEF CountOf
<1>3. CASE k # kind
  <2>1. {j \in 1 .. (N + 1) : ios'[j] = kind} = S
    BY <1>0, <1>3
  <2> QED BY <2>1, <1>0, <1>3 DEF CountOf
<1> QED BY <1>2, <1>3

-----------------------------------------------------------------------------
(* What a state and a store look like.                                     *)

Ords == {"Add", "Relaxed", "Release"}

LEMMA MemFacts ==
    ASSUME ITypeOK, NEW l \in Locs
    PROVE  /\ mem[l] \in Seq(Cells(l)) /\ Len(mem[l]) \in Nat \ {0}
           /\ DOMAIN mem[l] = 1 .. Len(mem[l])
           /\ Last(mem[l]) = mem[l][Len(mem[l])]
           /\ \A i \in DOMAIN mem[l] : mem[l][i] \in Cells(l)
           /\ \A i \in DOMAIN mem[l] : mem[l][i].view \in Views
           /\ l[1] = "kind" => \A i \in DOMAIN mem[l] : mem[l][i].val \in IoOfKind
           /\ l[1] # "kind" => \A i \in DOMAIN mem[l] : mem[l][i].val \in Nat
<1>1. mem[l] \in Seq(Cells(l)) /\ mem[l] # <<>>
  BY DEF ITypeOK
<1>2. Len(mem[l]) \in Nat \ {0} /\ DOMAIN mem[l] = 1 .. Len(mem[l])
      /\ \A i \in DOMAIN mem[l] : mem[l][i] \in Cells(l)
  BY <1>1
<1> QED BY <1>1, <1>2 DEF Cells, Last

LEMMA TodoFacts ==
    ASSUME ITypeOK
    PROVE  /\ todo \in Seq(UNION {Stores(o) : o \in Ords})
           /\ Len(todo) \in Nat /\ DOMAIN todo = 1 .. Len(todo)
           /\ \A k \in DOMAIN todo : todo[k].ord \in Ords /\ todo[k] \in Stores(todo[k].ord)
<1>1. Len(todo) \in Nat /\ todo = [k \in 1 .. Len(todo) |-> todo[k]]
  BY DEF ITypeOK
<1>2. DOMAIN todo = 1 .. Len(todo)
  BY <1>1
<1>3. \A k \in DOMAIN todo : todo[k].ord \in Ords /\ todo[k] \in Stores(todo[k].ord)
  BY DEF ITypeOK, Ords
<1>4. \A k \in DOMAIN todo : todo[k] \in UNION {Stores(o) : o \in Ords}
  BY <1>3
<1>5. todo \in [1 .. Len(todo) -> UNION {Stores(o) : o \in Ords}]
  BY <1>1, <1>2, <1>4
<1>6. todo \in Seq(UNION {Stores(o) : o \in Ords})
  BY <1>1, <1>5
<1> QED BY <1>1, <1>2, <1>3, <1>6

LEMMA StoreKinds ==
    ASSUME NEW o \in Ords, NEW t \in Stores(o)
    PROVE  /\ t.ord = o
           /\ o = "Add"     => \E c \in Counters : t.loc = <<c, 0>>
           /\ o = "Relaxed" => t.val \in Nat /\ \E f \in Fields, s \in Slots : t.loc = <<f, s>>
           /\ o = "Release" => t.val \in IoOfKind /\ \E s \in Slots : t.loc = <<"kind", s>>
<1>1. CASE o = "Add"
  BY <1>1 DEF Stores
<1>2. CASE o = "Relaxed"
  BY <1>2 DEF Stores
<1>3. CASE o = "Release"
  BY <1>3 DEF Stores
<1> QED BY <1>1, <1>2, <1>3 DEF Ords

\* A store takes the first of the list and adds one value to one location.
LEMMA StoreMade ==
    ASSUME ITypeOK, DoStore, NEW t, t = todo[1],
           NEW new, new = [val  |-> IF t.ord = "Add" THEN Last(mem[t.loc]).val + 1 ELSE t.val,
                           view |-> IF t.ord = "Release" THEN OwnView(t.loc) ELSE NoView]
    PROVE  /\ t.ord \in Ords /\ t \in Stores(t.ord) /\ t.loc \in Locs
           /\ Len(todo) >= 1 /\ Len(todo') = Len(todo) - 1
           /\ DOMAIN todo' = 1 .. Len(todo') /\ \A k \in DOMAIN todo' : todo'[k] = todo[k + 1]
           /\ mem' = [mem EXCEPT ![t.loc] = Append(mem[t.loc], new)]
           /\ mem'[t.loc] = Append(mem[t.loc], new)
           /\ \A l \in Locs : l # t.loc => mem'[l] = mem[l]
           /\ UNCHANGED <<live, ios, rpcVars>>
<1>1. Len(todo) \in Nat /\ Len(todo) >= 1 /\ 1 \in DOMAIN todo /\ Head(todo) = t
  BY TodoFacts DEF DoStore
<1>2. t.ord \in Ords /\ t \in Stores(t.ord)
  BY <1>1, TodoFacts
<1>3. t.loc \in Locs
  <2>1. \/ \E c \in Counters : t.loc = <<c, 0>>
        \/ \E f \in Fields, s \in Slots : t.loc = <<f, s>>
        \/ \E s \in Slots : t.loc = <<"kind", s>>
    BY <1>2, StoreKinds DEF Ords
  <2> QED BY <2>1, Locations
<1>4. Len(todo') = Len(todo) - 1 /\ DOMAIN todo' = 1 .. Len(todo')
      /\ \A k \in DOMAIN todo' : todo'[k] = todo[k + 1]
  BY <1>1, TodoFacts DEF DoStore
<1>5. mem' = [mem EXCEPT ![t.loc] = Append(mem[t.loc], new)]
  BY <1>1 DEF DoStore
<1>6. mem = [l \in Locs |-> mem[l]]
  BY DEF ITypeOK
<1> QED BY <1>1, <1>2, <1>3, <1>4, <1>5, <1>6 DEF DoStore

\* What was stored stays, one value is added to one location.
LEMMA StoreAdds ==
    ASSUME ITypeOK, DoStore, NEW l \in Locs
    PROVE  /\ Len(mem'[l]) \in Nat \ {0} /\ DOMAIN mem'[l] = 1 .. Len(mem'[l])
           /\ Len(mem'[l]) = IF l = todo[1].loc THEN Len(mem[l]) + 1 ELSE Len(mem[l])
           /\ \A i \in 1 .. Len(mem[l]) : mem'[l][i] = mem[l][i]
           /\ l = todo[1].loc /\ todo[1].ord # "Add" => mem'[l][Len(mem'[l])].val = todo[1].val
           /\ l = todo[1].loc /\ todo[1].ord = "Add" =>
                 mem'[l][Len(mem'[l])].val = mem[l][Len(mem[l])].val + 1
           /\ l = todo[1].loc /\ todo[1].ord = "Release" =>
                 mem'[l][Len(mem'[l])].view = OwnView(todo[1].loc)
           /\ l = todo[1].loc /\ todo[1].ord # "Release" =>
                 mem'[l][Len(mem'[l])].view = NoView
<1> DEFINE t == todo[1]
<1> DEFINE new == [val  |-> IF t.ord = "Add" THEN Last(mem[t.loc]).val + 1 ELSE t.val,
                   view |-> IF t.ord = "Release" THEN OwnView(t.loc) ELSE NoView]
<1>1. mem'[t.loc] = Append(mem[t.loc], new) /\ t.loc \in Locs
      /\ (l # t.loc => mem'[l] = mem[l])
  BY StoreMade
<1>2. mem[l] \in Seq(Cells(l)) /\ Len(mem[l]) \in Nat \ {0} /\ DOMAIN mem[l] = 1 .. Len(mem[l])
      /\ Last(mem[l]) = mem[l][Len(mem[l])]
  BY MemFacts
<1>3. CASE l # t.loc
  BY <1>1, <1>2, <1>3
<1>4. CASE l = t.loc
  <2> HIDE DEF new
  <2>1. Len(mem'[l]) = Len(mem[l]) + 1 /\ DOMAIN mem'[l] = 1 .. Len(mem'[l])
        /\ \A i \in 1 .. Len(mem[l]) : mem'[l][i] = mem[l][i]
        /\ mem'[l][Len(mem'[l])] = new
    BY <1>1, <1>2, <1>4
  <2> QED BY <2>1, <1>2, <1>4 DEF new
<1> QED BY <1>3, <1>4

-----------------------------------------------------------------------------
(* The program of an I/O.                                                  *)

LEMMA Joined ==
    ASSUME NEW S, NEW s \in Seq(S), NEW t \in Seq(S), NEW u \in Seq(S),
           Len(u) = Len(s) + Len(t), \A i \in 1 .. Len(u) : (s \o t)[i] = u[i]
    PROVE  s \o t = u
<1>1. s \o t \in Seq(S) /\ Len(s \o t) = Len(u)
  BY ConcatProperties
<1> QED BY <1>1, SeqEqual

LEMMA Concatenated ==
    ASSUME NEW a, NEW b, NEW c
    PROVE  /\ <<>> \o <<a>> = <<a>> /\ <<a>> \o <<>> = <<a>> /\ <<a, b>> \o <<>> = <<a, b>>
           /\ <<a>> \o <<b>> = <<a, b>> /\ <<a, b>> \o <<c>> = <<a, b, c>>
<1>1. <<>> \o <<a>> = <<a>> /\ <<a>> \o <<>> = <<a>> /\ <<a, b>> \o <<>> = <<a, b>>
  OBVIOUS
<1>2. <<a>> \o <<b>> = <<a, b>>
  <2> DEFINE s == <<a>>  t == <<b>>  u == <<a, b>>  S == {a, b}
  <2>1. s \in Seq(S) /\ t \in Seq(S) /\ u \in Seq(S) /\ Len(u) = Len(s) + Len(t)
    OBVIOUS
  <2>2. \A i \in 1 .. Len(u) : (s \o t)[i] = u[i]
    OBVIOUS
  <2> QED BY <2>1, <2>2, Joined, Zenon
<1>3. <<a, b>> \o <<c>> = <<a, b, c>>
  <2> DEFINE s == <<a, b>>  t == <<c>>  u == <<a, b, c>>  S == {a, b, c}
  <2>1. s \in Seq(S) /\ t \in Seq(S) /\ u \in Seq(S) /\ Len(u) = Len(s) + Len(t)
    OBVIOUS
  <2>2. \A i \in 1 .. Len(u) : (s \o t)[i] = u[i]
    OBVIOUS
  <2> QED BY <2>1, <2>2, Joined, Zenon
<1> QED BY <1>1, <1>2, <1>3

LEMMA FiveConcatenated ==
    ASSUME NEW a, NEW b, NEW c, NEW d, NEW e
    PROVE  <<a, b>> \o <<c, d, e>> = <<a, b, c, d, e>>
<1> DEFINE s == <<a, b>>  t == <<c, d, e>>  u == <<a, b, c, d, e>>  S == {a, b, c, d, e}
<1>1. s \in Seq(S) /\ t \in Seq(S) /\ u \in Seq(S) /\ Len(u) = Len(s) + Len(t)
  OBVIOUS
<1>2. \A i \in 1 .. Len(u) : (s \o t)[i] = u[i]
  OBVIOUS
<1> QED BY <1>1, <1>2, Joined, Zenon

Added(c)                   == Store(<<c, 0>>, 1, "Add")
Located(f, slot, n)        == Store(<<f, slot>>, n, "Relaxed")
Published(kind, slot, n)   == Store(<<"kind", slot>>, [kind |-> kind, io |-> n], "Release")

\* What the stores of an I/O are, in order.
LEMMA Programs ==
    ASSUME NEW kind \in Kinds, NEW slot, NEW n \in Nat
    PROVE  /\ kind = "read" /\ slot \in Slots => AddProgram(kind, slot, n) =
                <<Added("bytes_read"), Added("read_ops"), Located("offset", slot, n),
                  Located("length", slot, n), Published(kind, slot, n)>>
           /\ kind = "write" /\ slot \in Slots => AddProgram(kind, slot, n) =
                <<Added("bytes_written"), Added("write_ops"), Located("offset", slot, n),
                  Located("length", slot, n), Published(kind, slot, n)>>
           /\ kind = "flush" /\ slot \in Slots =>
                AddProgram(kind, slot, n) = <<Added("flush_ops"), Published(kind, slot, n)>>
           /\ kind = "read" /\ slot \notin Slots =>
                AddProgram(kind, slot, n) = <<Added("bytes_read"), Added("read_ops")>>
           /\ kind = "write" /\ slot \notin Slots =>
                AddProgram(kind, slot, n) = <<Added("bytes_written"), Added("write_ops")>>
           /\ kind = "flush" /\ slot \notin Slots =>
                AddProgram(kind, slot, n) = <<Added("flush_ops")>>
<1>1. /\ kind = "read" => Counting(kind) = <<Added("bytes_read"), Added("read_ops")>>
      /\ kind = "write" => Counting(kind) = <<Added("bytes_written"), Added("write_ops")>>
      /\ kind = "flush" => Counting(kind) = <<Added("flush_ops")>>
  BY DEF Counting, Added
<1>2. /\ slot \notin Slots => Tracking(kind, slot, n) = <<>>
      /\ slot \in Slots /\ kind = "flush" =>
            Tracking(kind, slot, n) = <<>> \o <<Published(kind, slot, n)>>
      /\ slot \in Slots /\ kind # "flush" =>
            Tracking(kind, slot, n) = <<Located("offset", slot, n), Located("length", slot, n)>>
                                      \o <<Published(kind, slot, n)>>
  BY DEF Tracking, Located, Published
<1>3. /\ slot \in Slots /\ kind = "flush" =>
            Tracking(kind, slot, n) = <<Published(kind, slot, n)>>
      /\ slot \in Slots /\ kind # "flush" =>
            Tracking(kind, slot, n) = <<Located("offset", slot, n), Located("length", slot, n),
                                        Published(kind, slot, n)>>
  BY <1>2, Concatenated, Zenon
<1>4. ASSUME kind = "read", slot \in Slots
     PROVE  AddProgram(kind, slot, n) =
       <<Added("bytes_read"), Added("read_ops"),
         Located("offset", slot, n), Located("length", slot, n),
         Published(kind, slot, n)>>
  <2>1. AddProgram(kind, slot, n) =
          <<Added("bytes_read"), Added("read_ops")>>
          \o <<Located("offset", slot, n), Located("length", slot, n),
               Published(kind, slot, n)>>
    BY <1>4, <1>1, <1>3 DEF AddProgram
  <2> QED BY <2>1, FiveConcatenated, Zenon
<1>5. ASSUME kind = "write", slot \in Slots
     PROVE  AddProgram(kind, slot, n) =
       <<Added("bytes_written"), Added("write_ops"),
         Located("offset", slot, n), Located("length", slot, n),
         Published(kind, slot, n)>>
  <2>1. AddProgram(kind, slot, n) =
          <<Added("bytes_written"), Added("write_ops")>>
          \o <<Located("offset", slot, n), Located("length", slot, n),
               Published(kind, slot, n)>>
    BY <1>5, <1>1, <1>3 DEF AddProgram
  <2> QED BY <2>1, FiveConcatenated, Zenon
<1>6. ASSUME kind = "flush", slot \in Slots
     PROVE  AddProgram(kind, slot, n) =
       <<Added("flush_ops"),
         Published(kind, slot, n)>>
  <2>1. AddProgram(kind, slot, n) =
          <<Added("flush_ops")>>
          \o <<Published(kind, slot, n)>>
    BY <1>6, <1>1, <1>3 DEF AddProgram
  <2> QED BY <2>1, Concatenated, Zenon
<1>7. ASSUME kind = "read", slot \notin Slots
     PROVE  AddProgram(kind, slot, n) =
       <<Added("bytes_read"), Added("read_ops")>>
  BY <1>7, <1>1, <1>2, Concatenated, Zenon DEF AddProgram
<1>8. ASSUME kind = "write", slot \notin Slots
     PROVE  AddProgram(kind, slot, n) =
       <<Added("bytes_written"), Added("write_ops")>>
  BY <1>8, <1>1, <1>2, Concatenated, Zenon DEF AddProgram
<1>9. ASSUME kind = "flush", slot \notin Slots
     PROVE  AddProgram(kind, slot, n) =
       <<Added("flush_ops")>>
  BY <1>9, <1>1, <1>2, Concatenated, Zenon DEF AddProgram
<1> QED BY <1>4, <1>5, <1>6, <1>7, <1>8, <1>9

\* The stores are of the right type, count the I/O, and publish it last.
ProgramOf(p, kind, n) ==
    /\ Len(p) \in Nat /\ p = [k \in 1 .. Len(p) |-> p[k]]
    /\ \A k \in DOMAIN p : p[k].ord \in Ords /\ p[k] \in Stores(p[k].ord)
    /\ \A c \in Counters : KindOf(c) = kind => \E j \in DOMAIN p : p[j].loc = <<c, 0>>
    /\ \A k \in DOMAIN p :
         /\ p[k].ord = "Relaxed" => p[k].val = n
         /\ p[k].ord = "Release" =>
              /\ k = Len(p) /\ p[k].val = [kind |-> kind, io |-> n]
              /\ kind # "flush" =>
                   \A f \in Fields : \E j \in 1 .. (k - 1) : p[j].loc = <<f, p[k].loc[2]>>

LEMMA PublishedStore ==
    ASSUME NEW kind \in Kinds, NEW slot \in Slots, NEW n \in Nat
    PROVE  /\ Published(kind, slot, n) \in Stores("Release")
           /\ Published(kind, slot, n).ord = "Release"
           /\ Published(kind, slot, n).loc[2] = slot
           /\ Published(kind, slot, n).val = [kind |-> kind, io |-> n]
BY DEF Published, Store, Stores, IoOfKind

LEMMA ProgramStores ==
    ASSUME NEW n \in Nat
    PROVE  /\ \A c \in Counters :
                /\ Added(c) \in Stores("Add") /\ Added(c).ord = "Add"
                /\ Added(c).loc = <<c, 0>>
           /\ \A f \in Fields, slot \in Slots :
                /\ Located(f, slot, n) \in Stores("Relaxed")
                /\ Located(f, slot, n).ord = "Relaxed"
                /\ Located(f, slot, n).loc = <<f, slot>> /\ Located(f, slot, n).val = n
           /\ \A kind \in Kinds, slot \in Slots :
                /\ Published(kind, slot, n) \in Stores("Release")
                /\ Published(kind, slot, n).ord = "Release"
                /\ Published(kind, slot, n).loc[2] = slot
                /\ Published(kind, slot, n).val = [kind |-> kind, io |-> n]
<1>1. \A c \in Counters : Added(c) \in Stores("Add") /\ Added(c).ord = "Add"
                          /\ Added(c).loc = <<c, 0>>
  BY DEF Added, Store, Stores
<1>2. \A f \in Fields, slot \in Slots :
        /\ Located(f, slot, n) \in Stores("Relaxed") /\ Located(f, slot, n).ord = "Relaxed"
        /\ Located(f, slot, n).loc = <<f, slot>> /\ Located(f, slot, n).val = n
  BY DEF Located, Store, Stores
<1>3. \A kind \in Kinds, slot \in Slots :
        /\ Published(kind, slot, n) \in Stores("Release")
        /\ Published(kind, slot, n).ord = "Release"
        /\ Published(kind, slot, n).loc[2] = slot
        /\ Published(kind, slot, n).val = [kind |-> kind, io |-> n]
  BY PublishedStore
<1> QED BY <1>1, <1>2, <1>3

\* The three shapes a program has.
LEMMA LongProgram ==
    ASSUME NEW kind \in Kinds, NEW n \in Nat, NEW slot \in Slots, NEW c \in Counters,
           NEW d \in Counters, \A e \in Counters : KindOf(e) = kind => e \in {c, d},
           NEW p
    PROVE  p = <<Added(c), Added(d), Located("offset", slot, n),
                 Located("length", slot, n), Published(kind, slot, n)>>
             => ProgramOf(p, kind, n)
<1>p. SUFFICES ASSUME p = <<Added(c), Added(d), Located("offset", slot, n),
                            Located("length", slot, n), Published(kind, slot, n)>>
               PROVE  ProgramOf(p, kind, n)
  OBVIOUS
<1>0. Published(kind, slot, n) \in Stores("Release") /\ Published(kind, slot, n).ord = "Release"
  BY DEF Published, Store, Stores, IoOfKind
<1>1. Len(p) = 5 /\ p = [k \in 1 .. 5 |-> p[k]] /\ DOMAIN p = 1 .. 5
  BY <1>p
<1>2. /\ p[1] = Added(c) /\ p[2] = Added(d) /\ p[3] = Located("offset", slot, n)
      /\ p[4] = Located("length", slot, n) /\ p[5] = Published(kind, slot, n)
  BY <1>p
<1>3. \A k \in DOMAIN p : k = 1 \/ k = 2 \/ k = 3 \/ k = 4 \/ k = 5
  BY <1>1
<1>4. \A k \in DOMAIN p : p[k].ord \in Ords /\ p[k] \in Stores(p[k].ord)
  <2>1. /\ p[1] \in Stores("Add") /\ p[1].ord = "Add"
        /\ p[2] \in Stores("Add") /\ p[2].ord = "Add"
    BY <1>2, ProgramStores
  <2>2. /\ p[3] \in Stores("Relaxed") /\ p[3].ord = "Relaxed"
        /\ p[4] \in Stores("Relaxed") /\ p[4].ord = "Relaxed"
    BY <1>2, ProgramStores DEF Fields
  <2>3. p[5] \in Stores("Release") /\ p[5].ord = "Release"
    BY <1>0, <1>2
  <2> QED BY <1>3, <2>1, <2>2, <2>3 DEF Ords
<1>5. \A e \in Counters : KindOf(e) = kind => \E j \in DOMAIN p : p[j].loc = <<e, 0>>
  <2>1. p[1].loc = <<c, 0>> /\ p[2].loc = <<d, 0>> /\ 1 \in DOMAIN p /\ 2 \in DOMAIN p
    BY <1>1, <1>2, ProgramStores
  <2> QED BY <2>1
<1>6. /\ p[1].ord = "Add" /\ p[2].ord = "Add" /\ p[3].ord = "Relaxed" /\ p[3].val = n
      /\ p[4].ord = "Relaxed" /\ p[4].val = n /\ p[5].ord = "Release"
      /\ p[5].val = [kind |-> kind, io |-> n] /\ p[5].loc[2] = slot
      /\ p[3].loc = <<"offset", slot>> /\ p[4].loc = <<"length", slot>>
  BY <1>2, ProgramStores DEF Fields
<1>7. \A f \in Fields : \E j \in 1 .. 4 : p[j].loc = <<f, p[5].loc[2]>>
  BY <1>6 DEF Fields
<1>8. \A k \in DOMAIN p : p[k].ord = "Relaxed" => p[k].val = n
  BY <1>3, <1>6
<1>9. \A k \in DOMAIN p : p[k].ord = "Release" => k = 5
  BY <1>3, <1>6
<1> QED BY <1>1, <1>4, <1>5, <1>6, <1>7, <1>8, <1>9 DEF ProgramOf

LEMMA FlushProgram ==
    ASSUME NEW n \in Nat, NEW slot \in Slots,
           NEW p
    PROVE  p = <<Added("flush_ops"), Published("flush", slot, n)>> => ProgramOf(p, "flush", n)
<1>p. SUFFICES ASSUME p = <<Added("flush_ops"), Published("flush", slot, n)>>
               PROVE  ProgramOf(p, "flush", n)
  OBVIOUS
<1>1. Len(p) = 2 /\ p = [k \in 1 .. 2 |-> p[k]] /\ DOMAIN p = 1 .. 2
      /\ p[1] = Added("flush_ops") /\ p[2] = Published("flush", slot, n)
  BY <1>p
<1>2. \A k \in DOMAIN p : k = 1 \/ k = 2
  BY <1>1
<1>3. "flush_ops" \in Counters /\ "flush" \in Kinds
  BY DEF Counters, Kinds
<1>4. /\ p[1] \in Stores("Add") /\ p[1].ord = "Add" /\ p[1].loc = <<"flush_ops", 0>>
      /\ p[2] \in Stores("Release") /\ p[2].ord = "Release"
      /\ p[2].val = [kind |-> "flush", io |-> n]
  BY <1>1, <1>3, ProgramStores
<1>5. \A e \in Counters : KindOf(e) = "flush" => e = "flush_ops"
  BY DEF Counters, KindOf
<1> QED BY <1>1, <1>2, <1>4, <1>5 DEF ProgramOf, Ords

LEMMA UntrackedProgram ==
    ASSUME NEW kind \in Kinds, NEW n \in Nat, NEW c \in Counters, NEW d \in Counters,
           \A e \in Counters : KindOf(e) = kind => e \in {c, d},
           NEW p
    PROVE  p = <<Added(c), Added(d)>> \/ (c = d /\ p = <<Added(c)>>) => ProgramOf(p, kind, n)
<1>p. SUFFICES ASSUME p = <<Added(c), Added(d)>> \/ (c = d /\ p = <<Added(c)>>)
               PROVE  ProgramOf(p, kind, n)
  OBVIOUS
<1>1. /\ Len(p) \in {1, 2} /\ p = [k \in 1 .. Len(p) |-> p[k]] /\ DOMAIN p = 1 .. Len(p)
      /\ p[1] = Added(c) /\ (Len(p) = 2 => p[2] = Added(d)) /\ (c = d \/ Len(p) = 2)
  BY <1>p
<1>2. \A k \in DOMAIN p : k = 1 \/ (k = 2 /\ Len(p) = 2)
  BY <1>1
<1>3. \A k \in DOMAIN p : p[k] \in Stores("Add") /\ p[k].ord = "Add"
  BY <1>1, <1>2, ProgramStores
<1>4. \A e \in Counters : KindOf(e) = kind => \E j \in DOMAIN p : p[j].loc = <<e, 0>>
  BY <1>1, ProgramStores
<1>5. \A k \in DOMAIN p : p[k].ord \in Ords /\ p[k] \in Stores(p[k].ord)
                          /\ p[k].ord # "Relaxed" /\ p[k].ord # "Release"
  BY <1>3 DEF Ords
<1>6. Len(p) \in Nat
  BY <1>1
<1> QED BY <1>1, <1>4, <1>5, <1>6 DEF ProgramOf

LEMMA ProgramFacts ==
    ASSUME NEW kind \in Kinds, NEW slot, NEW n \in Nat
    PROVE  ProgramOf(AddProgram(kind, slot, n), kind, n)
<1>1. \A c \in Counters :
        /\ KindOf(c) = "read" => c \in {"bytes_read", "read_ops"}
        /\ KindOf(c) = "write" => c \in {"bytes_written", "write_ops"}
        /\ KindOf(c) = "flush" => c \in {"flush_ops", "flush_ops"}
  BY DEF KindOf, Counters
<1>2. /\ "bytes_read" \in Counters /\ "read_ops" \in Counters /\ "flush_ops" \in Counters
      /\ "bytes_written" \in Counters /\ "write_ops" \in Counters
  BY DEF Counters
<1>3. CASE kind = "read" /\ slot \in Slots
  <2>1. \A c \in Counters : KindOf(c) = kind => c \in {"bytes_read", "read_ops"}
    BY <1>1, <1>3
  <2>2. AddProgram(kind, slot, n) =
          <<Added("bytes_read"), Added("read_ops"), Located("offset", slot, n),
            Located("length", slot, n), Published(kind, slot, n)>>
    BY <1>3, Programs
  <2> QED BY <2>1, <2>2, <1>2, <1>3, LongProgram, Zenon
<1>4. CASE kind = "write" /\ slot \in Slots
  <2>1. \A c \in Counters : KindOf(c) = kind => c \in {"bytes_written", "write_ops"}
    BY <1>1, <1>4
  <2>2. AddProgram(kind, slot, n) =
          <<Added("bytes_written"), Added("write_ops"), Located("offset", slot, n),
            Located("length", slot, n), Published(kind, slot, n)>>
    BY <1>4, Programs
  <2> QED BY <2>1, <2>2, <1>2, <1>4, LongProgram, Zenon
<1>5. CASE kind = "flush" /\ slot \in Slots
  BY <1>5, Programs, FlushProgram, Zenon
<1>6. CASE kind = "read" /\ slot \notin Slots
  BY <1>1, <1>2, <1>6, Programs, UntrackedProgram, Zenon
<1>7. CASE kind = "write" /\ slot \notin Slots
  BY <1>1, <1>2, <1>7, Programs, UntrackedProgram, Zenon
<1>8. CASE kind = "flush" /\ slot \notin Slots
  BY <1>1, <1>2, <1>8, Programs, UntrackedProgram, Zenon
<1> QED BY <1>3, <1>4, <1>5, <1>6, <1>7, <1>8 DEF Kinds

-----------------------------------------------------------------------------
(* The steps of the queue's thread.                                        *)

LEMMA InitTracked == ASSUME TrackerAssumption, IInit PROVE IInv
<1>1. \A l \in Locs : mem[l] = << [val |-> IF l[1] = "kind" THEN NoIo ELSE 0, view |-> NoView] >>
  BY DEF IInit
<1>2. NoView \in Views /\ NoIo \in IoOfKind
  BY DEF NoView, Views, IoOfKind
<1>3. \A l \in Locs : mem[l] \in Seq(Cells(l)) \ {<<>>}
  <2> SUFFICES ASSUME NEW l \in Locs PROVE mem[l] \in Seq(Cells(l)) \ {<<>>}
    OBVIOUS
  <2> DEFINE first == [val |-> IF l[1] = "kind" THEN NoIo ELSE 0, view |-> NoView]
  <2>1. first \in Cells(l)
    BY <1>2 DEF Cells
  <2>2. mem[l] = <<first>>
    BY <1>1
  <2> HIDE DEF first
  <2> QED BY <2>1, <2>2
<1>4. ITypeOK
  BY <1>2, <1>3 DEF ITypeOK, IInit
<1>5. \A c \in Counters : mem[<<c, 0>>] = << [val |-> 0, view |-> NoView] >>
  <2> SUFFICES ASSUME NEW c \in Counters
               PROVE  mem[<<c, 0>>] = << [val |-> 0, view |-> NoView] >>
    OBVIOUS
  <2>1. <<c, 0>> \in Locs /\ <<c, 0>>[1] # "kind"
    BY Locations DEF Counters
  <2> QED BY <2>1, <1>1
<1>6. CountersFollow
  <2>1. \A c \in Counters : CountOf(KindOf(c), Len(ios)) = 0
    <3>1. Len(ios) = 0
      BY DEF IInit
    <3> QED BY <3>1, CountZero, Zenon
  <2>2. \A c \in Counters : /\ Len(mem[<<c, 0>>]) = 1
                            /\ \A i \in DOMAIN mem[<<c, 0>>] : mem[<<c, 0>>][i].val = i - 1
    <3> SUFFICES ASSUME NEW c \in Counters, NEW q, q = mem[<<c, 0>>]
                 PROVE  Len(q) = 1 /\ \A i \in DOMAIN q : q[i].val = i - 1
      OBVIOUS
    <3>1. q = << [val |-> 0, view |-> NoView] >>
      BY <1>5
    <3> QED BY <3>1
  <2>3. \A c \in Counters : Len(mem[<<c, 0>>]) > CountOf(KindOf(c), Len(ios))
    <3> SUFFICES ASSUME NEW c \in Counters, NEW m, m = Len(mem[<<c, 0>>]),
                        NEW k, k = CountOf(KindOf(c), Len(ios))
                 PROVE  m > k
      OBVIOUS
    <3>1. m = 1 /\ k = 0
      BY <2>1, <2>2
    <3> QED BY <3>1
  <2> QED BY <2>2, <2>3 DEF CountersFollow
<1>7. SeenCovered
  <2>1. \A c \in Counters : CountOf(KindOf(c), seen) = 0
    <3>1. seen = 0
      BY DEF IInit
    <3> QED BY <3>1, CountZero, Zenon
  <2>2. \A c \in Counters : view[<<c, 0>>] = 1
    BY Locations DEF NoView, IInit
  <2>3. \A c \in Counters : view[<<c, 0>>] > CountOf(KindOf(c), seen)
    <3> SUFFICES ASSUME NEW c \in Counters, NEW m, m = view[<<c, 0>>],
                        NEW k, k = CountOf(KindOf(c), seen)
                 PROVE  m > k
      OBVIOUS
    <3>1. m = 1 /\ k = 0
      BY <2>1, <2>2
    <3> QED BY <3>1
  <2> QED BY <2>3 DEF SeenCovered, Covers
<1>8. PublishedSound
  <2>1. \A s \in Slots : mem[<<"kind", s>>] = << [val |-> NoIo, view |-> NoView] >>
    BY <1>1, Locations
  <2> QED BY <2>1 DEF PublishedSound
<1> QED BY <1>4, <1>6, <1>7, <1>8
        DEF IInit, IInv, KindStoredLast, EntrySound, EntriesNotStale, StatsSoFar

LEMMA AddKeeps ==
    ASSUME IInv, NEW kind \in Kinds, NEW slot, AddIo(kind, slot)
    PROVE  IInv'
<1> DEFINE N == Len(ios)
<1>0. /\ ITypeOK /\ ios \in Seq(Kinds) /\ N \in Nat /\ todo = <<>>
      /\ ios' = Append(ios, kind) /\ Len(ios') = N + 1 /\ ios' \in Seq(Kinds) /\ ios' # <<>>
      /\ UNCHANGED <<mem, view, loads, entry, response, seen>>
  <2>1. ITypeOK
    BY DEF IInv
  <2>2. ios \in Seq(Kinds)
    BY <2>1 DEF ITypeOK
  <2>3. todo = <<>> /\ ios' = Append(ios, kind)
    BY DEF AddIo
  <2>4. UNCHANGED <<mem, view, loads, entry, response, seen>>
    BY DEF AddIo, rpcVars
  <2>5. N \in Nat /\ Len(ios') = N + 1 /\ ios' \in Seq(Kinds) /\ ios' # <<>>
    BY <2>2, <2>3
  <2> QED BY <2>1, <2>2, <2>3, <2>4, <2>5
<1>1. ProgramOf(todo', kind, N + 1)
  BY <1>0, ProgramFacts DEF AddIo
<1>2. \A k \in Kinds : \A n \in 0 .. N : CountOf(k, n)' = CountOf(k, n)
  BY <1>0, CountKept
<1>3. \A k \in Kinds : CountOf(k, Len(ios))' =
                          IF kind = k THEN CountOf(k, N) + 1 ELSE CountOf(k, N)
  BY <1>0, CountNext
<1>4. \A c \in Counters : KindOf(c) \in Kinds
  BY Locations
<1> HIDE DEF N
<1>5. ITypeOK'
  <2>1. Len(todo') \in Nat /\ todo' = [k \in 1 .. Len(todo') |-> todo'[k]]
    BY <1>1 DEF ProgramOf
  <2>2. \A k \in DOMAIN todo' : todo'[k].ord \in Ords /\ todo'[k] \in Stores(todo'[k].ord)
    BY <1>1 DEF ProgramOf
  <2>3. seen' \in 0 .. Len(ios')
    BY <1>0 DEF ITypeOK, N
  <2> QED BY <1>0, <2>1, <2>2, <2>3 DEF ITypeOK, Ords
<1>6. CountersFollow'
  <2> SUFFICES ASSUME NEW c \in Counters
               PROVE  \/ Len(mem[<<c, 0>>]) > CountOf(KindOf(c), Len(ios))'
                      \/ /\ Len(mem[<<c, 0>>]) = CountOf(KindOf(c), Len(ios))'
                         /\ \E j \in DOMAIN todo' : todo'[j].loc = <<c, 0>>
    BY <1>0 DEF IInv, CountersFollow
  <2>1. Len(mem[<<c, 0>>]) > CountOf(KindOf(c), N)
    BY <1>0 DEF IInv, CountersFollow, N
  <2>2. Len(mem[<<c, 0>>]) \in Nat /\ CountOf(KindOf(c), N) \in Nat
    BY <1>0, MemFacts, Locations, CountNat
  <2>3. CASE KindOf(c) = kind
    <3>1. CountOf(KindOf(c), Len(ios))' = CountOf(KindOf(c), N) + 1
      BY <1>3, <1>4, <2>3
    <3>2. \E j \in DOMAIN todo' : todo'[j].loc = <<c, 0>>
      BY <1>1, <2>3 DEF ProgramOf
    <3> QED BY <2>1, <2>2, <3>1, <3>2
  <2>4. CASE KindOf(c) # kind
    <3>1. CountOf(KindOf(c), Len(ios))' = CountOf(KindOf(c), N)
      BY <1>3, <1>4, <2>4
    <3> QED BY <2>1, <3>1
  <2> QED BY <2>3, <2>4
<1>7. KindStoredLast'
  <2> SUFFICES ASSUME NEW k \in DOMAIN todo'
               PROVE  /\ todo'[k].ord = "Relaxed" => todo'[k].val = Len(ios')
                      /\ todo'[k].ord = "Release" =>
                           /\ k = Len(todo')
                           /\ todo'[k].val.io = Len(ios')
                           /\ todo'[k].val.kind # "flush" =>
                                \A f \in Fields : \E j \in 1 .. (k - 1) :
                                    todo'[j].loc = <<f, todo'[k].loc[2]>>
    BY <1>0 DEF KindStoredLast
  <2>1. todo'[k].ord = "Relaxed" => todo'[k].val = N + 1
    BY <1>1 DEF ProgramOf
  <2>2. ASSUME todo'[k].ord = "Release"
        PROVE  k = Len(todo') /\ todo'[k].val = [kind |-> kind, io |-> N + 1]
               /\ (kind # "flush" => \A f \in Fields : \E j \in 1 .. (k - 1) :
                                        todo'[j].loc = <<f, todo'[k].loc[2]>>)
    BY <1>1, <2>2 DEF ProgramOf
  <2>3. Len(ios') = N + 1
    BY <1>0 DEF N
  <2>4. ASSUME todo'[k].ord = "Release"
        PROVE  todo'[k].val.io = N + 1 /\ todo'[k].val.kind = kind
    BY <2>2, <2>4
  <2> QED BY <2>1, <2>2, <2>3, <2>4
<1>8. \A v : \A n \in 0 .. N : Covers(v, n) =>
                \A c \in Counters : v[<<c, 0>>] > CountOf(KindOf(c), n)'
  BY <1>2, <1>4 DEF Covers
<1>9. PublishedSound'
  <2> SUFFICES ASSUME NEW s \in Slots, NEW i \in DOMAIN mem[<<"kind", s>>],
                      NEW m, m = mem[<<"kind", s>>][i], m.val # NoIo
               PROVE  /\ m.val.io \in 1 .. (N + 1)
                      /\ \A c \in Counters : m.view[<<c, 0>>] > CountOf(KindOf(c), m.val.io)'
                      /\ m.val.kind # "flush" => Fresh(m.view, s, m.val.io)'
    BY <1>0 DEF PublishedSound, Covers
  <2>1. m.val.io \in 1 .. N /\ Covers(m.view, m.val.io)
        /\ (m.val.kind # "flush" => Fresh(m.view, s, m.val.io))
    BY DEF IInv, PublishedSound, N
  <2>2. m.val.io \in 0 .. N /\ m.val.io \in 1 .. (N + 1)
    BY <2>1, <1>0
  <2> QED BY <1>0, <1>8, <2>1, <2>2 DEF Fresh
<1>10. EntrySound'
  <2> SUFFICES ASSUME entry # Idle
               PROVE  /\ entry.io \in 1 .. (N + 1)
                      /\ \A c \in Counters : view[<<c, 0>>] > CountOf(KindOf(c), entry.io)'
                      /\ entry.kind # "flush" =>
                           /\ Fresh(view, entry.slot, entry.io)
                           /\ \A j \in DOMAIN entry.got : entry.got[j] >= entry.io
    BY <1>0 DEF EntrySound, Covers, Fresh, Idle
  <2>1. entry.io \in 1 .. N /\ Covers(view, entry.io)
        /\ (entry.kind # "flush" =>
              /\ Fresh(view, entry.slot, entry.io)
              /\ \A j \in DOMAIN entry.got : entry.got[j] >= entry.io)
    BY DEF IInv, EntrySound, N
  <2>2. entry.io \in 0 .. N /\ entry.io \in 1 .. (N + 1)
    BY <2>1, <1>0
  <2> QED BY <1>0, <1>8, <2>1, <2>2
<1>11. \A c \in Counters : CountOf(KindOf(c), seen)' = CountOf(KindOf(c), seen)
  <2>1. seen \in 0 .. N
    BY <1>0 DEF ITypeOK, N
  <2> QED BY <1>0, <1>2, <1>4, <2>1
<1>12. SeenCovered'
  BY <1>0, <1>11 DEF IInv, SeenCovered, Covers
<1>13. StatsSoFar'
  BY <1>0, <1>11 DEF IInv, StatsSoFar
<1>14. EntriesNotStale'
  BY <1>0 DEF IInv, EntriesNotStale
<1> QED BY <1>5, <1>6, <1>7, <1>9, <1>10, <1>12, <1>13, <1>14 DEF IInv

LEMMA ClearKeeps ==
    ASSUME IInv, NEW slot, ClearIo(slot)
    PROVE  IInv'
<1>0. ITypeOK /\ todo = <<>> /\ UNCHANGED <<mem, ios, view, loads, entry, response, seen>>
  BY DEF IInv, ClearIo, rpcVars
<1> DEFINE t == Store(<<"kind", slot>>, NoIo, "Release")
<1>1. t.ord = "Release" /\ t.val = NoIo /\ (slot \in Slots => t \in Stores("Release"))
  BY DEF Store, Stores, IoOfKind
<1>2. todo' = <<>> \/ (slot \in Slots /\ todo' = <<t>>)
  BY DEF ClearIo
<1> HIDE DEF t
<1>3. Len(todo') \in Nat /\ todo' = [k \in 1 .. Len(todo') |-> todo'[k]]
  <2>1. CASE todo' = <<>>
    BY <2>1
  <2>2. CASE todo' = <<t>>
    BY <2>2
  <2> QED BY <1>2, <2>1, <2>2
<1>4. \A k \in DOMAIN todo' : k = Len(todo') /\ todo'[k] = t /\ slot \in Slots
  <2>1. CASE todo' = <<>>
    BY <2>1
  <2>2. CASE slot \in Slots /\ todo' = <<t>>
    BY <2>2
  <2> QED BY <1>2, <2>1, <2>2
<1>5. \A k \in DOMAIN todo' : /\ todo'[k].ord = "Release" /\ todo'[k].val = NoIo
                              /\ todo'[k] \in Stores("Release")
  BY <1>1, <1>4
<1>6. ITypeOK'
  BY <1>0, <1>3, <1>5 DEF ITypeOK
<1>7. CountersFollow'
  <2> SUFFICES ASSUME NEW c \in Counters
               PROVE  /\ \A i \in DOMAIN mem[<<c, 0>>] : mem[<<c, 0>>][i].val = i - 1
                      /\ Len(mem[<<c, 0>>]) > CountOf(KindOf(c), Len(ios))'
    BY <1>0 DEF CountersFollow
  <2>1. /\ \A i \in DOMAIN mem[<<c, 0>>] : mem[<<c, 0>>][i].val = i - 1
        /\ Len(mem[<<c, 0>>]) > CountOf(KindOf(c), Len(ios))
    BY <1>0 DEF IInv, CountersFollow
  <2>2. CountOf(KindOf(c), Len(ios))' = CountOf(KindOf(c), Len(ios))
    BY <1>0 DEF CountOf
  <2> QED BY <2>1, <2>2
<1>8. KindStoredLast'
  BY <1>4, <1>5 DEF KindStoredLast
<1>9. PublishedSound' /\ EntrySound' /\ SeenCovered' /\ StatsSoFar' /\ EntriesNotStale'
  BY <1>0 DEF IInv, PublishedSound, EntrySound, SeenCovered, StatsSoFar, EntriesNotStale,
              Covers, Fresh, CountOf, Idle
<1> QED BY <1>6, <1>7, <1>8, <1>9 DEF IInv

\* The places a store can be to.
LEMMA StorePlaces ==
    ASSUME ITypeOK, NEW k \in DOMAIN todo
    PROVE  /\ todo[k].ord = "Add" =>
                 \E c \in Counters : todo[k].loc = <<c, 0>>
           /\ todo[k].ord = "Relaxed" => todo[k].val \in Nat
           /\ todo[k].ord = "Release" =>
                 /\ todo[k].loc[2] \in Slots /\ todo[k].loc = <<"kind", todo[k].loc[2]>>
                 /\ todo[k].val \in IoOfKind
           /\ \A c \in Counters : todo[k].loc = <<c, 0>> => todo[k].ord = "Add"
           /\ \A f \in Fields, s \in Slots : todo[k].loc = <<f, s>> => todo[k].ord = "Relaxed"
           /\ \A s \in Slots : todo[k].loc = <<"kind", s>> => todo[k].ord = "Release"
<1>1. todo[k].ord \in Ords /\ todo[k] \in Stores(todo[k].ord)
  BY TodoFacts
<1>2. CASE todo[k].ord = "Add"
  BY <1>1, <1>2, StoreKinds, LocationsApart
<1>3. CASE todo[k].ord = "Relaxed"
  BY <1>1, <1>3, StoreKinds, LocationsApart
<1>4. CASE todo[k].ord = "Release"
  BY <1>1, <1>4, StoreKinds, LocationsApart
<1> QED BY <1>1, <1>2, <1>3, <1>4 DEF Ords

\* A store is never older than an I/O that was there.
LEMMA FreshKept ==
    ASSUME IInv, DoStore, NEW v \in Views, NEW s \in Slots, NEW n \in 0 .. Len(ios),
           Fresh(v, s, n)
    PROVE  \A f \in Fields : \A i \in v[<<f, s>>] .. Len(mem'[<<f, s>>]) :
               mem'[<<f, s>>][i].val >= n
<1> SUFFICES ASSUME NEW f \in Fields, NEW l, l = <<f, s>>, NEW i \in v[l] .. Len(mem'[l])
             PROVE  mem'[l][i].val >= n
  OBVIOUS
<1>1. ITypeOK /\ l \in Locs /\ v[l] \in Nat \ {0} /\ Len(ios) \in Nat /\ 1 \in DOMAIN todo
  <2>1. ITypeOK
    BY DEF IInv
  <2>2. l \in Locs
    BY Locations
  <2>3. v[l] \in Nat \ {0}
    BY <2>2 DEF Views
  <2>4. Len(ios) \in Nat
    BY <2>1 DEF ITypeOK
  <2>5. 1 \in DOMAIN todo
    BY <2>1, TodoFacts DEF DoStore
  <2> QED BY <2>1, <2>2, <2>3, <2>4, <2>5
<1>2. Len(mem[l]) \in Nat
  BY <1>1, MemFacts
<1>3. CASE i <= Len(mem[l])
  <2>1. mem'[l][i] = mem[l][i]
    BY <1>1, <1>2, <1>3, StoreAdds
  <2> QED BY <2>1, <1>1, <1>2, <1>3 DEF Fresh
<1>4. CASE i > Len(mem[l])
  <2>1. l = todo[1].loc /\ i = Len(mem'[l])
    BY <1>1, <1>2, <1>4, StoreAdds
  <2>2. todo[1].ord = "Relaxed"
    BY <1>1, <2>1, StorePlaces
  <2>3. todo[1].val = Len(ios)
    BY <1>1, <2>2 DEF IInv, KindStoredLast
  <2>4. mem'[l][i].val = Len(ios)
    BY <1>1, <2>1, <2>2, <2>3, StoreAdds
  <2> QED BY <2>4, <1>1
<1> QED BY <1>1, <1>2, <1>3, <1>4

LEMMA StoreKeeps ==
    ASSUME IInv, DoStore
    PROVE  IInv'
<1> DEFINE N == Len(ios)
<1>0. /\ ITypeOK /\ N \in Nat /\ 1 \in DOMAIN todo /\ todo[1].loc \in Locs
      /\ UNCHANGED <<ios, view, loads, entry, response, seen>>
  <2>1. ITypeOK
    BY DEF IInv
  <2>2. N \in Nat /\ 1 \in DOMAIN todo
    BY <2>1, TodoFacts DEF ITypeOK, DoStore
  <2>3. todo[1].loc \in Locs /\ UNCHANGED rpcVars /\ ios' = ios
    BY <2>1, StoreMade
  <2> QED BY <2>1, <2>2, <2>3 DEF rpcVars
<1>1. /\ Len(todo) \in Nat /\ DOMAIN todo = 1 .. Len(todo) /\ Len(todo) >= 1
      /\ Len(todo') = Len(todo) - 1 /\ Len(todo') \in Nat
      /\ DOMAIN todo' = 1 .. Len(todo') /\ \A k \in DOMAIN todo' : todo'[k] = todo[k + 1]
  <2>1. Len(todo) \in Nat /\ DOMAIN todo = 1 .. Len(todo)
    BY <1>0, TodoFacts
  <2>2. Len(todo) >= 1 /\ Len(todo') = Len(todo) - 1 /\ DOMAIN todo' = 1 .. Len(todo')
    BY <1>0, StoreMade
  <2>3. \A k \in DOMAIN todo' : todo'[k] = todo[k + 1]
    BY <1>0, StoreMade
  <2> QED BY <2>1, <2>2, <2>3
<1>2. \A j \in DOMAIN todo : j # 1 => (j - 1) \in DOMAIN todo' /\ todo'[j - 1] = todo[j]
  BY <1>1
<1>3. \A k, n : CountOf(k, n)' = CountOf(k, n)
  BY <1>0 DEF CountOf
<1>4. ITypeOK'
  <2>1. mem' = [l \in Locs |-> mem'[l]]
    <3>1. mem = [l \in Locs |-> mem[l]]
      BY <1>0 DEF ITypeOK
    <3> QED BY <3>1 DEF DoStore
  <2>2. ASSUME NEW l \in Locs PROVE mem'[l] \in Seq(Cells(l)) \ {<<>>}
    <3>1. mem[l] \in Seq(Cells(l)) \ {<<>>}
      BY <1>0 DEF ITypeOK
    <3>2. CASE l # todo[1].loc
      BY <1>0, <3>1, <3>2, StoreMade
    <3>3. CASE l = todo[1].loc
      <4> DEFINE t == todo[1]
                 new == [val  |-> IF t.ord = "Add" THEN Last(mem[t.loc]).val + 1 ELSE t.val,
                         view |-> IF t.ord = "Release" THEN OwnView(t.loc) ELSE NoView]
      <4>1. mem'[l] = Append(mem[l], new)
        BY <1>0, <3>3, StoreMade
      <4>2. OwnView(t.loc) \in Views /\ NoView \in Views
        <5>1. \A k \in Locs : Len(mem[k]) \in Nat \ {0}
          BY <1>0, MemFacts
        <5> QED BY <5>1 DEF OwnView, NoView, Views
      <4>3. t.ord \in Ords
        BY <1>0, TodoFacts
      <4>4. CASE t.ord = "Add"
        <5>1. PICK c \in Counters : l = <<c, 0>>
          BY <1>0, <3>3, <4>4, StorePlaces
        <5>2. l[1] # "kind"
          BY <5>1 DEF Counters
        <5>3. Last(mem[l]).val \in Nat
          BY <1>0, <5>2, MemFacts
        <5>4. new.val \in Nat /\ new \in [val : Nat, view : Views]
          BY <3>3, <4>2, <4>4, <5>3
        <5>5. new \in Cells(l)
          BY <5>2, <5>4 DEF Cells
        <5> HIDE DEF new
        <5> QED BY <3>1, <4>1, <5>5
      <4>5. CASE t.ord = "Relaxed"
        <5>1. t.val \in Nat /\ \E f \in Fields, s \in Slots : l = <<f, s>>
          <6>1. t \in Stores("Relaxed")
            BY <1>0, <4>5, TodoFacts
          <6> QED BY <6>1, <3>3, StoreKinds DEF Ords
        <5>2. l[1] # "kind"
          BY <5>1 DEF Fields
        <5>3. new \in Cells(l)
          BY <4>2, <4>5, <5>1, <5>2 DEF Cells
        <5> HIDE DEF new
        <5> QED BY <3>1, <4>1, <5>3
      <4>6. CASE t.ord = "Release"
        <5>1. t.val \in IoOfKind /\ l[1] = "kind"
          BY <1>0, <3>3, <4>6, StorePlaces
        <5>2. new \in Cells(l)
          BY <4>2, <4>6, <5>1 DEF Cells
        <5> HIDE DEF new
        <5> QED BY <3>1, <4>1, <5>2
      <4> QED BY <4>3, <4>4, <4>5, <4>6 DEF Ords
    <3> QED BY <3>2, <3>3
  <2>3. Len(todo') \in Nat /\ todo' = [k \in 1 .. Len(todo') |-> todo'[k]]
    <3>1. todo \in Seq(UNION {Stores(o) : o \in Ords}) /\ todo # <<>> /\ todo' = Tail(todo)
      BY <1>0, TodoFacts DEF DoStore
    <3>2. todo' \in Seq(UNION {Stores(o) : o \in Ords})
      BY <3>1
    <3> QED BY <3>2
  <2>4. \A k \in DOMAIN todo' : todo'[k].ord \in Ords /\ todo'[k] \in Stores(todo'[k].ord)
    <3>1. \A k \in DOMAIN todo' : (k + 1) \in DOMAIN todo
      BY <1>1
    <3> QED BY <1>0, <1>1, <3>1, TodoFacts
  <2> QED BY <1>0, <2>1, <2>2, <2>3, <2>4 DEF ITypeOK, Ords
<1>5. CountersFollow'
  <2> SUFFICES ASSUME NEW c \in Counters, NEW l, l = <<c, 0>>
               PROVE  /\ \A i \in DOMAIN mem'[l] : mem'[l][i].val = i - 1
                      /\ \/ Len(mem'[l]) > CountOf(KindOf(c), N)
                         \/ /\ Len(mem'[l]) = CountOf(KindOf(c), N)
                            /\ \E j \in DOMAIN todo' : todo'[j].loc = l
    BY <1>0, <1>3 DEF CountersFollow
  <2>1. l \in Locs /\ Len(mem[l]) \in Nat \ {0} /\ DOMAIN mem[l] = 1 .. Len(mem[l])
    BY <1>0, Locations, MemFacts
  <2>2. CountOf(KindOf(c), N) \in Nat
    BY <1>0, CountNat
  <2>3. /\ \A i \in DOMAIN mem[l] : mem[l][i].val = i - 1
        /\ \/ Len(mem[l]) > CountOf(KindOf(c), N)
           \/ /\ Len(mem[l]) = CountOf(KindOf(c), N)
              /\ \E j \in DOMAIN todo : todo[j].loc = l
    BY DEF IInv, CountersFollow
  <2>4. /\ DOMAIN mem'[l] = 1 .. Len(mem'[l])
        /\ Len(mem'[l]) = IF l = todo[1].loc THEN Len(mem[l]) + 1 ELSE Len(mem[l])
        /\ \A i \in 1 .. Len(mem[l]) : mem'[l][i] = mem[l][i]
    BY <1>0, <2>1, StoreAdds
  <2>5. CASE l = todo[1].loc
    <3>1. todo[1].ord = "Add"
      BY <1>0, <2>5, StorePlaces
    <3>2. mem'[l][Len(mem'[l])].val = mem[l][Len(mem[l])].val + 1
      BY <1>0, <2>1, <2>5, <3>1, StoreAdds
    <3>3. mem[l][Len(mem[l])].val = Len(mem[l]) - 1
      BY <2>1, <2>3
    <3>4. ASSUME NEW i \in DOMAIN mem'[l] PROVE mem'[l][i].val = i - 1
      <4>1. CASE i \in 1 .. Len(mem[l])
        BY <4>1, <2>1, <2>3, <2>4
      <4>2. CASE i = Len(mem'[l])
        <5>1. mem'[l][Len(mem'[l])].val = (Len(mem[l]) - 1) + 1
          BY <3>2, <3>3
        <5>2. Len(mem'[l]) = Len(mem[l]) + 1
          BY <2>4, <2>5
        <5> QED BY <4>2, <5>1, <5>2, <2>1
      <4> QED BY <4>1, <4>2, <2>1, <2>4, <2>5
    <3>5. Len(mem[l]) >= CountOf(KindOf(c), N)
      BY <2>1, <2>2, <2>3
    <3>6. Len(mem'[l]) > CountOf(KindOf(c), N)
      BY <2>1, <2>2, <2>4, <2>5, <3>5
    <3> QED BY <3>4, <3>6
  <2>6. CASE l # todo[1].loc
    <3>1. \A j \in DOMAIN todo : todo[j].loc = l => \E k \in DOMAIN todo' : todo'[k].loc = l
      BY <1>2, <2>6
    <3> QED BY <2>1, <2>3, <2>4, <2>6, <3>1
  <2> QED BY <2>5, <2>6
<1>6. KindStoredLast'
  <2> SUFFICES ASSUME NEW k \in DOMAIN todo', NEW t, t = todo'[k]
               PROVE  /\ t.ord = "Relaxed" => t.val = N
                      /\ t.ord = "Release" =>
                           /\ k = Len(todo')
                           /\ t.val # NoIo => t.val.io = N /\ ios # <<>>
                           /\ t.val # NoIo /\ t.val.kind # "flush" =>
                                \A f \in Fields :
                                  \/ Last(mem'[<<f, t.loc[2]>>]).val >= N
                                  \/ \E j \in 1 .. (k - 1) : todo'[j].loc = <<f, t.loc[2]>>
    BY <1>0 DEF KindStoredLast
  <2>1. (k + 1) \in DOMAIN todo /\ t = todo[k + 1] /\ k \in Nat
    BY <1>1
  <2>2. /\ t.ord = "Relaxed" => t.val = N
        /\ t.ord = "Release" =>
             /\ k + 1 = Len(todo)
             /\ t.val # NoIo => t.val.io = N /\ ios # <<>>
             /\ t.val # NoIo /\ t.val.kind # "flush" =>
                  \A f \in Fields :
                    \/ Last(mem[<<f, t.loc[2]>>]).val >= N
                    \/ \E j \in 1 .. ((k + 1) - 1) : todo[j].loc = <<f, t.loc[2]>>
    BY <2>1 DEF IInv, KindStoredLast
  <2>3. ASSUME t.ord = "Release", t.val # NoIo, t.val.kind # "flush",
               NEW f \in Fields, NEW l, l = <<f, t.loc[2]>>,
               ~ \E j \in 1 .. (k - 1) : todo'[j].loc = l
        PROVE  Last(mem'[l]).val >= N
    <3>1. t.loc[2] \in Slots
      BY <1>0, <2>1, <2>3, StorePlaces
    <3>2. l \in Locs
      BY <2>3, <3>1, Locations
    <3>3. Last(mem'[l]) = mem'[l][Len(mem'[l])] /\ Last(mem[l]) = mem[l][Len(mem[l])]
      BY DEF Last
    <3>4. Len(mem[l]) \in Nat \ {0}
      BY <1>0, <3>2, MemFacts
    <3>5. CASE l = todo[1].loc
      <4>1. todo[1].ord = "Relaxed"
        BY <1>0, <2>3, <3>1, <3>5, StorePlaces
      <4>2. todo[1].val = N
        BY <1>0, <4>1 DEF IInv, KindStoredLast
      <4>3. mem'[l][Len(mem'[l])].val = N
        BY <1>0, <3>2, <3>5, <4>1, <4>2, StoreAdds
      <4> QED BY <3>3, <4>3, <1>0
    <3>6. CASE l # todo[1].loc
      <4>1. mem'[l] = mem[l]
        BY <1>0, <3>2, <3>6, StoreMade
      <4>2. ~ \E j \in 1 .. ((k + 1) - 1) : todo[j].loc = l
        <5> SUFFICES ASSUME NEW j \in 1 .. k, todo[j].loc = l PROVE FALSE
          BY <2>1
        <5>1. j # 1 /\ j \in DOMAIN todo
          BY <1>1, <2>1, <3>6
        <5>2. todo'[j - 1] = todo[j] /\ (j - 1) \in 1 .. (k - 1)
          BY <1>2, <2>1, <5>1
        <5> QED BY <5>2, <2>3
      <4>3. Last(mem[l]).val >= N
        BY <2>2, <2>3, <4>2
      <4> QED BY <4>1, <4>3
    <3> QED BY <3>5, <3>6
  <2>4. t.ord = "Release" => k = Len(todo')
    BY <1>1, <2>1, <2>2
  <2> QED BY <2>2, <2>3, <2>4
<1>7. PublishedSound'
  <2> SUFFICES ASSUME NEW s \in Slots, NEW l, l = <<"kind", s>>, NEW i \in DOMAIN mem'[l],
                      NEW m, m = mem'[l][i], m.val # NoIo
               PROVE  /\ m.val.io \in 1 .. N
                      /\ \A c \in Counters : m.view[<<c, 0>>] > CountOf(KindOf(c), m.val.io)
                      /\ m.val.kind # "flush" =>
                           \A f \in Fields : \A j \in m.view[<<f, s>>] .. Len(mem'[<<f, s>>]) :
                               mem'[<<f, s>>][j].val >= m.val.io
    BY <1>0, <1>3 DEF PublishedSound, Covers, Fresh
  <2>1. l \in Locs /\ Len(mem[l]) \in Nat /\ DOMAIN mem[l] = 1 .. Len(mem[l])
    BY <1>0, Locations, MemFacts
  <2>2. /\ DOMAIN mem'[l] = 1 .. Len(mem'[l])
        /\ Len(mem'[l]) = IF l = todo[1].loc THEN Len(mem[l]) + 1 ELSE Len(mem[l])
        /\ \A j \in 1 .. Len(mem[l]) : mem'[l][j] = mem[l][j]
    BY <1>0, <2>1, StoreAdds
  <2>3. CASE i \in 1 .. Len(mem[l])
    <3>1. m = mem[l][i] /\ i \in DOMAIN mem[l]
      BY <2>1, <2>2, <2>3
    <3>2. /\ m.val.io \in 1 .. N /\ Covers(m.view, m.val.io)
          /\ m.val.kind # "flush" => Fresh(m.view, s, m.val.io)
      BY <3>1 DEF IInv, PublishedSound
    <3>3. m.view \in Views /\ m.val.io \in 0 .. N
      BY <1>0, <2>1, <3>1, <3>2, MemFacts
    <3>4. m.val.kind # "flush" =>
            \A f \in Fields : \A j \in m.view[<<f, s>>] .. Len(mem'[<<f, s>>]) :
                mem'[<<f, s>>][j].val >= m.val.io
      BY <3>2, <3>3, FreshKept
    <3> QED BY <3>2, <3>4 DEF Covers
  <2>4. CASE i \notin 1 .. Len(mem[l])
    <3>1. l = todo[1].loc /\ i = Len(mem'[l])
      BY <2>1, <2>2, <2>4
    <3>2. todo[1].ord = "Release"
      BY <1>0, <3>1, StorePlaces
    <3>3. m.val = todo[1].val /\ m.view = OwnView(l)
      BY <1>0, <2>1, <3>1, <3>2, StoreAdds
    <3>4. /\ 1 = Len(todo) /\ m.val.io = N /\ ios # <<>>
          /\ m.val.kind # "flush" =>
               \A f \in Fields :
                  LET k == <<f, todo[1].loc[2]>>
                  IN  Last(mem[k]).val >= Len(ios) \/ \E j \in 1 .. (1 - 1) : todo[j].loc = k
      BY <1>0, <3>2, <3>3 DEF IInv, KindStoredLast
    <3>5. m.val.io \in 1 .. N
      <4>1. N # 0
        BY <1>0, <3>4 DEF ITypeOK
      <4> QED BY <1>0, <3>4, <4>1
    <3>6. ASSUME NEW c \in Counters PROVE m.view[<<c, 0>>] > CountOf(KindOf(c), m.val.io)
      <4>1. <<c, 0>> \in Locs /\ <<c, 0>> # l
        BY Locations, LocationsApart
      <4>2. m.view[<<c, 0>>] = Len(mem[<<c, 0>>])
        BY <3>3, <4>1 DEF OwnView
      <4>3. ~ \E j \in DOMAIN todo : todo[j].loc = <<c, 0>>
        <5>1. \A j \in DOMAIN todo : j = 1
          <6>1. Len(todo) = 1
            BY <3>4
          <6>2. DOMAIN todo = 1 .. 1
            BY <1>1, <6>1
          <6> QED BY <6>2
        <5> QED BY <5>1, <3>1, <4>1
      <4>4. Len(mem[<<c, 0>>]) > CountOf(KindOf(c), N)
        BY <4>3 DEF IInv, CountersFollow
      <4> QED BY <3>4, <4>2, <4>4
    <3>7. ASSUME m.val.kind # "flush", NEW f \in Fields, NEW k, k = <<f, s>>,
                 NEW j \in m.view[k] .. Len(mem'[k])
          PROVE  mem'[k][j].val >= m.val.io
      <4>1. k \in Locs /\ k # l
        BY <3>7, Locations, LocationsApart
      <4>2. m.view[k] = Len(mem[k]) /\ mem'[k] = mem[k]
        BY <1>0, <3>1, <3>3, <4>1, StoreMade DEF OwnView
      <4>3. Len(mem[k]) \in Nat /\ Last(mem[k]) = mem[k][Len(mem[k])]
        BY <1>0, <4>1, MemFacts
      <4>4. j = Len(mem[k])
        BY <3>7, <4>2, <4>3
      <4>5. todo[1].loc[2] = s
        BY <3>1
      <4>6. Last(mem[k]).val >= N
        BY <3>4, <3>7, <4>5
      <4> QED BY <3>4, <4>2, <4>3, <4>4, <4>6
    <3> QED BY <3>5, <3>6, <3>7
  <2> QED BY <2>3, <2>4
<1>8. EntrySound'
  <2> SUFFICES ASSUME entry # Idle
               PROVE  /\ entry.io \in 1 .. N /\ Covers(view, entry.io)
                      /\ entry.kind # "flush" =>
                           /\ \A f \in Fields :
                                \A j \in view[<<f, entry.slot>>] .. Len(mem'[<<f, entry.slot>>]) :
                                    mem'[<<f, entry.slot>>][j].val >= entry.io
                           /\ \A j \in DOMAIN entry.got : entry.got[j] >= entry.io
    BY <1>0, <1>3 DEF EntrySound, Covers, Fresh, Idle
  <2>1. /\ entry.io \in 1 .. N /\ Covers(view, entry.io)
        /\ entry.kind # "flush" => /\ Fresh(view, entry.slot, entry.io)
                                   /\ \A j \in DOMAIN entry.got : entry.got[j] >= entry.io
    BY DEF IInv, EntrySound
  <2>2. view \in Views /\ entry.slot \in Slots
    BY <1>0 DEF ITypeOK
  <2>3. entry.io \in 0 .. N
    BY <1>0, <2>1
  <2> QED BY <2>1, <2>2, <2>3, FreshKept
<1>9. SeenCovered' /\ StatsSoFar'
  BY <1>0, <1>3 DEF IInv, SeenCovered, StatsSoFar, Covers
<1>10. EntriesNotStale'
  BY <1>0 DEF IInv, EntriesNotStale
<1> QED BY <1>4, <1>5, <1>6, <1>7, <1>8, <1>9, <1>10 DEF IInv

-----------------------------------------------------------------------------
(* The steps of the RPC thread.                                            *)

\* A load moves the view on, an Acquire to what the store carried as well.
LEMMA LoadMoves ==
    ASSUME ITypeOK, NEW l \in Locs, NEW i, NEW ord, Load(l, i, ord)
    PROVE  /\ i \in DOMAIN mem[l] /\ i >= view[l]
           /\ view' \in Views /\ view'[l] >= i
           /\ \A k \in Locs : view'[k] >= view[k]
           /\ ord = "Acquire" => \A k \in Locs : view'[k] >= mem[l][i].view[k]
           /\ ord # "Acquire" => view'[l] = i
<1>1. view \in Views /\ Len(mem[l]) \in Nat /\ DOMAIN mem[l] = 1 .. Len(mem[l])
  BY MemFacts DEF ITypeOK
<1>2. i \in view[l] .. Len(mem[l]) /\ view[l] \in Nat \ {0}
  BY <1>1 DEF Load, Views
<1>3. i \in DOMAIN mem[l] /\ i \in Nat \ {0} /\ i >= view[l]
  BY <1>1, <1>2
<1> DEFINE here == [view EXCEPT ![l] = i]
<1>4. here \in Views /\ here[l] = i /\ \A k \in Locs : here[k] >= view[k]
  BY <1>1, <1>3 DEF Views
<1>5. view' = IF ord = "Acquire" THEN Sup(here, mem[l][i].view) ELSE here
  BY DEF Load
<1> HIDE DEF here
<1>6. CASE ord = "Acquire"
  <2>1. mem[l][i].view \in Views
    BY <1>3, MemFacts
  <2>2. view' = [k \in Locs |-> IF here[k] >= mem[l][i].view[k] THEN here[k]
                                ELSE mem[l][i].view[k]]
    BY <1>5, <1>6 DEF Sup
  <2> DEFINE v == mem[l][i].view
  <2>3. v \in Views /\ view' = [k \in Locs |-> IF here[k] >= v[k] THEN here[k] ELSE v[k]]
    BY <2>1, <2>2
  <2> HIDE DEF v
  <2>4. view' \in Views /\ \A k \in Locs : view'[k] >= here[k] /\ view'[k] >= v[k]
    BY <2>3, <1>4 DEF Views
  <2>5. \A k \in Locs : view'[k] \in Nat /\ here[k] \in Nat /\ view[k] \in Nat
    BY <1>1, <1>4, <2>4 DEF Views
  <2>6. \A k \in Locs : view'[k] >= view[k]
    BY <1>4, <2>4, <2>5
  <2>7. view'[l] >= i
    BY <1>4, <2>4
  <2> QED BY <1>3, <1>6, <2>4, <2>6, <2>7 DEF v
<1>7. CASE ord # "Acquire"
  BY <1>3, <1>4, <1>5, <1>7
<1> QED BY <1>6, <1>7

\* What a view covers, and what is fresh for it, a later view has as well.
LEMMA LaterView ==
    ASSUME ITypeOK, NEW v \in Views, NEW w \in Views, \A k \in Locs : w[k] >= v[k],
           NEW n \in 0 .. Len(ios)
    PROVE  /\ Covers(v, n) => Covers(w, n)
           /\ \A s \in Slots : Fresh(v, s, n) => Fresh(w, s, n)
<1>1. Len(ios) \in Nat
  BY DEF ITypeOK
<1>2. ASSUME Covers(v, n), NEW c \in Counters PROVE w[<<c, 0>>] > CountOf(KindOf(c), n)
  <2>1. <<c, 0>> \in Locs
    BY Locations
  <2>2. v[<<c, 0>>] \in Nat /\ w[<<c, 0>>] \in Nat /\ w[<<c, 0>>] >= v[<<c, 0>>]
    BY <2>1 DEF Views
  <2>3. CountOf(KindOf(c), n) \in Nat
    BY <1>1, CountNat
  <2>4. v[<<c, 0>>] > CountOf(KindOf(c), n)
    BY <1>2 DEF Covers
  <2> QED BY <2>2, <2>3, <2>4
<1>3. ASSUME NEW s \in Slots, Fresh(v, s, n) PROVE Fresh(w, s, n)
  <2> SUFFICES ASSUME NEW f \in Fields, NEW l, l = <<f, s>>, NEW i \in w[l] .. Len(mem[l])
               PROVE  mem[l][i].val >= n
    BY DEF Fresh
  <2>1. l \in Locs
    BY Locations
  <2>2. v[l] \in Nat /\ w[l] \in Nat /\ w[l] >= v[l] /\ Len(mem[l]) \in Nat
    BY <2>1, MemFacts DEF Views
  <2>3. i \in v[l] .. Len(mem[l])
    BY <2>2
  <2> QED BY <1>3, <2>3 DEF Fresh
<1> QED BY <1>2, <1>3 DEF Covers

\* While a slot is read, its entry is all there is to say of the queue's side.
LEMMA QueueSideKept ==
    ASSUME IInv, UNCHANGED <<mem, todo, ios>>
    PROVE  CountersFollow' /\ KindStoredLast' /\ PublishedSound'
BY DEF IInv, CountersFollow, KindStoredLast, PublishedSound, Covers, Fresh, CountOf

\* The answer a command begins with; an empty line leaves the last one.
Begins ==
    \/ loads' = SeqOf(SlotCount) /\ response' = [command |-> "queues", ios |-> {}]
    \/ /\ loads' = <<"bytes_read", "bytes_written", "read_ops", "write_ops", "flush_ops">>
       /\ response' = [command |-> "stats", stats |-> [c \in {} |-> 0]]
    \/ loads' = <<>> /\ response' = [command |-> "version"]
    \/ loads' = <<>> /\ response' = response

LEMMA ReceiveBegins ==
    ASSUME NEW line \in {"queues", "stats", "version", ""}, Receive(line)
    PROVE  /\ Begins /\ loads = <<>> /\ entry.slot = SlotCount
           /\ UNCHANGED <<mem, ioVars, view, entry, seen>>
<1>1. CASE line = "queues"
  BY <1>1, Zenon DEF Receive, Begins
<1>2. CASE line = "stats"
  BY <1>2, Zenon DEF Receive, Begins
<1>3. CASE line = "version"
  BY <1>3, Zenon DEF Receive, Begins
<1>4. CASE line = ""
  BY <1>4, Zenon DEF Receive, Begins
<1> QED BY <1>1, <1>2, <1>3, <1>4, Zenon

LEMMA ReceiveKeeps ==
    ASSUME IInv, TrackerAssumption, Begins, loads = <<>>, entry.slot = SlotCount,
           UNCHANGED <<mem, ioVars, view, entry, seen>>
    PROVE  IInv'
<1>0. ITypeOK /\ UNCHANGED <<mem, todo, ios, view, entry, seen>> /\ entry = Idle
  <2>1. ITypeOK /\ UNCHANGED <<mem, todo, ios, view, entry, seen>>
    BY DEF IInv, ioVars
  <2> QED BY <2>1 DEF ITypeOK, Idle, Slots, TrackerAssumption
<1>1. CASE loads' = SeqOf(SlotCount) /\ response' = [command |-> "queues", ios |-> {}]
  <2>1. loads' = SeqOf(SlotCount) /\ response' = [command |-> "queues", ios |-> {}]
    BY <1>1
  <2>2. loads' \in Seq(Slots)
    <3>1. SlotCount \in Nat
      BY DEF TrackerAssumption
    <3>2. \A k \in 1 .. SlotCount : k - 1 \in Slots
      BY <3>1 DEF Slots
    <3>3. loads' = [k \in 1 .. SlotCount |-> k - 1]
      BY <2>1 DEF SeqOf
    <3>4. loads' \in [1 .. SlotCount -> Slots]
      BY <3>2, <3>3
    <3> QED BY <3>1, <3>4
  <2>3. ITypeOK'
    BY <1>0, <2>1, <2>2 DEF ITypeOK
  <2>4. EntrySound' /\ SeenCovered' /\ EntriesNotStale' /\ StatsSoFar'
    BY <1>0, <2>1 DEF IInv, EntrySound, SeenCovered, EntriesNotStale, StatsSoFar, Covers,
                      CountOf, Idle
  <2> QED BY <1>0, <2>3, <2>4, QueueSideKept DEF IInv
<1>2. CASE /\ loads' = <<"bytes_read", "bytes_written", "read_ops", "write_ops", "flush_ops">>
           /\ response' = [command |-> "stats", stats |-> [c \in {} |-> 0]]
  <2>1. /\ loads' = <<"bytes_read", "bytes_written", "read_ops", "write_ops", "flush_ops">>
        /\ response' = [command |-> "stats", stats |-> [c \in {} |-> 0]]
    BY <1>2
  <2>2. loads' \in Seq(Counters) /\ \A c \in Counters : \E j \in DOMAIN loads' : loads'[j] = c
    <3>1. loads'[1] = "bytes_read" /\ loads'[2] = "bytes_written" /\ loads'[3] = "read_ops"
          /\ loads'[4] = "write_ops" /\ loads'[5] = "flush_ops" /\ DOMAIN loads' = 1 .. 5
      BY <2>1
    <3>2. loads' \in Seq(Counters)
      BY <2>1 DEF Counters
    <3> QED BY <3>1, <3>2 DEF Counters
  <2>3. response'.command = "stats" /\ DOMAIN response'.stats = {}
        /\ response' = [command |-> "stats", stats |-> response'.stats]
        /\ response'.stats \in [{} -> Nat]
    BY <2>1
  <2>4. ITypeOK'
    BY <1>0, <2>2, <2>3 DEF ITypeOK
  <2>5. EntrySound' /\ SeenCovered' /\ EntriesNotStale' /\ StatsSoFar'
    BY <1>0, <2>2, <2>3 DEF IInv, EntrySound, SeenCovered, EntriesNotStale, StatsSoFar, Covers,
                      CountOf, Idle
  <2> QED BY <1>0, <2>4, <2>5, QueueSideKept DEF IInv
<1>3. CASE loads' = <<>> /\ response' = [command |-> "version"]
  <2>1. loads' = <<>> /\ response' = [command |-> "version"]
    BY <1>3
  <2>2. ITypeOK'
    <3>1. loads' \in Seq(Counters) /\ response'.command = "version"
          /\ response' \in [command : {"none", "version"}]
      BY <2>1
    <3> QED BY <1>0, <2>1, <3>1 DEF ITypeOK
  <2>3. EntrySound' /\ SeenCovered' /\ EntriesNotStale' /\ StatsSoFar'
    BY <1>0, <2>1 DEF IInv, EntrySound, SeenCovered, EntriesNotStale, StatsSoFar, Covers,
                      CountOf, Idle
  <2> QED BY <1>0, <2>2, <2>3, QueueSideKept DEF IInv
<1>4. CASE loads' = <<>> /\ response' = response
  <2>1. loads' = <<>> /\ response' = response
    BY <1>4
  <2>2. ITypeOK'
    BY <1>0, <2>1 DEF ITypeOK
  <2>3. EntrySound' /\ SeenCovered' /\ EntriesNotStale' /\ StatsSoFar'
    BY <1>0, <2>1 DEF IInv, EntrySound, SeenCovered, EntriesNotStale, StatsSoFar, Covers,
                      CountOf, Idle
  <2> QED BY <1>0, <2>2, <2>3, QueueSideKept DEF IInv
<1> QED BY <1>1, <1>2, <1>3, <1>4 DEF Begins

LEMMA SnapshotKindKeeps ==
    ASSUME IInv, NEW i, SnapshotKind(i)
    PROVE  IInv'
<1> DEFINE s == Head(loads)
           l == <<"kind", s>>
           m == mem[l][i]
<1>0. /\ ITypeOK /\ UNCHANGED <<mem, todo, ios, response, seen>>
      /\ loads # <<>> /\ response.command = "queues" /\ entry = Idle /\ Load(l, i, "Acquire")
      /\ \/ m.val = NoIo /\ loads' = Tail(loads) /\ entry' = Idle
         \/ /\ m.val # NoIo /\ loads' = loads
            /\ entry' = [slot |-> s, kind |-> m.val.kind, io |-> m.val.io, got |-> <<>>]
  <2>1. ITypeOK
    BY DEF IInv
  <2>2. entry = Idle
    BY <2>1 DEF SnapshotKind, ITypeOK, Slots, Idle
  <2> QED BY <2>1, <2>2 DEF SnapshotKind, ioVars
<1>1. loads \in Seq(Slots) /\ s \in Slots /\ l \in Locs /\ Len(ios) \in Nat
  <2>1. loads \in Seq(Slots) /\ Len(ios) \in Nat
    BY <1>0 DEF ITypeOK
  <2> QED BY <1>0, <2>1, Locations
<1> HIDE DEF s, l
<1>2. /\ i \in DOMAIN mem[l] /\ view' \in Views /\ \A k \in Locs : view'[k] >= view[k]
      /\ \A k \in Locs : view'[k] >= m.view[k]
  BY <1>0, <1>1, LoadMoves
<1>3. view \in Views /\ m.view \in Views /\ seen \in 0 .. Len(ios)
  BY <1>0, <1>1, <1>2, MemFacts DEF ITypeOK
<1>4. SeenCovered'
  <2>1. Covers(view', seen)
    BY <1>0, <1>2, <1>3, LaterView DEF IInv, SeenCovered
  <2> QED BY <1>0, <2>1 DEF SeenCovered, Covers, CountOf
<1>5. EntriesNotStale' /\ StatsSoFar'
  BY <1>0 DEF IInv, EntriesNotStale, StatsSoFar
<1>6. CASE m.val = NoIo /\ loads' = Tail(loads) /\ entry' = Idle
  <2>1. ITypeOK'
    <3>1. loads' \in Seq(Slots)
      BY <1>0, <1>1, <1>6
    <3> QED BY <1>0, <1>2, <1>6, <3>1 DEF ITypeOK, Idle
  <2>2. EntrySound'
    BY <1>6 DEF EntrySound, Idle
  <2> QED BY <1>0, <1>4, <1>5, <2>1, <2>2, QueueSideKept DEF IInv
<1>7. CASE /\ m.val # NoIo /\ loads' = loads
           /\ entry' = [slot |-> s, kind |-> m.val.kind, io |-> m.val.io, got |-> <<>>]
  <2>1. /\ m.val.io \in 1 .. Len(ios) /\ Covers(m.view, m.val.io)
        /\ m.val.kind # "flush" => Fresh(m.view, s, m.val.io)
    BY <1>1, <1>2, <1>7 DEF IInv, PublishedSound, l
  <2>2. m.val \in [kind : Kinds, io : Nat]
    <3>1. l[1] = "kind"
      BY DEF l
    <3> QED BY <1>0, <1>1, <1>2, <1>7, <3>1, MemFacts DEF IoOfKind
  <2>3. ITypeOK'
    BY <1>0, <1>1, <1>2, <1>7, <2>2 DEF ITypeOK
  <2>4. Covers(view', m.val.io) /\ (m.val.kind # "flush" => Fresh(view', s, m.val.io))
    <3>1. m.val.io \in 0 .. Len(ios)
      BY <1>1, <2>1
    <3> QED BY <1>0, <1>1, <1>2, <1>3, <2>1, <3>1, LaterView
  <2>5. EntrySound'
    BY <1>0, <1>7, <2>1, <2>4 DEF EntrySound, Covers, Fresh, CountOf
  <2> QED BY <1>0, <1>4, <1>5, <2>3, <2>5, QueueSideKept DEF IInv
<1> QED BY <1>0, <1>6, <1>7

LEMMA SnapshotFieldKeeps ==
    ASSUME IInv, NEW i, SnapshotField(i)
    PROVE  IInv'
<1> DEFINE f == IF entry.got = <<>> THEN "offset" ELSE "length"
           l == <<f, entry.slot>>
<1>0. /\ ITypeOK /\ UNCHANGED <<mem, todo, ios, loads, response, seen>>
      /\ entry # Idle /\ Load(l, i, "Relaxed")
      /\ entry' = [entry EXCEPT !.got = Append(entry.got, mem[l][i].val)]
  BY DEF IInv, SnapshotField, ioVars, Idle
<1>1. /\ entry \in [slot : Slots, kind : Kinds, io : Nat, got : Seq(Nat)]
      /\ response.command = "queues" /\ loads # <<>> /\ view \in Views
      /\ Len(ios) \in Nat /\ seen \in 0 .. Len(ios)
  BY <1>0 DEF ITypeOK
<1>2. f \in Fields /\ l \in Locs /\ l[1] # "kind"
  <2>1. f \in Fields
    BY DEF Fields
  <2> HIDE DEF f
  <2>2. f # "kind"
    BY <2>1 DEF Fields
  <2> QED BY <1>1, <2>1, <2>2, Locations
<1> HIDE DEF f
<1>3. /\ i \in DOMAIN mem[l] /\ i >= view[l] /\ view' \in Views
      /\ \A k \in Locs : view'[k] >= view[k]
  BY <1>0, <1>2, LoadMoves
<1>4. mem[l][i].val \in Nat /\ DOMAIN mem[l] = 1 .. Len(mem[l]) /\ Len(mem[l]) \in Nat
  BY <1>0, <1>2, <1>3, MemFacts
<1>5. /\ entry.io \in 1 .. Len(ios) /\ Covers(view, entry.io)
      /\ entry.kind # "flush" => /\ Fresh(view, entry.slot, entry.io)
                                 /\ \A j \in DOMAIN entry.got : entry.got[j] >= entry.io
  BY <1>0 DEF IInv, EntrySound
<1>6. entry.io \in 0 .. Len(ios)
  BY <1>1, <1>5
<1>7. /\ Covers(view', seen) /\ Covers(view', entry.io)
      /\ entry.kind # "flush" => Fresh(view', entry.slot, entry.io)
  BY <1>0, <1>1, <1>3, <1>5, <1>6, LaterView DEF IInv, SeenCovered
<1> DEFINE v == mem[l][i].val
<1>8. entry.kind # "flush" => v >= entry.io
  <2>1. i \in view[l] .. Len(mem[l])
    <3>1. view[l] \in Nat
      BY <1>1, <1>2 DEF Views
    <3> QED BY <1>3, <1>4, <3>1
  <2> QED BY <1>2, <1>5, <2>1 DEF Fresh
<1>9. v \in Nat
  BY <1>4
<1> HIDE DEF v
<1>10. /\ entry' \in [slot : Slots, kind : Kinds, io : Nat, got : Seq(Nat)]
       /\ entry'.slot = entry.slot /\ entry'.kind = entry.kind /\ entry'.io = entry.io
       /\ entry'.got = Append(entry.got, v)
  <2> DEFINE g == Append(entry.got, v)
  <2>1. entry' = [entry EXCEPT !.got = g]
    BY <1>0 DEF v
  <2>2. g \in Seq(Nat)
    BY <1>1, <1>9
  <2> HIDE DEF g
  <2>3. /\ entry' \in [slot : Slots, kind : Kinds, io : Nat, got : Seq(Nat)]
        /\ entry'.slot = entry.slot /\ entry'.kind = entry.kind /\ entry'.io = entry.io
        /\ entry'.got = g
    BY <1>1, <2>1, <2>2
  <2> QED BY <2>3 DEF g
<1>11. ITypeOK'
  BY <1>0, <1>1, <1>3, <1>10 DEF ITypeOK
<1>12. EntrySound'
  <2>1. entry.kind # "flush" => \A j \in DOMAIN entry'.got : entry'.got[j] >= entry.io
    <3> SUFFICES ASSUME entry.kind # "flush", NEW j \in DOMAIN Append(entry.got, v)
                 PROVE  Append(entry.got, v)[j] >= entry.io
      BY <1>10
    <3>1. entry.got \in Seq(Nat)
      BY <1>1
    <3>2. CASE j \in DOMAIN entry.got
      BY <1>5, <3>1, <3>2
    <3>3. CASE j = Len(entry.got) + 1
      BY <1>8, <3>1, <3>3
    <3> QED BY <3>1, <3>2, <3>3
  <2> QED BY <1>0, <1>5, <1>7, <1>10, <2>1 DEF EntrySound, Covers, Fresh, CountOf
<1>13. SeenCovered'
  BY <1>0, <1>7 DEF SeenCovered, Covers, CountOf
<1>14. EntriesNotStale' /\ StatsSoFar'
  BY <1>0, <1>1 DEF IInv, EntriesNotStale, StatsSoFar
<1> QED BY <1>0, <1>11, <1>12, <1>13, <1>14, QueueSideKept DEF IInv

LEMMA SnapshotEntryKeeps ==
    ASSUME IInv, SnapshotEntry
    PROVE  IInv'
<1> DEFINE e == [kind |-> entry.kind, io |-> entry.io,
                 where |-> IF entry.kind = "flush" THEN <<>> ELSE entry.got]
<1>0. /\ ITypeOK /\ UNCHANGED <<mem, todo, ios, view>> /\ entry # Idle /\ entry' = Idle
      /\ response' = [response EXCEPT !.ios = response.ios \cup {e}]
      /\ seen' = (IF entry.io > seen THEN entry.io ELSE seen) /\ loads' = Tail(loads)
  BY DEF IInv, SnapshotEntry, ioVars, Idle
<1>1. /\ entry \in [slot : Slots, kind : Kinds, io : Nat, got : Seq(Nat)]
      /\ response.command = "queues" /\ loads # <<>> /\ loads \in Seq(Slots)
      /\ Len(ios) \in Nat /\ seen \in 0 .. Len(ios)
  BY <1>0 DEF ITypeOK
<1>2. response \in [command : {"queues"}, ios : SUBSET Shown]
  BY <1>0, <1>1 DEF ITypeOK
<1>3. /\ entry.io \in 1 .. Len(ios) /\ Covers(view, entry.io)
      /\ entry.kind # "flush" => \A j \in DOMAIN entry.got : entry.got[j] >= entry.io
  BY <1>0 DEF IInv, EntrySound
<1>4. e \in Shown /\ e.io = entry.io /\ \A j \in DOMAIN e.where : e.where[j] >= e.io
  BY <1>1, <1>3 DEF Shown
<1> HIDE DEF e
<1>5. /\ response' \in [command : {"queues"}, ios : SUBSET Shown]
      /\ response'.command = "queues" /\ response'.ios = response.ios \cup {e}
  BY <1>0, <1>2, <1>4
<1>6. seen' \in 0 .. Len(ios) /\ (seen' = entry.io \/ seen' = seen)
  BY <1>0, <1>1, <1>3
<1>7. ITypeOK'
  <2>1. loads' \in Seq(Slots)
    BY <1>0, <1>1
  <2> QED BY <1>0, <1>5, <1>6, <2>1 DEF ITypeOK, Idle
<1>8. SeenCovered'
  <2>1. CASE seen' = entry.io
    BY <1>0, <1>3, <2>1 DEF SeenCovered, Covers, CountOf
  <2>2. CASE seen' = seen
    BY <1>0, <2>2 DEF IInv, SeenCovered, Covers, CountOf
  <2> QED BY <1>6, <2>1, <2>2
<1>9. EntriesNotStale'
  BY <1>1, <1>4, <1>5 DEF IInv, EntriesNotStale
<1>10. EntrySound' /\ StatsSoFar'
  BY <1>0, <1>5 DEF EntrySound, StatsSoFar, Idle
<1> QED BY <1>0, <1>7, <1>8, <1>9, <1>10, QueueSideKept DEF IInv

LEMMA LoadCounterKeeps ==
    ASSUME IInv, NEW i, LoadCounter(i)
    PROVE  IInv'
<1> DEFINE c == Head(loads)
           l == <<c, 0>>
           v == mem[l][i].val
           st == [d \in DOMAIN response.stats \cup {c} |-> IF d = c THEN v ELSE response.stats[d]]
<1>0. /\ ITypeOK /\ UNCHANGED <<mem, todo, ios, entry, seen>>
      /\ loads # <<>> /\ response.command = "stats" /\ Load(l, i, "Relaxed")
      /\ response' = [response EXCEPT !.stats = st] /\ loads' = Tail(loads)
  BY DEF IInv, LoadCounter, ioVars
<1>1. /\ entry = Idle /\ loads \in Seq(Counters) /\ view \in Views
      /\ Len(ios) \in Nat /\ seen \in 0 .. Len(ios)
      /\ response = [command |-> "stats", stats |-> response.stats]
      /\ DOMAIN response.stats \subseteq Counters
      /\ response.stats \in [DOMAIN response.stats -> Nat]
  BY <1>0 DEF ITypeOK
<1>2. c \in Counters
  BY <1>0, <1>1
<1> HIDE DEF c
<1>3. l \in Locs
  BY <1>2, Locations
<1>4. /\ i \in DOMAIN mem[l] /\ i >= view[l] /\ view' \in Views
      /\ \A k \in Locs : view'[k] >= view[k]
  BY <1>0, <1>3, LoadMoves
<1>5. v = i - 1 /\ i \in Nat \ {0}
  <2>1. DOMAIN mem[l] = 1 .. Len(mem[l]) /\ Len(mem[l]) \in Nat
    BY <1>0, <1>3, MemFacts
  <2> QED BY <1>2, <1>4, <2>1 DEF IInv, CountersFollow
<1>6. v >= CountOf(KindOf(c), seen) /\ v \in Nat
  <2>1. view[l] > CountOf(KindOf(c), seen)
    BY <1>2 DEF IInv, SeenCovered, Covers
  <2>2. view[l] \in Nat /\ CountOf(KindOf(c), seen) \in Nat
    BY <1>1, <1>3, CountNat DEF Views
  <2> HIDE DEF l, v
  <2> QED BY <1>4, <1>5, <2>1, <2>2
<1> HIDE DEF v
<1>7. /\ DOMAIN st = DOMAIN response.stats \cup {c} /\ st \in [DOMAIN st -> Nat]
      /\ st[c] = v /\ \A d \in DOMAIN response.stats : d # c => st[d] = response.stats[d]
  BY <1>1, <1>6
<1> HIDE DEF st
<1>8. response' = [command |-> "stats", stats |-> st]
  BY <1>0, <1>1
<1>9. response'.command = "stats" /\ response'.stats = st
  BY <1>8
<1>10. ITypeOK'
  <2>1. loads' \in Seq(Counters)
    BY <1>0, <1>1
  <2>2. DOMAIN st \subseteq Counters
    BY <1>1, <1>2, <1>7
  <2> QED BY <1>0, <1>1, <1>4, <1>7, <1>8, <1>9, <2>1, <2>2 DEF ITypeOK
<1>11. SeenCovered'
  <2>1. Covers(view', seen)
    BY <1>0, <1>1, <1>4, LaterView DEF IInv, SeenCovered
  <2> QED BY <1>0, <2>1 DEF SeenCovered, Covers, CountOf
<1>12. StatsSoFar'
  <2> SUFFICES ASSUME NEW d \in Counters
               PROVE  \/ d \in DOMAIN st /\ st[d] >= CountOf(KindOf(d), seen)
                      \/ d \notin DOMAIN st /\ \E j \in DOMAIN loads' : loads'[j] = d
    BY <1>0, <1>9 DEF StatsSoFar, CountOf
  <2>1. CASE d = c
    BY <1>6, <1>7, <2>1
  <2>2. CASE d # c
    <3>1. \/ d \in DOMAIN response.stats /\ response.stats[d] >= CountOf(KindOf(d), seen)
          \/ d \notin DOMAIN response.stats /\ \E j \in DOMAIN loads : loads[j] = d
      BY <1>0 DEF IInv, StatsSoFar
    <3>2. (\E j \in DOMAIN loads : loads[j] = d) => \E j \in DOMAIN loads' : loads'[j] = d
      <4> SUFFICES ASSUME NEW j \in DOMAIN loads, loads[j] = d
                   PROVE  \E k \in DOMAIN loads' : loads'[k] = d
        OBVIOUS
      <4>1. loads[1] = c
        BY <1>0, <1>1 DEF c
      <4>2. (j - 1) \in DOMAIN Tail(loads) /\ Tail(loads)[j - 1] = loads[j]
        BY <1>1, <2>2, <4>1
      <4> QED BY <1>0, <4>2
    <3> QED BY <1>7, <2>2, <3>1, <3>2
  <2> QED BY <2>1, <2>2
<1>13. EntrySound' /\ EntriesNotStale'
  BY <1>0, <1>1, <1>9 DEF EntrySound, EntriesNotStale, Idle
<1> QED BY <1>0, <1>10, <1>11, <1>12, <1>13, QueueSideKept DEF IInv

-----------------------------------------------------------------------------
(* The theorems.                                                           *)

LEMMA StutterKeeps == ASSUME IInv, UNCHANGED vars PROVE IInv'
<1>1. UNCHANGED <<mem, todo, ios, view, loads, entry, response, seen>>
  BY DEF vars
<1>2. ITypeOK'
  BY <1>1 DEF IInv, ITypeOK
<1>3. EntrySound' /\ SeenCovered' /\ EntriesNotStale' /\ StatsSoFar'
  BY <1>1 DEF IInv, EntrySound, SeenCovered, EntriesNotStale, StatsSoFar, Covers, Fresh, CountOf
<1> QED BY <1>1, <1>2, <1>3, QueueSideKept DEF IInv

LEMMA NextKeeps == ASSUME TrackerAssumption, IInv, [INext]_vars PROVE IInv'
<1>1. ASSUME NEW k \in Kinds, NEW s \in RequestSlots, AddIo(k, s) PROVE IInv'
  BY <1>1, AddKeeps
<1>2. ASSUME NEW s \in RequestSlots, ClearIo(s) PROVE IInv'
  BY <1>2, ClearKeeps
<1>3. CASE DoStore
  BY <1>3, StoreKeeps
<1>4. ASSUME NEW c \in {"queues", "stats", "version", ""}, Receive(c) PROVE IInv'
  <2>1. /\ Begins /\ loads = <<>> /\ entry.slot = SlotCount
        /\ UNCHANGED <<mem, ioVars, view, entry, seen>>
    BY <1>4, ReceiveBegins, Zenon
  <2> QED BY <2>1, ReceiveKeeps, Zenon
<1>5. ASSUME NEW i, SnapshotKind(i) PROVE IInv'
  BY <1>5, SnapshotKindKeeps
<1>6. ASSUME NEW i, SnapshotField(i) PROVE IInv'
  BY <1>6, SnapshotFieldKeeps
<1>7. ASSUME NEW i, LoadCounter(i) PROVE IInv'
  BY <1>7, LoadCounterKeeps
<1>8. CASE SnapshotEntry
  BY <1>8, SnapshotEntryKeeps
<1>9. CASE UNCHANGED vars
  BY <1>9, StutterKeeps
<1>10. CASE Done
  BY <1>10, <1>9, Zenon DEF Done
<1> QED BY <1>1, <1>2, <1>3, <1>4, <1>5, <1>6, <1>7, <1>8, <1>9, <1>10, Zenon DEF INext

\* A "stats" answer with nothing left to load has every counter.
LEMMA StatsComplete == ASSUME IInv PROVE StatsIncludeSeen
<1> SUFFICES ASSUME response.command = "stats", loads = <<>>
             PROVE  \A c \in Counters : response.stats[c] >= CountOf(KindOf(c), seen)
  <2>1. /\ "read_ops" \in Counters /\ KindOf("read_ops") = "read"
        /\ "bytes_read" \in Counters /\ KindOf("bytes_read") = "read"
        /\ "write_ops" \in Counters /\ KindOf("write_ops") = "write"
        /\ "bytes_written" \in Counters /\ KindOf("bytes_written") = "write"
        /\ "flush_ops" \in Counters /\ KindOf("flush_ops") = "flush"
    BY DEF Counters, KindOf
  <2> QED BY <2>1, Zenon DEF StatsIncludeSeen
<1>1. \A j : j \notin DOMAIN loads
  OBVIOUS
<1> QED BY <1>1, Zenon DEF IInv, StatsSoFar

\* The orderings the tracker asks for are enough: the invariant of the memory,
\* of the stores still to be made and of the view of the RPC thread holds in
\* every reachable state (IoTracker, snapshot, cumulative_stats).
THEOREM TrackerInvariant == TrackerAssumption => (ISpec => []IInv)
<1> SUFFICES ASSUME TrackerAssumption PROVE ISpec => []IInv
  OBVIOUS
<1>1. IInit => IInv
  BY InitTracked
<1>2. IInv /\ [INext]_vars => IInv'
  BY NextKeeps
<1> QED BY <1>1, <1>2, PTL DEF ISpec

\* No "queues" answer shows an I/O with the offset or the length of an older
\* one, and every complete "stats" answer counts all the I/Os up to the newest
\* one this client was shown, whatever values the Relaxed loads return.
THEOREM AnswersTruthful ==
    TrackerAssumption => (ISpec => [](EntriesNotStale /\ StatsIncludeSeen))
<1> SUFFICES ASSUME TrackerAssumption PROVE ISpec => [](EntriesNotStale /\ StatsIncludeSeen)
  OBVIOUS
<1>1. ISpec => []IInv
  BY TrackerInvariant
<1>2. IInv => EntriesNotStale /\ StatsIncludeSeen
  BY StatsComplete DEF IInv
<1> QED BY <1>1, <1>2, PTL
=============================================================================
