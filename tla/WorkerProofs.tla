---------------------------- MODULE WorkerProofs ----------------------------
(***************************************************************************)
(* Proofs about the two state machines that the background worker runs:    *)
(* first MetadataFlusher, then StripeFetcher, each for any number of       *)
(* stripes, any source, any layout in sectors, any size of the pools and   *)
(* any number of retries.                                                  *)
(*                                                                         *)
(* The flusher's inductive invariant is MFInv; PublishedIsDurable alone is *)
(* not inductive, since a later write of the same sector could take a      *)
(* published bit away again.                                               *)
(***************************************************************************)
EXTENDS MetadataFlusher, StripeFetcher, SequenceTheorems, FiniteSetTheorems, TLAPS

-----------------------------------------------------------------------------
(* Facts about the headers, the atomics and the counters that the proofs   *)
(* of the fetcher and of the whole lazy device use too.                    *)

\* The three flags are different.
LEMMA FlagsDistinct ==
    /\ FETCHED # WRITTEN /\ FETCHED # HAS_SOURCE /\ WRITTEN # HAS_SOURCE
    /\ FETCHED \in Flags /\ WRITTEN \in Flags /\ HAS_SOURCE \in Flags
BY DEF FETCHED, WRITTEN, HAS_SOURCE, Flags

\* Counting stripes gives a number.
LEMMA StripesFinite ==
    ASSUME NEW S, S \subseteq Stripes
    PROVE  IsFiniteSet(S) /\ Cardinality(S) \in Nat
<1>1. IsFiniteSet(Stripes)
  BY StripeAssumption, FS_Interval DEF Stripes
<1> QED BY <1>1, FS_Subset, FS_CardinalityType

\* The state after loading the headers h from a device that holds nothing
\* else: what a first start and a restart have in
\* common.
LEMMA LoadedPublished ==
    ASSUME NEW h \in [Stripes -> SUBSET Flags], NEW fs, NEW ws,
           fs = LoadedFetchStates(h), ws = LoadedWriteStates(h),
           \A s \in Stripes : FETCHED \in h[s] => HAS_SOURCE \in h[s]
    PROVE  /\ fs \in [Stripes -> FetchStates]
           /\ ws \in [Stripes -> WriteStates]
           /\ \A s \in Stripes : /\ fs[s] = Fetched <=> FETCHED \in h[s]
                                 /\ ws[s] = Written <=> WRITTEN \in h[s]
           /\ CountWith(h, FETCHED) \in Nat /\ CountWith(h, HAS_SOURCE) \in Nat
<1>1. CountWith(h, FETCHED) \in Nat /\ CountWith(h, HAS_SOURCE) \in Nat
  BY StripesFinite DEF CountWith
<1>2. /\ fs \in [Stripes -> FetchStates]
      /\ \A s \in Stripes : fs[s] = Fetched <=> FETCHED \in h[s]
  BY DEF LoadedFetchStates, FetchStates, Fetched, NotFetched, Failed, NoSource
<1>3. /\ ws \in [Stripes -> WriteStates]
      /\ \A s \in Stripes : ws[s] = Written <=> WRITTEN \in h[s]
  BY DEF LoadedWriteStates, WriteStates, Written, NotWritten
<1> QED BY <1>1, <1>2, <1>3

CountersInv == CountersExact /\ NoSourceExact

FetchedNow == {s \in Stripes : stripe_fetch_states[s] = Fetched}
SourceNow  == {s \in Stripes : stripe_fetch_states[s] # NoSource}

\* The counters that SharedMetadataState::new computes agree with the states.
LEMMA LoadedCounters ==
    ASSUME NEW h \in [Stripes -> SUBSET Flags], NEW fs, fs = LoadedFetchStates(h),
           \A s \in Stripes : FETCHED \in h[s] => HAS_SOURCE \in h[s]
    PROVE  /\ CountWith(h, FETCHED) = Cardinality({s \in Stripes : fs[s] = Fetched})
           /\ CountWith(h, HAS_SOURCE) = Cardinality({s \in Stripes : fs[s] # NoSource})
           /\ \A s \in Stripes : fs[s] = NoSource <=> HAS_SOURCE \notin h[s]
<1>1. \A s \in Stripes : /\ fs[s] = NoSource <=> HAS_SOURCE \notin h[s]
                         /\ fs[s] = Fetched <=> FETCHED \in h[s]
  BY DEF LoadedFetchStates, Fetched, NotFetched, NoSource
<1>2. /\ {s \in Stripes : FETCHED \in h[s]} = {s \in Stripes : fs[s] = Fetched}
      /\ {s \in Stripes : HAS_SOURCE \in h[s]} = {s \in Stripes : fs[s] # NoSource}
  BY <1>1
<1> QED BY <1>1, <1>2 DEF CountWith

-----------------------------------------------------------------------------
(* The atomics and the counters through every operation on them.           *)

SharedInv == SharedTypeOK /\ CountersInv

\* Headers that init-metadata may write and the flusher may leave.
SoundHeaders(h) ==
    /\ h \in [Stripes -> SUBSET Flags]
    /\ \A s \in Stripes : /\ HAS_SOURCE \in h[s] <=> s \in SourceStripes
                          /\ FETCHED \in h[s] => s \in SourceStripes

LEMMA FreshHeadersSound == SoundHeaders(FreshHeaders)
BY FlagsDistinct DEF SoundHeaders, FreshHeaders

LEMMA SharedInitInv ==
    ASSUME NEW h, SoundHeaders(h), SharedInit(h)
    PROVE  SharedInv
<1>1. /\ stripe_fetch_states = LoadedFetchStates(h)
      /\ stripe_write_states = LoadedWriteStates(h)
      /\ fetched_stripes_count = CountWith(h, FETCHED)
      /\ source_stripes_count = CountWith(h, HAS_SOURCE)
  BY DEF SharedInit
<1>2. SharedTypeOK
  BY <1>1, LoadedPublished DEF SharedTypeOK, SoundHeaders
<1>3. /\ CountWith(h, FETCHED) =
           Cardinality({s \in Stripes : stripe_fetch_states[s] = Fetched})
      /\ CountWith(h, HAS_SOURCE) =
           Cardinality({s \in Stripes : stripe_fetch_states[s] # NoSource})
      /\ \A s \in Stripes : stripe_fetch_states[s] = NoSource <=> HAS_SOURCE \notin h[s]
  BY <1>1, LoadedCounters DEF SoundHeaders
<1>4. CountersExact
  BY <1>1, <1>3 DEF CountersExact
<1>5. NoSourceExact
  BY <1>3 DEF NoSourceExact, SoundHeaders
<1> QED BY <1>2, <1>4, <1>5 DEF SharedInv, CountersInv

LEMMA SharedLoadInv ==
    ASSUME NEW h, SoundHeaders(h), SharedLoad(h)
    PROVE  SharedInv'
<1>1. /\ stripe_fetch_states' = LoadedFetchStates(h)
      /\ stripe_write_states' = LoadedWriteStates(h)
      /\ fetched_stripes_count' = CountWith(h, FETCHED)
      /\ source_stripes_count' = CountWith(h, HAS_SOURCE)
  BY DEF SharedLoad
<1>2. SharedTypeOK'
  BY <1>1, LoadedPublished DEF SharedTypeOK, SoundHeaders
<1>3. /\ CountWith(h, FETCHED) =
           Cardinality({s \in Stripes : stripe_fetch_states'[s] = Fetched})
      /\ CountWith(h, HAS_SOURCE) =
           Cardinality({s \in Stripes : stripe_fetch_states'[s] # NoSource})
      /\ \A s \in Stripes : stripe_fetch_states'[s] = NoSource <=> HAS_SOURCE \notin h[s]
  BY <1>1, LoadedCounters DEF SoundHeaders
<1>4. CountersExact'
  BY <1>1, <1>3 DEF CountersExact
<1>5. NoSourceExact'
  BY <1>3 DEF NoSourceExact, SoundHeaders
<1> QED BY <1>2, <1>4, <1>5 DEF SharedInv, CountersInv

\* set_stripe_header adds one to the counter for every stripe that becomes
\* Fetched, and for no other.
LEMMA SetStripeHeadersInv ==
    ASSUME SharedInv, NEW S \in SUBSET Stripes, NEW header,
           \A s \in S : FETCHED \in header[s] => s \in SourceStripes,
           SetStripeHeaders(S, header)
    PROVE  SharedInv'
<1> DEFINE NF == NewlyFetched(S, header)
<1>1. /\ \A s \in Stripes : stripe_fetch_states'[s] =
            IF s \in S /\ FETCHED \in header[s] THEN Fetched ELSE stripe_fetch_states[s]
      /\ fetched_stripes_count' = fetched_stripes_count + Cardinality(NF)
      /\ source_stripes_count' = source_stripes_count
  BY DEF SetStripeHeaders
<1>2. NF = {s \in S : FETCHED \in header[s] /\ stripe_fetch_states[s] \notin {Fetched, NoSource}}
  BY DEF NewlyFetched, stripe_fetched_if_needed
<1>3. \A s \in S : FETCHED \in header[s] => stripe_fetch_states[s] # NoSource
  BY DEF SharedInv, CountersInv, NoSourceExact
<1>4. IsFiniteSet(NF) /\ Cardinality(NF) \in Nat
  BY <1>2, StripesFinite
<1>5. SharedTypeOK'
  <2>1. stripe_fetch_states' \in [Stripes -> FetchStates]
    BY DEF SetStripeHeaders, SharedInv, SharedTypeOK, FetchStates
  <2>2. stripe_write_states' \in [Stripes -> WriteStates]
    BY DEF SetStripeHeaders, SharedInv, SharedTypeOK, WriteStates
  <2> HIDE DEF NF
  <2> QED BY <1>1, <1>4, <2>1, <2>2 DEF SharedInv, SharedTypeOK
<1> HIDE DEF NF
<1>6. FetchedNow' = FetchedNow \cup NF /\ FetchedNow \cap NF = {}
  BY <1>1, <1>2, <1>3 DEF FetchedNow
<1>7. SourceNow' = SourceNow
  BY <1>1, <1>3 DEF SourceNow, Fetched, NoSource
<1>8. NoSourceExact'
  BY <1>1, <1>3 DEF SharedInv, CountersInv, NoSourceExact, Fetched, NoSource
<1>9. Cardinality(FetchedNow') = Cardinality(FetchedNow) + Cardinality(NF)
  <2>1. IsFiniteSet(FetchedNow) /\ Cardinality(FetchedNow) \in Nat
    BY StripesFinite DEF FetchedNow
  <2>2. Cardinality(FetchedNow \cup NF) =
          Cardinality(FetchedNow) + Cardinality(NF) - Cardinality(FetchedNow \cap NF)
    BY <1>4, <2>1, FS_Union
  <2>3. Cardinality(FetchedNow \cap NF) = 0
    BY <1>6, FS_EmptySet
  <2>4. Cardinality(FetchedNow') = Cardinality(FetchedNow \cup NF)
    BY <1>6
  <2> QED BY <1>4, <2>1, <2>2, <2>3, <2>4
<1> QED BY <1>1, <1>5, <1>7, <1>8, <1>9
        DEF SharedInv, CountersInv, CountersExact, FetchedNow, SourceNow

\* set_stripe_failed does not uncount a stripe.
LEMMA SetStripeFailedInv ==
    ASSUME SharedInv, NEW s \in Stripes, ~stripe_fetched_if_needed(s), SetStripeFailed(s)
    PROVE  SharedInv'
<1>1. /\ stripe_fetch_states' \in [Stripes -> FetchStates]
      /\ \A t \in Stripes : stripe_fetch_states'[t] =
            IF t = s THEN Failed ELSE stripe_fetch_states[t]
      /\ stripe_fetch_states[s] # Fetched /\ stripe_fetch_states[s] # NoSource
      /\ Failed # Fetched /\ Failed # NoSource
  BY DEF SetStripeFailed, SharedInv, SharedTypeOK, FetchStates, stripe_fetched_if_needed,
         Failed, Fetched, NoSource
<1>2. SharedTypeOK'
  BY <1>1 DEF SetStripeFailed, SharedInv, SharedTypeOK
<1>3. FetchedNow' = FetchedNow /\ SourceNow' = SourceNow
  BY <1>1 DEF FetchedNow, SourceNow
<1>4. CountersExact'
  BY <1>3 DEF SetStripeFailed, SharedInv, CountersInv, CountersExact, FetchedNow, SourceNow
<1>5. NoSourceExact'
  BY <1>1 DEF SharedInv, CountersInv, NoSourceExact
<1> QED BY <1>2, <1>4, <1>5 DEF SharedInv, CountersInv

-----------------------------------------------------------------------------
(* The flusher.                                                            *)

Bits == {FETCHED, WRITTEN}

\* A stripe's sector is a sector of the device.
LEMMA SectorOfType == \A s \in Stripes : SectorOf(s) \in Sectors
BY DEF Sectors

\* What the loop of start_writes may rely on for the requests it starts: they
\* are for different sectors, none of which is being updated, and their bits
\* are not set.
LEMMA StartedFacts ==
    ASSUME MFInv, NEW n \in 0 .. Len(queued_requests), StopsAfter(n)
    PROVE  /\ StartedStripes(n) \subseteq Stripes
           /\ \A s \in StartedStripes(n) :
                /\ StartedBit(n, s) \in Bits
                /\ StartedBit(n, s) \notin headers[s]
                /\ StartedBit(n, s) = FETCHED => s \in SourceStripes
                /\ SectorOf(s) \notin sectors_being_updated
                /\ s \notin DOMAIN header_updates
           /\ \A s, t \in StartedStripes(n) : SectorOf(s) = SectorOf(t) => s = t
           /\ \A i, j \in Started(n) :
                queued_requests[i].stripe_id = queued_requests[j].stripe_id => i = j
<1>1. \A i \in 1 .. n : /\ i \in DOMAIN queued_requests
                        /\ queued_requests[i] \in Request
                        /\ queued_requests[i].stripe_id \in Stripes
                        /\ queued_requests[i].bit \in Bits
                        /\ CanPop(i)
  <2>1. /\ queued_requests \in Seq(Request) /\ Len(queued_requests) \in Nat
        /\ DOMAIN queued_requests = 1 .. Len(queued_requests)
    BY DEF MFInv, MFTypeOK
  <2>2. ASSUME NEW i \in 1 .. n
        PROVE  i \in DOMAIN queued_requests /\ queued_requests[i] \in Request
    BY <2>1
  <2>3. \A i \in 1 .. n : CanPop(i)
    BY DEF StopsAfter
  <2> QED BY <2>2, <2>3 DEF Request, Bits
<1>2. StartedStripes(n) \subseteq Stripes
  BY <1>1 DEF StartedStripes, Started
<1>3. \A i, j \in Started(n) : i < j => QueuedSector(i) # QueuedSector(j)
  <2> SUFFICES ASSUME NEW i \in Started(n), NEW j \in Started(n), i < j
               PROVE  QueuedSector(i) # QueuedSector(j)
    OBVIOUS
  <2>1. /\ i \in 1 .. n /\ j \in 1 .. n /\ Fresh(i)
        /\ n \in Nat
    BY DEF Started, MFInv, MFTypeOK
  <2>2. i \in {k \in 1 .. (j - 1) : Fresh(k)}
    BY <2>1
  <2>3. CanPop(j)
    BY <1>1, <2>1
  <2> QED BY <2>2, <2>3 DEF CanPop
<1>4. \A i, j \in Started(n) : QueuedSector(i) = QueuedSector(j) => i = j
  BY <1>3 DEF Started
<1>5. \A s, t \in StartedStripes(n) : SectorOf(s) = SectorOf(t) => s = t
  BY <1>4 DEF StartedStripes, QueuedSector
<1>6. ASSUME NEW s \in StartedStripes(n)
      PROVE  /\ StartedBit(n, s) \in Bits
             /\ StartedBit(n, s) \notin headers[s]
             /\ StartedBit(n, s) = FETCHED => s \in SourceStripes
             /\ SectorOf(s) \notin sectors_being_updated
             /\ s \notin DOMAIN header_updates
  <2> DEFINE i == StartedRequest(n, s)
  <2>1. i \in Started(n) /\ queued_requests[i].stripe_id = s
    BY DEF StartedStripes, StartedRequest
  <2>2. i \in 1 .. n /\ Fresh(i)
    BY <2>1 DEF Started
  <2>3. SectorOf(s) \notin sectors_being_updated
    BY <1>1, <2>1, <2>2 DEF CanPop, QueuedSector
  <2>4. s \notin DOMAIN header_updates
    BY <2>3 DEF MFInv, SectorsSerialized, UpdatesSound, UpdateSound
  <2>5. StartedBit(n, s) = queued_requests[i].bit
    BY DEF StartedBit
  <2>6. StartedBit(n, s) = FETCHED => s \in SourceStripes
    BY <1>1, <2>1, <2>2, <2>5 DEF MFInv, SourceFlagsKept
  <2> QED BY <1>1, <2>1, <2>2, <2>3, <2>4, <2>5, <2>6 DEF Fresh
<1>7. \A i, j \in Started(n) :
         queued_requests[i].stripe_id = queued_requests[j].stripe_id => i = j
  BY <1>4 DEF QueuedSector
<1> QED BY <1>2, <1>5, <1>6, <1>7

\* The loop never takes more buffers than the pool has.
LEMMA StartedFitsPool ==
    ASSUME MFInv, NEW n \in 0 .. Len(queued_requests), StopsAfter(n)
    PROVE  Cardinality(Started(n)) \in 0 .. free_buffers
<1>1. /\ free_buffers \in Nat /\ Len(queued_requests) \in Nat
  BY DEF MFInv, MFTypeOK
<1>2. CASE n = 0
  <2>1. Started(n) = {}
    BY <1>2 DEF Started
  <2> QED BY <1>1, <2>1, FS_EmptySet
<1>3. CASE n # 0
  <2> DEFINE earlier == {j \in 1 .. (n - 1) : Fresh(j)}
  <2>1. n \in 1 .. n /\ n - 1 \in Nat
    BY <1>1, <1>3
  <2>2. Cardinality(earlier) < free_buffers
    BY <2>1 DEF StopsAfter, CanPop
  <2>3. IsFiniteSet(earlier) /\ Cardinality(earlier) \in Nat
    <3>1. IsFiniteSet(1 .. (n - 1))
      BY <2>1, FS_Interval
    <3>2. earlier \subseteq 1 .. (n - 1)
      OBVIOUS
    <3> QED BY <3>1, <3>2, FS_Subset, FS_CardinalityType
  <2>4. Started(n) = IF Fresh(n) THEN earlier \cup {n} ELSE earlier
    BY <1>1, <1>3 DEF Started
  <2>5. n \notin earlier
    BY <1>1
  <2> HIDE DEF earlier
  <2>6. Cardinality(earlier \cup {n}) = Cardinality(earlier) + 1
    BY <2>3, <2>5, FS_AddElement
  <2> QED BY <1>1, <2>2, <2>3, <2>4, <2>6
<1> QED BY <1>2, <1>3

\* Removing requests from the front leaves a queue of requests.
LEMMA PopType ==
    ASSUME MFInv, NEW n \in 0 .. Len(queued_requests), PopRequests(n)
    PROVE  /\ queued_requests' \in Seq(Request)
           /\ \A i \in DOMAIN queued_requests' :
                queued_requests'[i].bit = FETCHED
                    => queued_requests'[i].stripe_id \in SourceStripes
<1> DEFINE good == {r \in Request : r.bit = FETCHED => r.stripe_id \in SourceStripes}
           q == queued_requests
<1>1. q \in Seq(Request) /\ Len(q) \in Nat /\ DOMAIN q = 1 .. Len(q)
  BY DEF MFInv, MFTypeOK
<1>2. \A i \in 1 .. Len(q) : q[i] \in good
  BY <1>1 DEF MFInv, SourceFlagsKept
<1>3. n + 1 \in Int /\ Len(q) \in Int /\ \A i \in (n + 1) .. Len(q) : q[i] \in good
  BY <1>1, <1>2
<1>4. SubSeq(q, n + 1, Len(q)) \in Seq(good)
  <2> HIDE DEF good, q
  <2> QED BY <1>3, SubSeqProperties
<1>5. queued_requests' \in Seq(good)
  BY <1>4 DEF PopRequests
<1> QED BY <1>5

-----------------------------------------------------------------------------
(* MFInv is inductive: one lemma per action.                               *)

LEMMA InitInv == MFInit => MFInv
<1> SUFFICES ASSUME MFInit PROVE MFInv
  OBVIOUS
<1> USE DEF MFInit, FlusherFresh
<1>1. FreshHeaders \in Headers
  BY FlagsDistinct DEF FreshHeaders, Headers, Header
<1>2. \A s \in Stripes : /\ HAS_SOURCE \in FreshHeaders[s] <=> s \in SourceStripes
                         /\ FETCHED \notin FreshHeaders[s]
                         /\ WRITTEN \notin FreshHeaders[s]
  BY FlagsDistinct DEF FreshHeaders
<1>3. SharedTypeOK /\ \A s \in Stripes, bit \in Bits : ~Published(s, bit)
  <2>1. /\ SharedTypeOK
        /\ \A s \in Stripes : stripe_fetch_states[s] # Fetched /\ ~stripe_written(s)
    BY <1>1, <1>2, LoadedPublished
       DEF SharedInit, SharedTypeOK, stripe_written, Headers, Header
  <2> QED BY <2>1 DEF Published
<1>4. MFTypeOK
  BY <1>1, <1>3, FlusherAssumption DEF MFTypeOK
<1>5. SectorsSerialized
  BY DEF SectorsSerialized
<1>6. UpdatesSound
  BY DEF UpdatesSound
<1>7. PublishedIsDurable /\ CacheKeepsPublished
  BY <1>3 DEF PublishedIsDurable, CacheKeepsPublished, Bits
<1>8. CopyMatchesPublished
  BY <1>2, <1>3 DEF CopyMatchesPublished, Bits
<1>9. SourceFlagsKept
  BY <1>2 DEF SourceFlagsKept
<1> QED BY <1>4, <1>5, <1>6, <1>7, <1>8, <1>9 DEF MFInv

\* A step that only changes the queue, and leaves good requests in it.
LEMMA QueueStepInv ==
    ASSUME MFInv,
           UNCHANGED <<headers, header_updates, sectors_being_updated, free_buffers>>,
           UNCHANGED metaDevVars, UNCHANGED sharedVars,
           queued_requests' \in Seq(Request),
           \A i \in DOMAIN queued_requests' :
               queued_requests'[i].bit = FETCHED
                   => queued_requests'[i].stripe_id \in SourceStripes
    PROVE  MFInv'
<1> USE DEF MFInv, metaDevVars, sharedVars
<1>1. MFTypeOK'
  BY DEF MFTypeOK, SharedTypeOK
<1>2. SectorsSerialized'
  BY DEF SectorsSerialized
<1>3. \A s, bit : Published(s, bit)' <=> Published(s, bit)
  BY DEF Published, stripe_written
<1>4. UpdatesSound'
  BY <1>3 DEF UpdatesSound, UpdateSound
<1>5. CopyMatchesPublished'
  BY <1>3 DEF CopyMatchesPublished
<1>6. PublishedIsDurable' /\ CacheKeepsPublished'
  BY <1>3 DEF PublishedIsDurable, CacheKeepsPublished
<1>7. SourceFlagsKept'
  BY DEF SourceFlagsKept
<1> QED BY <1>1, <1>2, <1>4, <1>5, <1>6, <1>7

LEMMA EnqueueInv ==
    ASSUME MFInv, NEW s \in Stripes, NEW bit \in Bits, Enqueue(s, bit)
    PROVE  MFInv'
<1> DEFINE good == {r \in Request : r.bit = FETCHED => r.stripe_id \in SourceStripes}
           r == [stripe_id |-> s, bit |-> bit]
<1>1. r \in good
  BY FlagsDistinct DEF Enqueue, Bits, Request
<1>2. queued_requests \in Seq(good)
  <2>1. queued_requests \in Seq(Request)
    BY DEF MFInv, MFTypeOK
  <2>2. \A i \in DOMAIN queued_requests : queued_requests[i] \in good
    BY <2>1 DEF MFInv, SourceFlagsKept
  <2>3. queued_requests \in [1 .. Len(queued_requests) -> good] /\ Len(queued_requests) \in Nat
    BY <2>1, <2>2
  <2> HIDE DEF good
  <2> QED BY <2>3, SeqDef
<1>3. queued_requests' = queued_requests \o <<r>>
  BY DEF Enqueue, SetStripeFetched, SetStripeWritten, EnqueueAll
<1>4. queued_requests' \in Seq(good)
  <2> HIDE DEF good, r
  <2> QED BY <1>1, <1>2, <1>3
<1>5. /\ queued_requests' \in Seq(Request)
      /\ \A i \in DOMAIN queued_requests' :
            queued_requests'[i].bit = FETCHED
                => queued_requests'[i].stripe_id \in SourceStripes
  BY <1>4
<1>6. /\ UNCHANGED <<headers, header_updates, sectors_being_updated, free_buffers>>
      /\ UNCHANGED metaDevVars /\ UNCHANGED sharedVars
  BY DEF Enqueue, SetStripeFetched, SetStripeWritten, EnqueueAll
<1> QED BY <1>5, <1>6, QueueStepInv

LEMMA StartWritesSubmitFailsInv ==
    ASSUME MFInv, NEW n \in 0 .. Len(queued_requests), StartWritesSubmitFails(n)
    PROVE  MFInv'
BY PopType, QueueStepInv DEF StartWritesSubmitFails

LEMMA StutterInv == MFInv /\ UNCHANGED mfVars => MFInv'
BY QueueStepInv DEF mfVars, flusherVars, MFInv, MFTypeOK, SourceFlagsKept

LEMMA MetaReloadInv == MFInv /\ MetaReload => MFInv'
<1> SUFFICES ASSUME MFInv, MetaReload PROVE MFInv'
  OBVIOUS
<1> USE DEF MetaReload
<1>1. /\ meta_durable \in Headers
      /\ \A s \in Stripes : /\ HAS_SOURCE \in meta_durable[s] <=> s \in SourceStripes
                            /\ FETCHED \in meta_durable[s] => s \in SourceStripes
  BY DEF MFInv, MFTypeOK, SourceFlagsKept
<1>2. /\ SharedTypeOK'
      /\ \A s \in Stripes, bit \in Bits : Published(s, bit)' <=> bit \in meta_durable[s]
  <2>1. /\ stripe_fetch_states' \in [Stripes -> FetchStates]
        /\ stripe_write_states' \in [Stripes -> WriteStates]
        /\ \A s \in Stripes :
              /\ stripe_fetch_states'[s] = Fetched <=> FETCHED \in meta_durable[s]
              /\ stripe_write_states'[s] = Written <=> WRITTEN \in meta_durable[s]
        /\ fetched_stripes_count' \in Nat /\ source_stripes_count' \in Nat
    BY <1>1, LoadedPublished DEF SharedLoad, Headers, Header
  <2> QED BY <2>1, FlagsDistinct DEF SharedTypeOK, Published, stripe_written, Bits
<1>3. MFTypeOK'
  BY <1>1, <1>2, FlusherAssumption DEF MFTypeOK
<1>4. SectorsSerialized'
  BY DEF SectorsSerialized
<1>5. UpdatesSound'
  BY DEF UpdatesSound
<1>6. PublishedIsDurable' /\ CacheKeepsPublished'
  BY <1>2 DEF PublishedIsDurable, CacheKeepsPublished, Bits
<1>7. CopyMatchesPublished'
  BY <1>2 DEF CopyMatchesPublished, Bits
<1>8. SourceFlagsKept'
  BY <1>1 DEF SourceFlagsKept
<1> QED BY <1>3, <1>4, <1>5, <1>6, <1>7, <1>8 DEF MFInv

LEMMA MetaWriteBackInv ==
    ASSUME MFInv, NEW sector \in Sectors, MetaWriteBack(sector)
    PROVE  MFInv'
<1> USE DEF MFInv, MetaWriteBack, flusherVars, sharedVars
<1>1. /\ meta_durable' \in Headers
      /\ \A t \in Stripes : meta_durable'[t] \in {meta_cache[t], meta_durable[t]}
  BY DEF MFTypeOK, Headers
<1>2. MFTypeOK'
  BY <1>1 DEF MFTypeOK, SharedTypeOK
<1>3. SectorsSerialized'
  BY DEF SectorsSerialized
<1>4. \A s, bit : Published(s, bit)' <=> Published(s, bit)
  BY DEF Published, stripe_written
<1>5. UpdatesSound'
  BY <1>1, <1>4 DEF MFTypeOK, UpdatesSound, UpdateSound
<1>6. CopyMatchesPublished'
  BY <1>4 DEF CopyMatchesPublished
<1>7. PublishedIsDurable' /\ CacheKeepsPublished'
  BY <1>1, <1>4 DEF PublishedIsDurable, CacheKeepsPublished
<1>8. SourceFlagsKept'
  BY <1>1 DEF SourceFlagsKept
<1> QED BY <1>2, <1>3, <1>5, <1>6, <1>7, <1>8

\* The device's answer.  A sector write cannot lose a published bit, because
\* the buffer holds the worker's whole sector; it cannot disturb the flush of
\* another update, because that is for another sector.
LEMMA MetaIoDoneInv ==
    ASSUME MFInv, NEW s \in Stripes, NEW result \in {"ok", "err"}, MetaIoDone(s, result)
    PROVE  MFInv'
<1>1. /\ s \in DOMAIN meta_io /\ s \in DOMAIN header_updates
      /\ meta_io[s].result = "none" /\ meta_io[s] \in IoState
      /\ meta_io' = [meta_io EXCEPT ![s].result = result]
      /\ UNCHANGED flusherVars /\ UNCHANGED sharedVars
  BY DEF MetaIoDone, MFInv, MFTypeOK
<1>2. /\ DOMAIN meta_io' = DOMAIN meta_io
      /\ \A t \in DOMAIN meta_io : t # s => meta_io'[t] = meta_io[t]
      /\ meta_io'[s].op = meta_io[s].op /\ meta_io'[s].result = result
      /\ meta_io'[s] \in IoState
  BY <1>1 DEF IoState
<1>3. \A t, bit : Published(t, bit)' <=> Published(t, bit)
  BY <1>1 DEF Published, stripe_written, sharedVars
<1>4. /\ UpdateSound(s, header_updates[s], meta_io[s])
      /\ header_updates[s] \in Update
  BY <1>1 DEF MFInv, UpdatesSound, MFTypeOK
<1>5. SectorsSerialized' /\ CopyMatchesPublished'
  BY <1>1, <1>3 DEF MFInv, SectorsSerialized, CopyMatchesPublished, flusherVars
<1>6. SUFFICES /\ meta_cache' \in Headers /\ meta_durable' \in Headers
               /\ UpdatesSound' /\ PublishedIsDurable' /\ CacheKeepsPublished'
               /\ \A t \in Stripes : \A h \in {meta_cache', meta_durable'} :
                    /\ HAS_SOURCE \in h[t] <=> t \in SourceStripes
                    /\ FETCHED \in h[t] => t \in SourceStripes
  <2>1. MFTypeOK'
    BY <1>1, <1>2, <1>6 DEF MFInv, MFTypeOK, SharedTypeOK, flusherVars, sharedVars
  <2>2. SourceFlagsKept'
    BY <1>1, <1>6 DEF MFInv, SourceFlagsKept, flusherVars
  <2> QED BY <1>5, <1>6, <2>1, <2>2 DEF MFInv
<1>7. CASE /\ meta_io[s].op = "write"
           /\ meta_cache' = SectorWritten(s)
           /\ UNCHANGED meta_durable
  <2>1. /\ meta_cache' \in Headers
        /\ \A t \in Stripes :
             /\ SectorOf(t) = SectorOf(s) => meta_cache'[t] = headers[t]
             /\ SectorOf(t) # SectorOf(s) => meta_cache'[t] = meta_cache[t]
    BY <1>4, <1>7 DEF SectorWritten, UpdateSound, Update, Headers, MFInv, MFTypeOK
  <2>2. UpdatesSound'
    <3> SUFFICES ASSUME NEW t \in DOMAIN header_updates
                 PROVE  UpdateSound(t, header_updates[t], meta_io[t])'
      BY <1>1 DEF UpdatesSound, flusherVars
    <3>1. UpdateSound(t, header_updates[t], meta_io[t]) /\ t \in Stripes /\ t \in DOMAIN meta_io
      BY DEF MFInv, UpdatesSound, MFTypeOK
    <3>2. CASE t = s
      BY <1>1, <1>2, <1>3, <1>7, <2>1, <3>1, <3>2 DEF UpdateSound, flusherVars
    <3>3. CASE t # s
      <4>1. SectorOf(t) # SectorOf(s)
        BY <1>1, <1>4, <3>1, <3>3 DEF MFInv, SectorsSerialized, UpdateSound
      <4> QED BY <1>1, <1>2, <1>3, <1>7, <2>1, <3>1, <3>3, <4>1 DEF UpdateSound, flusherVars
    <3> QED BY <3>2, <3>3
  <2>3. PublishedIsDurable'
    BY <1>3, <1>7 DEF MFInv, PublishedIsDurable
  <2>4. CacheKeepsPublished'
    BY <1>3, <2>1 DEF MFInv, CacheKeepsPublished, CopyMatchesPublished
  <2>5. \A t \in Stripes : \A h \in {meta_cache', meta_durable'} :
           /\ HAS_SOURCE \in h[t] <=> t \in SourceStripes
           /\ FETCHED \in h[t] => t \in SourceStripes
    BY <1>7, <2>1 DEF MFInv, SourceFlagsKept
  <2> QED BY <1>7, <2>1, <2>2, <2>3, <2>4, <2>5 DEF MFInv, MFTypeOK
<1>8. CASE /\ meta_io[s].op = "flush"
           /\ meta_durable' = meta_cache
           /\ UNCHANGED meta_cache
  <2>1. UpdatesSound'
    <3> SUFFICES ASSUME NEW t \in DOMAIN header_updates
                 PROVE  UpdateSound(t, header_updates[t], meta_io[t])'
      BY <1>1 DEF UpdatesSound, flusherVars
    <3>1. UpdateSound(t, header_updates[t], meta_io[t]) /\ t \in DOMAIN meta_io
      BY DEF MFInv, UpdatesSound, MFTypeOK
    <3> QED BY <1>1, <1>2, <1>3, <1>8, <3>1 DEF UpdateSound, flusherVars
  <2>2. PublishedIsDurable' /\ CacheKeepsPublished'
    BY <1>3, <1>8 DEF MFInv, PublishedIsDurable, CacheKeepsPublished
  <2>3. \A t \in Stripes : \A h \in {meta_cache', meta_durable'} :
           /\ HAS_SOURCE \in h[t] <=> t \in SourceStripes
           /\ FETCHED \in h[t] => t \in SourceStripes
    BY <1>8 DEF MFInv, SourceFlagsKept
  <2> QED BY <1>8, <2>1, <2>2, <2>3 DEF MFInv, MFTypeOK
<1>9. CASE /\ result = "err"
           /\ UNCHANGED <<meta_cache, meta_durable>>
  <2>1. UpdatesSound'
    <3> SUFFICES ASSUME NEW t \in DOMAIN header_updates
                 PROVE  UpdateSound(t, header_updates[t], meta_io[t])'
      BY <1>1 DEF UpdatesSound, flusherVars
    <3>1. UpdateSound(t, header_updates[t], meta_io[t]) /\ t \in DOMAIN meta_io
      BY DEF MFInv, UpdatesSound, MFTypeOK
    <3> QED BY <1>1, <1>2, <1>3, <1>9, <3>1 DEF UpdateSound, flusherVars
  <2>2. PublishedIsDurable' /\ CacheKeepsPublished'
    BY <1>3, <1>9 DEF MFInv, PublishedIsDurable, CacheKeepsPublished
  <2>3. \A t \in Stripes : \A h \in {meta_cache', meta_durable'} :
           /\ HAS_SOURCE \in h[t] <=> t \in SourceStripes
           /\ FETCHED \in h[t] => t \in SourceStripes
    BY <1>9 DEF MFInv, SourceFlagsKept
  <2> QED BY <1>9, <2>1, <2>2, <2>3 DEF MFInv, MFTypeOK
<1> QED BY <1>7, <1>8, <1>9 DEF MetaIoDone

\* start_writes.  The requests it starts are for sectors of which no update is
\* in progress, so the buffers of the updates in progress stay exact.
LEMMA StartWritesInv ==
    ASSUME MFInv, NEW n \in 0 .. Len(queued_requests), StartWrites(n)
    PROVE  MFInv'
<1> DEFINE SS == StartedStripes(n)
<1>1. /\ SS \subseteq Stripes
      /\ \A s \in SS :
           /\ StartedBit(n, s) \in Bits
           /\ StartedBit(n, s) \notin headers[s]
           /\ StartedBit(n, s) = FETCHED => s \in SourceStripes
           /\ SectorOf(s) \notin sectors_being_updated
           /\ s \notin DOMAIN header_updates
      /\ \A s, t \in SS : SectorOf(s) = SectorOf(t) => s = t
  BY StartedFacts DEF StartWrites
<1>2. /\ headers' \in Headers
      /\ \A s \in SS : headers'[s] = headers[s] \cup {StartedBit(n, s)}
      /\ \A s \in Stripes \ SS : headers'[s] = headers[s]
  BY <1>1, FlagsDistinct
     DEF StartWrites, HeadersAfterStart, Headers, Header, Bits, MFInv, MFTypeOK
<1>3. /\ DOMAIN header_updates' = DOMAIN header_updates \cup SS
      /\ \A s \in SS : header_updates'[s] = NewUpdate(n, s)
      /\ \A s \in DOMAIN header_updates : header_updates'[s] = header_updates[s]
  BY <1>1 DEF StartWrites
<1>4. /\ DOMAIN meta_io' = DOMAIN header_updates'
      /\ \A s \in SS : meta_io'[s] = [op |-> "write", result |-> "none"]
      /\ \A s \in DOMAIN header_updates : meta_io'[s] = meta_io[s]
  BY <1>1, <1>3 DEF StartWrites, MFInv, MFTypeOK
<1>5. \A s \in SS : /\ NewUpdate(n, s).stage = Writing
                    /\ NewUpdate(n, s).header = headers'[s]
                    /\ NewUpdate(n, s).bit = StartedBit(n, s)
                    /\ NewUpdate(n, s).sector = SectorOf(s)
                    /\ NewUpdate(n, s).buffer = headers'
                    /\ NewUpdate(n, s) \in Update
  BY <1>1, <1>2, SectorOfType
     DEF NewUpdate, StartWrites, Update, Headers, Bits
<1>6. /\ sectors_being_updated' = sectors_being_updated \cup {SectorOf(s) : s \in SS}
      /\ free_buffers' \in Nat
      /\ UNCHANGED <<meta_cache, meta_durable>> /\ UNCHANGED sharedVars
      /\ PopRequests(n)
  <2>1. Cardinality(Started(n)) \in 0 .. free_buffers
    BY StartedFitsPool DEF StartWrites
  <2> QED BY <2>1 DEF StartWrites, MFInv, MFTypeOK
<1>7. \A s, bit : Published(s, bit)' <=> Published(s, bit)
  BY <1>6 DEF Published, stripe_written, sharedVars
<1> HIDE DEF SS
<1>8. MFTypeOK'
  <2>1. \A s \in DOMAIN header_updates' : header_updates'[s] \in Update
    BY <1>3, <1>5 DEF MFInv, MFTypeOK
  <2>2. \A s \in DOMAIN meta_io' : meta_io'[s] \in IoState
    BY <1>3, <1>4 DEF MFInv, MFTypeOK, IoState
  <2>3. queued_requests' \in Seq(Request)
    BY <1>6, PopType
  <2>4. sectors_being_updated' \subseteq Sectors
    BY <1>1, <1>6, SectorOfType DEF MFInv, MFTypeOK
  <2>5. SharedTypeOK'
    BY <1>6 DEF MFInv, MFTypeOK, SharedTypeOK, sharedVars
  <2>6. DOMAIN header_updates' \subseteq Stripes
    BY <1>1, <1>3 DEF MFInv, MFTypeOK
  <2> QED BY <1>2, <1>4, <1>6, <2>1, <2>2, <2>3, <2>4, <2>5, <2>6 DEF MFInv, MFTypeOK
<1>9. SectorsSerialized'
  <2>1. /\ \A s \in SS : header_updates'[s].sector = SectorOf(s)
        /\ \A s \in DOMAIN header_updates :
              header_updates'[s].sector = header_updates[s].sector
    BY <1>3, <1>5
  <2>2. sectors_being_updated' =
          {header_updates'[s].sector : s \in DOMAIN header_updates'}
    BY <1>3, <1>6, <2>1 DEF MFInv, SectorsSerialized
  <2>3. \A s \in DOMAIN header_updates :
           header_updates[s].sector \in sectors_being_updated
    BY DEF MFInv, SectorsSerialized
  <2>4. \A s, t \in DOMAIN header_updates' :
           header_updates'[s].sector = header_updates'[t].sector => s = t
    BY <1>1, <1>3, <2>1, <2>3 DEF MFInv, SectorsSerialized
  <2> QED BY <2>2, <2>4 DEF SectorsSerialized
<1>10. UpdatesSound'
  <2> SUFFICES ASSUME NEW s \in DOMAIN header_updates'
               PROVE  UpdateSound(s, header_updates[s], meta_io[s])'
    BY DEF UpdatesSound
  <2>1. CASE s \in SS
    <3>1. ~Published(s, StartedBit(n, s))
      BY <1>1, <2>1 DEF MFInv, CopyMatchesPublished, Bits
    <3> QED BY <1>1, <1>2, <1>3, <1>4, <1>5, <1>7, <2>1, <3>1 DEF UpdateSound
  <2>2. CASE s \in DOMAIN header_updates
    <3>1. /\ UpdateSound(s, header_updates[s], meta_io[s])
          /\ s \in Stripes /\ s \notin SS
      BY <1>1, <2>2 DEF MFInv, UpdatesSound, MFTypeOK
    <3>2. header_updates[s].sector \in sectors_being_updated
      BY <2>2 DEF MFInv, SectorsSerialized
    <3>3. \A t \in Stripes : SectorOf(t) = header_updates[s].sector => headers'[t] = headers[t]
      BY <1>1, <1>2, <3>2
    <3> QED BY <1>2, <1>3, <1>4, <1>6, <1>7, <2>2, <3>1, <3>3 DEF UpdateSound
  <2> QED BY <1>3, <2>1, <2>2
<1>11. CopyMatchesPublished'
  <2> SUFFICES ASSUME NEW s \in Stripes, NEW bit \in Bits
               PROVE  bit \in headers'[s] <=>
                        \/ Published(s, bit)
                        \/ s \in DOMAIN header_updates' /\ header_updates'[s].bit = bit
    BY <1>7 DEF CopyMatchesPublished, Bits
  <2>1. bit \in headers[s] <=>
            \/ Published(s, bit)
            \/ s \in DOMAIN header_updates /\ header_updates[s].bit = bit
    BY DEF MFInv, CopyMatchesPublished, Bits
  <2>2. CASE s \in SS
    BY <1>1, <1>2, <1>3, <1>5, <2>1, <2>2
  <2>3. CASE s \notin SS
    BY <1>2, <1>3, <2>1, <2>3
  <2> QED BY <2>2, <2>3
<1>12. PublishedIsDurable' /\ CacheKeepsPublished'
  BY <1>6, <1>7 DEF MFInv, PublishedIsDurable, CacheKeepsPublished
<1>13. SourceFlagsKept'
  <2>1. \A s \in Stripes : /\ HAS_SOURCE \in headers'[s] <=> s \in SourceStripes
                           /\ FETCHED \in headers'[s] => s \in SourceStripes
    BY <1>1, <1>2, FlagsDistinct DEF MFInv, SourceFlagsKept, Bits
  <2>2. \A i \in DOMAIN queued_requests' :
           queued_requests'[i].bit = FETCHED
               => queued_requests'[i].stripe_id \in SourceStripes
    BY <1>6, PopType
  <2> QED BY <1>6, <2>1, <2>2 DEF MFInv, SourceFlagsKept
<1> QED BY <1>8, <1>9, <1>10, <1>11, <1>12, <1>13 DEF MFInv

\* What poll_channel publishes: exactly the bits of the updates whose flush
\* succeeded, since every other bit of their headers was published before.
LEMMA PollPublishes ==
    ASSUME MFInv, NEW submitted \in BOOLEAN, PollChannel(submitted),
           NEW s \in Stripes, NEW bit \in Bits
    PROVE  Published(s, bit)' <=>
             \/ Published(s, bit)
             \/ s \in Succeeded(Flushing) /\ header_updates[s].bit = bit
<1> DEFINE SF == Succeeded(Flushing)
<1>1. /\ stripe_fetch_states'[s] = (IF s \in SF /\ FETCHED \in header_updates[s].header
                                    THEN Fetched ELSE stripe_fetch_states[s])
      /\ stripe_write_states'[s] = (IF s \in SF /\ WRITTEN \in header_updates[s].header
                                    THEN Written ELSE stripe_write_states[s])
  BY DEF PollChannel, SetStripeHeaders
<1>2. s \in SF => /\ header_updates[s].header = headers[s]
                  /\ s \in DOMAIN header_updates
  BY DEF MFInv, UpdatesSound, UpdateSound, Succeeded
<1>3. \A b \in Bits : b \in headers[s] <=>
            \/ Published(s, b)
            \/ s \in DOMAIN header_updates /\ header_updates[s].bit = b
  BY DEF MFInv, CopyMatchesPublished, Bits
<1> HIDE DEF SF
<1>4. CASE bit = FETCHED
  <2>1. Published(s, bit) <=> stripe_fetch_states[s] = Fetched
    BY <1>4, FlagsDistinct DEF Published
  <2>2. Published(s, bit)' <=> stripe_fetch_states'[s] = Fetched
    BY <1>4, FlagsDistinct DEF Published
  <2> QED BY <1>1, <1>2, <1>3, <1>4, <2>1, <2>2 DEF SF
<1>5. CASE bit = WRITTEN
  <2>1. Published(s, bit) <=> stripe_write_states[s] = Written
    BY <1>5, FlagsDistinct DEF Published, stripe_written
  <2>2. Published(s, bit)' <=> stripe_write_states'[s] = Written
    BY <1>5, FlagsDistinct DEF Published, stripe_written
  <2> QED BY <1>1, <1>2, <1>3, <1>5, <2>1, <2>2 DEF SF
<1> QED BY <1>4, <1>5 DEF Bits

\* poll_channel.  It publishes bits that are durable, and the bits it takes
\* back from the worker's copy were never published.
LEMMA PollChannelInv ==
    ASSUME MFInv, NEW submitted \in BOOLEAN, PollChannel(submitted)
    PROVE  MFInv'
<1> DEFINE SF == Succeeded(Flushing)
           SW == Succeeded(Writing)
           RV == Reverted(submitted)
           gone == SF \cup RV
<1>1. /\ SF \subseteq DOMAIN header_updates /\ SW \subseteq DOMAIN header_updates
      /\ RV \subseteq DOMAIN header_updates
      /\ DOMAIN header_updates \subseteq Stripes
      /\ DOMAIN meta_io = DOMAIN header_updates
  BY DEF Succeeded, Reverted, FailedUpdates, MFInv, MFTypeOK
<1>2. /\ \A s \in SF : /\ header_updates[s].stage = Flushing
                       /\ meta_io[s].result = "ok" /\ s \notin RV
      /\ \A s \in SW : header_updates[s].stage = Writing /\ meta_io[s].result = "ok"
  BY DEF Succeeded, Reverted, FailedUpdates, Writing, Flushing
<1>3. /\ headers' = [s \in Stripes |-> IF s \in RV
                                       THEN headers[s] \ {header_updates[s].bit}
                                       ELSE headers[s]]
      /\ header_updates' =
           [s \in DOMAIN header_updates \ gone |->
              IF s \in SW THEN [header_updates[s] EXCEPT !.stage = Flushing]
                          ELSE header_updates[s]]
      /\ sectors_being_updated' =
           sectors_being_updated \ {header_updates[s].sector : s \in gone}
      /\ free_buffers' = free_buffers + Cardinality(ReturnedBuffers)
      /\ meta_io' = [s \in DOMAIN meta_io \ gone |->
                       IF s \in SW THEN [op |-> "flush", result |-> "none"] ELSE meta_io[s]]
      /\ fetched_stripes_count' = fetched_stripes_count +
            Cardinality(NewlyFetched(SF, [s \in SF |-> header_updates[s].header]))
      /\ UNCHANGED <<queued_requests, meta_cache, meta_durable, source_stripes_count>>
  BY DEF PollChannel, SetStripeHeaders, Gone, RevertedHeaders, ReleasedSectors
<1>4. \A s \in DOMAIN header_updates : /\ header_updates[s] \in Update
                                       /\ meta_io[s] \in IoState
                                       /\ UpdateSound(s, header_updates[s], meta_io[s])
  BY <1>1 DEF MFInv, MFTypeOK, UpdatesSound
<1>5. \A s \in Stripes, bit \in Bits :
          Published(s, bit)' <=> \/ Published(s, bit)
                                 \/ s \in SF /\ header_updates[s].bit = bit
  BY PollPublishes
<1>6. /\ stripe_fetch_states' \in [Stripes -> FetchStates]
      /\ stripe_write_states' \in [Stripes -> WriteStates]
  BY DEF PollChannel, SetStripeHeaders, FetchStates, WriteStates, MFInv, MFTypeOK, SharedTypeOK
<1>7. Cardinality(ReturnedBuffers) \in Nat
  <2>1. ReturnedBuffers \subseteq Stripes
    BY <1>1 DEF ReturnedBuffers, FailedUpdates
  <2> QED BY <2>1, StripesFinite
<1>8. Cardinality(NewlyFetched(SF, [s \in SF |-> header_updates[s].header])) \in Nat
  <2>1. NewlyFetched(SF, [s \in SF |-> header_updates[s].header]) \subseteq Stripes
    BY <1>1 DEF NewlyFetched
  <2> QED BY <2>1, StripesFinite
<1> HIDE DEF SF, SW, RV
<1>9. /\ DOMAIN header_updates' = DOMAIN header_updates \ gone
      /\ DOMAIN meta_io' = DOMAIN header_updates \ gone
      /\ \A s \in DOMAIN header_updates \ gone :
           /\ s \notin SW => /\ header_updates'[s] = header_updates[s]
                             /\ meta_io'[s] = meta_io[s]
           /\ s \in SW => /\ header_updates'[s] = [header_updates[s] EXCEPT !.stage = Flushing]
                          /\ meta_io'[s] = [op |-> "flush", result |-> "none"]
           /\ header_updates'[s] \in Update /\ meta_io'[s] \in IoState
           /\ header_updates'[s].sector = header_updates[s].sector
           /\ header_updates'[s].bit = header_updates[s].bit
           /\ header_updates'[s].header = header_updates[s].header
           /\ header_updates'[s].buffer = header_updates[s].buffer
  BY <1>1, <1>3, <1>4 DEF Update, IoState
<1>10. headers' \in Headers /\ \A s \in Stripes : headers'[s] \subseteq headers[s]
  BY <1>3 DEF MFInv, MFTypeOK, Headers, Header
<1>11. MFTypeOK'
  <2>1. SharedTypeOK'
    BY <1>3, <1>6, <1>8 DEF SharedTypeOK, MFInv, MFTypeOK
  <2>2. free_buffers' \in Nat
    BY <1>3, <1>7 DEF MFInv, MFTypeOK
  <2>3. sectors_being_updated' \subseteq Sectors
    BY <1>3 DEF MFInv, MFTypeOK
  <2> QED BY <1>1, <1>3, <1>9, <1>10, <2>1, <2>2, <2>3 DEF MFInv, MFTypeOK
<1>12. SectorsSerialized'
  <2>1. \A s, t \in DOMAIN header_updates' :
           header_updates'[s].sector = header_updates'[t].sector => s = t
    BY <1>9 DEF MFInv, SectorsSerialized
  <2>2. sectors_being_updated' =
           {header_updates[s].sector : s \in DOMAIN header_updates \ gone}
    BY <1>1, <1>3 DEF MFInv, SectorsSerialized
  <2>3. sectors_being_updated' =
           {header_updates'[s].sector : s \in DOMAIN header_updates'}
    BY <1>9, <2>2
  <2> QED BY <2>1, <2>3 DEF SectorsSerialized
<1>13. UpdatesSound'
  <2> SUFFICES ASSUME NEW s \in DOMAIN header_updates \ gone
               PROVE  UpdateSound(s, header_updates[s], meta_io[s])'
    BY <1>9 DEF UpdatesSound
  <2>1. /\ s \in Stripes /\ UpdateSound(s, header_updates[s], meta_io[s])
        /\ header_updates[s].bit \in Bits
    BY <1>1, <1>4 DEF Update, Bits
  <2>2. \A t \in Stripes : SectorOf(t) = header_updates[s].sector => headers'[t] = headers[t]
    <3>1. \A t \in RV : t # s /\ header_updates[t].sector = SectorOf(t)
      BY <1>1, <1>4 DEF UpdateSound
    <3>2. \A t \in RV : SectorOf(t) # header_updates[s].sector
      BY <1>1, <3>1 DEF MFInv, SectorsSerialized
    <3> QED BY <1>3, <3>2
  <2>3. headers'[s] = headers[s]
    BY <1>3, <2>1
  <2>4. \A bit \in Bits : bit = header_updates[s].bit => ~Published(s, bit)'
    BY <1>5, <2>1 DEF UpdateSound
  <2>5. ~Published(s, header_updates[s].bit)'
    BY <1>9, <2>1, <2>4 DEF Published, stripe_written
  <2>6. CASE s \notin SW
    BY <1>3, <1>9, <2>1, <2>2, <2>3, <2>5, <2>6 DEF UpdateSound
  <2>7. CASE s \in SW
    <3>1. header_updates[s].bit \in meta_cache[s]
      BY <1>2, <2>1, <2>7 DEF UpdateSound
    <3>2. header_updates'[s].stage = Flushing /\ Flushing # Writing
      BY <1>4, <1>9, <2>7 DEF Update, Flushing, Writing
    <3>3. meta_io'[s].op = "flush" /\ meta_io'[s].result = "none"
      BY <1>9, <2>7
    <3>4. /\ header_updates'[s].sector = SectorOf(s)
          /\ header_updates'[s].header = headers'[s]
          /\ header_updates'[s].bit \in headers'[s]
          /\ header_updates'[s].bit \in meta_cache'[s]
          /\ \A t \in Stripes : SectorOf(t) = header_updates'[s].sector
                                  => header_updates'[s].buffer[t] = headers'[t]
      BY <1>3, <1>9, <2>1, <2>2, <2>3, <3>1 DEF UpdateSound
    <3> QED BY <2>5, <3>2, <3>3, <3>4 DEF UpdateSound
  <2> QED BY <2>6, <2>7
<1>14. CopyMatchesPublished'
  <2> SUFFICES ASSUME NEW s \in Stripes, NEW bit \in Bits
               PROVE  bit \in headers'[s] <=>
                        \/ Published(s, bit)'
                        \/ s \in DOMAIN header_updates' /\ header_updates'[s].bit = bit
    BY DEF CopyMatchesPublished, Bits
  <2>1. bit \in headers[s] <=>
            \/ Published(s, bit)
            \/ s \in DOMAIN header_updates /\ header_updates[s].bit = bit
    BY DEF MFInv, CopyMatchesPublished, Bits
  <2>2. s \in DOMAIN header_updates => ~Published(s, header_updates[s].bit)
    BY <1>4 DEF UpdateSound
  <2>3. CASE s \in RV
    BY <1>1, <1>2, <1>3, <1>5, <1>9, <2>1, <2>2, <2>3
  <2>4. CASE s \notin RV
    BY <1>1, <1>3, <1>5, <1>9, <2>1, <2>4
  <2> QED BY <2>3, <2>4
<1>15. PublishedIsDurable' /\ CacheKeepsPublished'
  <2>1. \A s \in SF : /\ header_updates[s].bit \in meta_durable[s]
                      /\ header_updates[s].bit \in meta_cache[s]
    <3> SUFFICES ASSUME NEW s \in SF
                 PROVE  /\ header_updates[s].bit \in meta_durable[s]
                        /\ header_updates[s].bit \in meta_cache[s]
      OBVIOUS
    <3>1. /\ UpdateSound(s, header_updates[s], meta_io[s]) /\ meta_io[s] \in IoState
          /\ header_updates[s].stage = Flushing /\ meta_io[s].result = "ok"
      BY <1>1, <1>2, <1>4
    <3> QED BY <3>1 DEF UpdateSound, IoState, Writing, Flushing
  <2> QED BY <1>3, <1>5, <2>1 DEF MFInv, PublishedIsDurable, CacheKeepsPublished, Bits
<1>16. SourceFlagsKept'
  <2>1. \A s \in DOMAIN header_updates : header_updates[s].bit # HAS_SOURCE
    BY <1>4, FlagsDistinct DEF Update
  <2>2. \A s \in Stripes : HAS_SOURCE \in headers'[s] <=> HAS_SOURCE \in headers[s]
    BY <1>1, <1>3, <2>1
  <2> QED BY <1>3, <1>10, <2>2 DEF MFInv, SourceFlagsKept
<1> QED BY <1>11, <1>12, <1>13, <1>14, <1>15, <1>16 DEF MFInv

-----------------------------------------------------------------------------
\* MFInv holds in every state the flusher and its device can reach.
THEOREM InvariantHolds == MFSpec => []MFInv
<1>1. MFInit => MFInv
  BY InitInv
<1>2. MFInv /\ [MFNext]_mfVars => MFInv'
  <2> SUFFICES ASSUME MFInv, [MFNext]_mfVars PROVE MFInv'
    OBVIOUS
  <2>1. ASSUME NEW s \in Stripes, NEW bit \in {FETCHED, WRITTEN}, Enqueue(s, bit)
        PROVE  MFInv'
    BY <2>1, EnqueueInv DEF Bits
  <2>2. ASSUME NEW n \in 0 .. Len(queued_requests), StartWrites(n) PROVE MFInv'
    BY <2>2, StartWritesInv
  <2>3. ASSUME NEW n \in 0 .. Len(queued_requests), StartWritesSubmitFails(n)
        PROVE  MFInv'
    BY <2>3, StartWritesSubmitFailsInv
  <2>4. ASSUME NEW submitted \in BOOLEAN, PollChannel(submitted) PROVE MFInv'
    BY <2>4, PollChannelInv
  <2>5. ASSUME NEW s \in Stripes, NEW result \in {"ok", "err"}, MetaIoDone(s, result)
        PROVE  MFInv'
    BY <2>5, MetaIoDoneInv
  <2>6. ASSUME NEW sector \in Sectors, MetaWriteBack(sector) PROVE MFInv'
    BY <2>6, MetaWriteBackInv
  <2>7. CASE MetaReload
    BY <2>7, MetaReloadInv
  <2>8. CASE UNCHANGED mfVars
    BY <2>8, StutterInv
  <2> QED BY <2>1, <2>2, <2>3, <2>4, <2>5, <2>6, <2>7, <2>8 DEF MFNext, FlusherUpdate
<1> QED BY <1>1, <1>2, PTL DEF MFSpec

\* Every variable of the flusher keeps its type: in particular, start_writes
\* never takes a buffer from an empty pool.
THEOREM TypeCorrect == MFSpec => []MFTypeOK
<1>1. MFInv => MFTypeOK
  BY DEF MFInv
<1> QED BY <1>1, InvariantHolds, PTL

\* What the I/O threads are told (set_stripe_header in poll_channel) survives
\* a power loss, whatever requests or submits fail.
THEOREM PublishedSurvives == MFSpec => []PublishedIsDurable
<1>1. MFInv => PublishedIsDurable
  BY DEF MFInv
<1> QED BY <1>1, InvariantHolds, PTL

\* Updates of a sector are serialized, and a sector is blocked exactly while
\* one is in progress (sectors_being_updated in start_writes).
THEOREM OneUpdatePerSector == MFSpec => []SectorsSerialized
<1>1. MFInv => SectorsSerialized
  BY DEF MFInv
<1> QED BY <1>1, InvariantHolds, PTL

\* A failed update leaves no trace in the worker's copy of the headers
\* (the error paths of poll_channel and cleanup_failed_submission).
THEOREM CopyExact == MFSpec => []CopyMatchesPublished
<1>1. MFInv => CopyMatchesPublished
  BY DEF MFInv
<1> QED BY <1>1, InvariantHolds, PTL

-----------------------------------------------------------------------------
(* BuffersConserved, relative to MFInv.                                    *)

WritingStripes == {s \in DOMAIN header_updates : header_updates[s].stage = Writing}

\* The loop of start_writes takes one buffer per stripe it starts.
LEMMA StartedCount ==
    ASSUME MFInv, NEW n \in 0 .. Len(queued_requests), StopsAfter(n)
    PROVE  Cardinality(StartedStripes(n)) = Cardinality(Started(n))
<1> DEFINE f == [i \in Started(n) |-> queued_requests[i].stripe_id]
<1>1. IsFiniteSet(Started(n))
  <2>1. n \in Nat
    BY DEF MFInv, MFTypeOK
  <2>2. IsFiniteSet(1 .. n) /\ Started(n) \subseteq 1 .. n
    BY <2>1, FS_Interval DEF Started
  <2> QED BY <2>2, FS_Subset
<1>2. f \in Surjection(Started(n), StartedStripes(n))
  BY DEF Surjection, StartedStripes
<1>3. f \in Injection(Started(n), StartedStripes(n))
  BY <1>2, StartedFacts DEF Injection, Surjection, IsInjective
<1> QED BY <1>1, <1>2, <1>3, FS_Surjection

LEMMA StartWritesBuffers ==
    ASSUME MFInv, BuffersConserved, NEW n \in 0 .. Len(queued_requests), StartWrites(n)
    PROVE  BuffersConserved'
<1> DEFINE SS == StartedStripes(n)
<1>1. SS \subseteq Stripes /\ \A s \in SS : s \notin DOMAIN header_updates
  BY StartedFacts DEF StartWrites
<1>2. WritingStripes' = WritingStripes \cup SS /\ WritingStripes \cap SS = {}
  <2>1. /\ DOMAIN header_updates' = DOMAIN header_updates \cup SS
        /\ \A s \in SS : header_updates'[s].stage = Writing
        /\ \A s \in DOMAIN header_updates : header_updates'[s] = header_updates[s]
    BY <1>1 DEF StartWrites, NewUpdate
  <2> QED BY <1>1, <2>1 DEF WritingStripes
<1>3. WritingStripes \subseteq Stripes
  BY DEF WritingStripes, MFInv, MFTypeOK
<1>4. Cardinality(SS) = Cardinality(Started(n)) /\ Cardinality(SS) \in Nat
  BY <1>1, StartedCount, StripesFinite DEF StartWrites
<1>5. Cardinality(WritingStripes') = Cardinality(WritingStripes) + Cardinality(SS)
  <2>1. IsFiniteSet(WritingStripes) /\ IsFiniteSet(SS)
    BY <1>1, <1>3, StripesFinite
  <2>2. /\ Cardinality(WritingStripes \cup SS) =
             Cardinality(WritingStripes) + Cardinality(SS) - Cardinality(WritingStripes \cap SS)
        /\ Cardinality(WritingStripes) \in Nat
    BY <2>1, FS_Union, FS_CardinalityType
  <2>3. Cardinality(WritingStripes \cap SS) = 0
    BY <1>2, FS_EmptySet
  <2>4. Cardinality(WritingStripes') = Cardinality(WritingStripes \cup SS)
    BY <1>2
  <2> HIDE DEF SS
  <2> QED BY <1>4, <2>2, <2>3, <2>4
<1>6. free_buffers' = free_buffers - Cardinality(SS) /\ free_buffers \in Nat
  BY <1>4 DEF StartWrites, MFInv, MFTypeOK
<1>7. Cardinality(WritingStripes) \in Nat
  BY <1>3, StripesFinite
<1> HIDE DEF SS
<1> QED BY <1>4, <1>5, <1>6, <1>7 DEF BuffersConserved, WritingStripes

\* A poll returns exactly the buffers of the updates that stop writing.
LEMMA PollChannelBuffers ==
    ASSUME MFInv, BuffersConserved, NEW submitted \in BOOLEAN, PollChannel(submitted)
    PROVE  BuffersConserved'
<1>1. ReturnedBuffers \subseteq WritingStripes /\ WritingStripes \subseteq Stripes
  BY DEF ReturnedBuffers, WritingStripes, Succeeded, FailedUpdates, MFInv, MFTypeOK
<1>2. WritingStripes' = WritingStripes \ ReturnedBuffers
  <2>1. DOMAIN header_updates' = DOMAIN header_updates \ Gone(submitted)
    BY DEF PollChannel
  <2>2. \A s \in DOMAIN header_updates' :
           header_updates'[s].stage =
              (IF s \in Succeeded(Writing) THEN Flushing ELSE header_updates[s].stage)
    <3>1. \A s \in DOMAIN header_updates : header_updates[s] \in Update
      BY DEF MFInv, MFTypeOK
    <3> QED BY <3>1 DEF PollChannel, Update
  <2>3. \A s \in WritingStripes : s \in Gone(submitted) => s \in ReturnedBuffers
    BY DEF Gone, Reverted, ReturnedBuffers, Succeeded, FailedUpdates, WritingStripes,
           Writing, Flushing
  <2>4. \A s \in ReturnedBuffers : s \in Gone(submitted) \/ s \in Succeeded(Writing)
    BY DEF Gone, Reverted, ReturnedBuffers
  <2>5. Succeeded(Writing) \subseteq ReturnedBuffers /\ Flushing # Writing
    BY DEF ReturnedBuffers, Writing, Flushing
  <2> QED BY <2>1, <2>2, <2>3, <2>4, <2>5 DEF WritingStripes
<1>3. /\ IsFiniteSet(WritingStripes) /\ Cardinality(WritingStripes) \in Nat
      /\ Cardinality(ReturnedBuffers) \in Nat
  BY <1>1, StripesFinite
<1>4. Cardinality(WritingStripes') = Cardinality(WritingStripes) - Cardinality(ReturnedBuffers)
  <2>1. WritingStripes \cap ReturnedBuffers = ReturnedBuffers
    BY <1>1
  <2> QED BY <1>2, <1>3, <2>1, FS_Difference
<1>5. free_buffers' = free_buffers + Cardinality(ReturnedBuffers) /\ free_buffers \in Nat
  BY DEF PollChannel, MFInv, MFTypeOK
<1> QED BY <1>3, <1>4, <1>5 DEF BuffersConserved, WritingStripes

\* No buffer of the pool is lost or returned twice, whichever step of an
\* update fails (return_buffer in poll_channel and cleanup_failed_submission).
THEOREM BuffersKept == MFSpec => []BuffersConserved
<1>1. MFInit => BuffersConserved
  <2> SUFFICES ASSUME MFInit PROVE BuffersConserved
    OBVIOUS
  <2>1. {s \in DOMAIN header_updates : header_updates[s].stage = Writing} = {}
    BY DEF MFInit, FlusherFresh
  <2> QED BY <2>1, FS_EmptySet, FlusherAssumption
          DEF MFInit, FlusherFresh, BuffersConserved
<1>2. MFInv /\ BuffersConserved /\ [MFNext]_mfVars => BuffersConserved'
  <2> SUFFICES ASSUME MFInv, BuffersConserved, [MFNext]_mfVars PROVE BuffersConserved'
    OBVIOUS
  <2>1. CASE UNCHANGED <<free_buffers, header_updates>>
    BY <2>1 DEF BuffersConserved
  <2>2. ASSUME NEW s \in Stripes, NEW bit \in {FETCHED, WRITTEN}, Enqueue(s, bit)
        PROVE  BuffersConserved'
    BY <2>1, <2>2 DEF Enqueue, SetStripeFetched, SetStripeWritten, EnqueueAll
  <2>3. ASSUME NEW n \in 0 .. Len(queued_requests), StartWrites(n)
        PROVE  BuffersConserved'
    BY <2>3, StartWritesBuffers
  <2>4. ASSUME NEW n \in 0 .. Len(queued_requests), StartWritesSubmitFails(n)
        PROVE  BuffersConserved'
    BY <2>1, <2>4 DEF StartWritesSubmitFails
  <2>5. ASSUME NEW submitted \in BOOLEAN, PollChannel(submitted)
        PROVE  BuffersConserved'
    BY <2>5, PollChannelBuffers
  <2>6. ASSUME NEW s \in Stripes, NEW result \in {"ok", "err"}, MetaIoDone(s, result)
        PROVE  BuffersConserved'
    BY <2>1, <2>6 DEF MetaIoDone, flusherVars
  <2>7. ASSUME NEW sector \in Sectors, MetaWriteBack(sector) PROVE BuffersConserved'
    BY <2>1, <2>7 DEF MetaWriteBack, flusherVars
  <2>8. CASE MetaReload
    <3>1. {s \in DOMAIN header_updates' : header_updates'[s].stage = Writing} = {}
      BY <2>8 DEF MetaReload
    <3> QED BY <2>8, <3>1, FS_EmptySet, FlusherAssumption DEF MetaReload, BuffersConserved
  <2>9. CASE UNCHANGED mfVars
    BY <2>1, <2>9 DEF mfVars, flusherVars
  <2> QED BY <2>2, <2>3, <2>4, <2>5, <2>6, <2>7, <2>8, <2>9 DEF MFNext, FlusherUpdate
<1> QED BY <1>1, <1>2, InvariantHolds, PTL DEF MFSpec

-----------------------------------------------------------------------------
(* CountersExact, relative to MFInv.                                       *)

\* poll_channel adds one for every stripe that becomes Fetched.
LEMMA PollChannelCounters ==
    ASSUME MFInv, CountersInv, NEW submitted \in BOOLEAN, PollChannel(submitted)
    PROVE  CountersInv'
<1> DEFINE SF == Succeeded(Flushing)
           hd == [s \in SF |-> header_updates[s].header]
<1>1. SF \in SUBSET Stripes /\ SharedInv
  BY DEF Succeeded, MFInv, MFTypeOK, SharedInv
<1>2. \A s \in SF : FETCHED \in hd[s] => s \in SourceStripes
  <2>1. \A s \in SF : s \in Stripes /\ header_updates[s].header = headers[s]
    BY DEF Succeeded, MFInv, MFTypeOK, UpdatesSound, UpdateSound
  <2> QED BY <2>1 DEF MFInv, SourceFlagsKept
<1>3. SetStripeHeaders(SF, hd)
  BY DEF PollChannel
<1> HIDE DEF SF, hd
<1>4. SharedInv'
  BY <1>1, <1>2, <1>3, SetStripeHeadersInv
<1> QED BY <1>4 DEF SharedInv

\* The two counters agree with the per-stripe states in every reachable state
\* (fetch_add in set_stripe_header): the status report and the decision to drop
\* the stripe source rest on them.
THEOREM CountersAgree == MFSpec => []CountersExact
<1>1. MFInit => CountersInv
  <2> SUFFICES ASSUME MFInit PROVE CountersInv
    OBVIOUS
  <2> QED BY FreshHeadersSound, SharedInitInv DEF MFInit, SharedInv
<1>2. MFInv /\ CountersInv /\ [MFNext]_mfVars => CountersInv'
  <2> SUFFICES ASSUME MFInv, CountersInv, [MFNext]_mfVars PROVE CountersInv'
    OBVIOUS
  <2>1. CASE UNCHANGED sharedVars
    BY <2>1 DEF CountersInv, CountersExact, NoSourceExact, sharedVars
  <2>2. ASSUME NEW s \in Stripes, NEW bit \in {FETCHED, WRITTEN}, Enqueue(s, bit)
        PROVE  CountersInv'
    BY <2>1, <2>2 DEF Enqueue
  <2>3. ASSUME NEW n \in 0 .. Len(queued_requests),
               StartWrites(n) \/ StartWritesSubmitFails(n)
        PROVE  CountersInv'
    BY <2>1, <2>3 DEF StartWrites, StartWritesSubmitFails
  <2>4. ASSUME NEW submitted \in BOOLEAN, PollChannel(submitted)
        PROVE  CountersInv'
    BY <2>4, PollChannelCounters
  <2>5. ASSUME NEW s \in Stripes, NEW result \in {"ok", "err"}, MetaIoDone(s, result)
        PROVE  CountersInv'
    BY <2>1, <2>5 DEF MetaIoDone
  <2>6. ASSUME NEW sector \in Sectors, MetaWriteBack(sector) PROVE CountersInv'
    BY <2>1, <2>6 DEF MetaWriteBack
  <2>7. CASE MetaReload
    <3>1. SoundHeaders(meta_durable)
      BY DEF MFInv, MFTypeOK, SourceFlagsKept, SoundHeaders, Headers, Header
    <3> QED BY <2>7, <3>1, SharedLoadInv DEF MetaReload, SharedInv
  <2>8. CASE UNCHANGED mfVars
    BY <2>1, <2>8 DEF mfVars
  <2> QED BY <2>2, <2>3, <2>4, <2>5, <2>6, <2>7, <2>8 DEF MFNext, FlusherUpdate
<1>3. CountersInv => CountersExact
  BY DEF CountersInv
<1> QED BY <1>1, <1>2, <1>3, InvariantHolds, PTL DEF MFSpec

-----------------------------------------------------------------------------
(***************************************************************************)
(* The fetcher, with the inductive invariant FInv.                         *)
(*                                                                         *)
(* Every step of a fetch is about one stripe.  So FInv is split into       *)
(* StripeInv(s), what it says of a stripe, and GlobalInv, what it says of  *)
(* the queue, the pool and the counters; a step leaves the StripeInv of    *)
(* all other stripes alone (UntouchedStripe), and what remains is the      *)
(* stripe of the step.                                                     *)
(*                                                                         *)
(* The lemmas are about the operations, not about FNext: the proof of the  *)
(* whole lazy device uses them again.  Of the flusher's proofs only the    *)
(* facts about the shared state are used.                                  *)
(***************************************************************************)

-----------------------------------------------------------------------------
(* Maps and queues.                                                        *)

\* Maps f and g agree at key t.
Same(f, g, t) ==
    /\ t \in DOMAIN g <=> t \in DOMAIN f
    /\ t \in DOMAIN f => g[t] = f[t]

Elems(q)    == {q[i] : i \in DOMAIN q}
Distinct(q) == \A i, j \in DOMAIN q : q[i] = q[j] => i = j

\* q holds every stripe of S once and nothing else.
IsQueue(q, S) == q \in Seq(Stripes) /\ Elems(q) = S /\ Distinct(q)

LEMMA EmptyQueue == IsQueue(<<>>, {})
BY DEF IsQueue, Elems, Distinct

LEMMA QueueAppend ==
    ASSUME NEW q, NEW S, IsQueue(q, S), NEW s \in Stripes, s \notin S
    PROVE  IsQueue(Append(q, s), S \cup {s})
<1> DEFINE a == Append(q, s)
<1>1. q \in Seq(Stripes) /\ Elems(q) = S /\ Distinct(q)
  BY DEF IsQueue
<1>2. /\ a \in Seq(Stripes) /\ Len(q) \in Nat
      /\ DOMAIN q = 1 .. Len(q) /\ DOMAIN a = 1 .. (Len(q) + 1)
      /\ \A i \in DOMAIN q : a[i] = q[i]
      /\ a[Len(q) + 1] = s
  BY <1>1, AppendProperties, LenProperties
<1> HIDE DEF a
<1>3. \A i \in DOMAIN a : i \in DOMAIN q \/ i = Len(q) + 1
  BY <1>2
<1>4. DOMAIN q \subseteq DOMAIN a /\ Len(q) + 1 \in DOMAIN a
  BY <1>2
<1>5. Elems(a) = S \cup {s}
  BY <1>1, <1>2, <1>3, <1>4 DEF Elems
<1>6. \A i \in DOMAIN q : q[i] # s
  BY <1>1 DEF Elems
<1>7. Distinct(a)
  BY <1>1, <1>2, <1>3, <1>6 DEF Distinct
<1> QED BY <1>2, <1>5, <1>7 DEF IsQueue, a

LEMMA QueueTail ==
    ASSUME NEW q, NEW S, IsQueue(q, S), q # <<>>
    PROVE  /\ Head(q) \in S /\ Head(q) \in Stripes
           /\ IsQueue(Tail(q), S \ {Head(q)})
<1>1. q \in Seq(Stripes) /\ Elems(q) = S /\ Distinct(q)
  BY DEF IsQueue
<1>2. /\ Tail(q) \in Seq(Stripes) /\ Head(q) \in Stripes /\ Head(q) = q[1]
      /\ Len(q) \in Nat \ {0}
      /\ DOMAIN q = 1 .. Len(q) /\ DOMAIN Tail(q) = 1 .. (Len(q) - 1)
      /\ \A i \in DOMAIN Tail(q) : Tail(q)[i] = q[i + 1]
  BY <1>1, HeadTailProperties, LenProperties, EmptySeq
<1>3. \A i \in DOMAIN Tail(q) : i + 1 \in DOMAIN q /\ i + 1 # 1
  BY <1>2
<1>4. 1 \in DOMAIN q /\ \A i \in DOMAIN q : i # 1 => i - 1 \in DOMAIN Tail(q) /\ (i - 1) + 1 = i
  BY <1>2
<1>5. \A i \in DOMAIN q : i # 1 => q[i] # Head(q)
  BY <1>1, <1>2, <1>4 DEF Distinct
<1>6. Elems(Tail(q)) = S \ {Head(q)}
  <2>1. ASSUME NEW x \in Elems(Tail(q)) PROVE x \in S \ {Head(q)}
    BY <1>1, <1>2, <1>3, <1>5 DEF Elems
  <2>2. ASSUME NEW x \in S, x # Head(q) PROVE x \in Elems(Tail(q))
    <3>1. PICK i \in DOMAIN q : q[i] = x
      BY <1>1 DEF Elems
    <3>2. i - 1 \in DOMAIN Tail(q) /\ Tail(q)[i - 1] = x
      BY <1>2, <1>4, <2>2, <3>1
    <3> QED BY <3>2 DEF Elems
  <2> QED BY <2>1, <2>2
<1>7. Distinct(Tail(q))
  <2> SUFFICES ASSUME NEW i \in DOMAIN Tail(q), NEW j \in DOMAIN Tail(q),
                      Tail(q)[i] = Tail(q)[j]
               PROVE  i = j
    BY DEF Distinct
  <2>1. i + 1 = j + 1
    BY <1>1, <1>2, <1>3 DEF Distinct
  <2> QED BY <1>2, <2>1
<1>8. Head(q) \in S
  BY <1>1, <1>2, <1>4 DEF Elems
<1> QED BY <1>2, <1>6, <1>7, <1>8 DEF IsQueue

-----------------------------------------------------------------------------
(* FInv, stripe by stripe.                                                 *)

FetchPhases == {"Queued", "Fetching", "Flushing", "Fetched"}

StripeInv(s) ==
    /\ s \in DOMAIN stripe_states =>
          /\ s \in SourceStripes
          /\ stripe_states[s] \in FetchPhases
          /\ stripe_states[s] # "Fetched" => ~stripe_fetched_if_needed(s)
    /\ s \in DOMAIN allocated_buffers <=> s \in DOMAIN source_io \/ s \in DOMAIN target_io
    /\ s \notin DOMAIN source_io \/ s \notin DOMAIN target_io
    /\ s \in DOMAIN source_io =>
          /\ source_io[s] \in {"none", "ok", "err"}
          /\ s \in DOMAIN stripe_states /\ stripe_states[s] = "Fetching"
          /\ source_io[s] = "ok" => allocated_buffers[s] = SourceData
    /\ s \in DOMAIN target_io =>
          /\ target_io[s] \in [op : {"write", "flush"}, result : {"none", "ok", "err"}]
          /\ s \in DOMAIN stripe_states
          /\ \/ target_io[s].op = "write" /\ stripe_states[s] = "Fetching"
             \/ target_io[s].op = "flush" /\ stripe_states[s] = "Flushing"
          /\ target_io[s].op = "write" => allocated_buffers[s] = SourceData
          /\ target_io[s].op = "flush" \/ target_io[s].result = "ok"
                => disk_cache[s] = SourceData
          /\ target_io[s].op = "flush" /\ target_io[s].result = "ok"
                => disk_durable[s] = SourceData
    /\ Unpublished(s) => disk_cache[s] = SourceData /\ disk_durable[s] = SourceData

QueuedStripes == {s \in DOMAIN stripe_states : stripe_states[s] = "Queued"}

DomainsInv ==
    /\ DOMAIN stripe_states \subseteq Stripes
    /\ DOMAIN source_io \subseteq Stripes
    /\ DOMAIN target_io \subseteq Stripes
    /\ DOMAIN disk_cache = Stripes /\ DOMAIN disk_durable = Stripes

PoolInv ==
    /\ DOMAIN allocated_buffers \subseteq Stripes
    /\ fetch_buffers \in 0 .. MaxConcurrentFetches
    /\ fetch_buffers + Cardinality(DOMAIN allocated_buffers) = MaxConcurrentFetches

FinishedInv ==
    /\ finished_fetches \in Seq([stripe_id : Stripes, success : BOOLEAN])
    /\ FinishedMatchesState

GlobalInv ==
    /\ SharedInv
    /\ DomainsInv
    /\ autofetch_queue \in Seq(Stripes)
    /\ stripe_fetch_retries \in [Stripes -> 0 .. MaxFetchRetries]
    /\ disconnected \in BOOLEAN /\ null_source \in BOOLEAN
    /\ PoolInv
    /\ IsQueue(fetch_queue, QueuedStripes)
    /\ FinishedInv
    /\ DisconnectedMeansFetched

LEMMA FInvSplit == FInv <=> GlobalInv /\ \A s \in Stripes : StripeInv(s)
<1>1. ASSUME FInv PROVE GlobalInv /\ \A s \in Stripes : StripeInv(s)
  <2>1. SharedInv
    BY <1>1 DEF FInv, FTypeOK, SharedInv, CountersInv
  <2>2. DomainsInv /\ PoolInv
    BY <1>1 DEF FInv, FTypeOK, DomainsInv, PoolInv, FetchBuffersHeld
  <2>3. IsQueue(fetch_queue, QueuedStripes)
    BY <1>1 DEF FInv, FTypeOK, QueueExact, IsQueue, Elems, Distinct, QueuedStripes
  <2>4. FinishedInv
    BY <1>1 DEF FInv, FTypeOK, FinishedInv
  <2>5. GlobalInv
    BY <1>1, <2>1, <2>2, <2>3, <2>4 DEF FInv, FTypeOK, GlobalInv
  <2>6. ASSUME NEW s \in Stripes PROVE StripeInv(s)
    BY <1>1 DEF FInv, FTypeOK, FetchBuffersHeld, TrackedUnfetched, IoMatchesState,
                FetchDataSound, StripeInv, FetchPhases
  <2> QED BY <2>5, <2>6
<1>2. ASSUME GlobalInv, \A s \in Stripes : StripeInv(s) PROVE FInv
  <2>1. /\ \A s \in DOMAIN stripe_states : s \in Stripes
        /\ \A s \in DOMAIN source_io : s \in Stripes
        /\ \A s \in DOMAIN target_io : s \in Stripes
        /\ \A s \in DOMAIN allocated_buffers : s \in Stripes
    BY <1>2 DEF GlobalInv, DomainsInv, PoolInv
  <2>2. FTypeOK
    BY <1>2, <2>1 DEF GlobalInv, DomainsInv, PoolInv, FinishedInv, SharedInv, IsQueue,
                      StripeInv, FetchPhases, FTypeOK
  <2>3. CountersExact /\ NoSourceExact /\ DisconnectedMeansFetched /\ FinishedMatchesState
    BY <1>2 DEF GlobalInv, SharedInv, CountersInv, FinishedInv
  <2>4. FetchBuffersHeld
    BY <1>2, <2>1 DEF GlobalInv, PoolInv, StripeInv, FetchBuffersHeld
  <2>5. QueueExact
    BY <1>2 DEF GlobalInv, IsQueue, Elems, Distinct, QueuedStripes, QueueExact
  <2>6. TrackedUnfetched
    BY <1>2, <2>1 DEF StripeInv, TrackedUnfetched
  <2>7. IoMatchesState
    BY <1>2, <2>1 DEF StripeInv, IoMatchesState
  <2>8. FetchDataSound
    BY <1>2, <2>1 DEF StripeInv, FetchDataSound
  <2> QED BY <2>2, <2>3, <2>4, <2>5, <2>6, <2>7, <2>8 DEF FInv
<1> QED BY <1>1, <1>2

\* The same in the next state.
LEMMA FInvJoin ==
    ASSUME GlobalInv', \A s \in Stripes : StripeInv(s)'
    PROVE  FInv'
<1>1. (FInv <=> GlobalInv /\ \A s \in Stripes : StripeInv(s))'
  BY FInvSplit, PTL
<1> QED BY <1>1

\* The disk keeps what it holds of stripe t, unless the stripe is the guest's.
DiskQuietAt(t) ==
    \/ stripe_fetched_if_needed(t)
    \/ disk_cache'[t] = disk_cache[t] /\ disk_durable'[t] \in {disk_durable[t], disk_cache[t]}

\* A step that does nothing to the fetch of stripe t and does not publish it.
UntouchedAt(t) ==
    /\ Same(stripe_states, stripe_states', t)
    /\ Same(allocated_buffers, allocated_buffers', t)
    /\ Same(source_io, source_io', t)
    /\ Same(target_io, target_io', t)
    /\ stripe_fetch_states'[t] = stripe_fetch_states[t]
    /\ DiskQuietAt(t)

LEMMA UntouchedStripe ==
    ASSUME NEW t, StripeInv(t), UntouchedAt(t)
    PROVE  StripeInv(t)'
<1>1. Unpublished(t)' => Unpublished(t) /\ ~stripe_fetched_if_needed(t)
  BY DEF UntouchedAt, Same, Unpublished, stripe_fetched_if_needed
<1>2. t \in DOMAIN target_io => ~stripe_fetched_if_needed(t)
  BY DEF StripeInv
<1>3. stripe_fetched_if_needed(t)' <=> stripe_fetched_if_needed(t)
  BY DEF UntouchedAt, stripe_fetched_if_needed
<1> QED BY <1>1, <1>2, <1>3 DEF UntouchedAt, Same, StripeInv, DiskQuietAt

\* A step about stripe s alone.
LEMMA LocalStepInv ==
    ASSUME FInv, NEW s \in Stripes,
           \A t \in Stripes \ {s} : UntouchedAt(t),
           StripeInv(s)', GlobalInv'
    PROVE  FInv'
<1>1. \A t \in Stripes : StripeInv(t)
  BY FInvSplit
<1>2. ASSUME NEW t \in Stripes PROVE StripeInv(t)'
  BY <1>1, UntouchedStripe
<1> QED BY <1>2, FInvJoin

-----------------------------------------------------------------------------
(* Steps that change no fetch: results are taken, the guest uses stripes   *)
(* that are published, the disk writes back.                               *)

LEMMA SharedSame ==
    ASSUME SharedInv, DisconnectedMeansFetched, UNCHANGED sharedVars, UNCHANGED null_source
    PROVE  SharedInv' /\ DisconnectedMeansFetched'
BY DEF SharedInv, SharedTypeOK, CountersInv, CountersExact, NoSourceExact, sharedVars,
       DisconnectedMeansFetched

LEMMA QuietInv ==
    ASSUME FInv,
           UNCHANGED <<fetch_queue, stripe_states, stripe_fetch_retries, allocated_buffers,
                       fetch_buffers, disconnected, null_source, fetchIoVars, sharedVars>>,
           autofetch_queue' \in Seq(Stripes),
           finished_fetches' \in {finished_fetches, <<>>},
           DOMAIN disk_cache' = Stripes, DOMAIN disk_durable' = Stripes,
           \A t \in Stripes : DiskQuietAt(t)
    PROVE  FInv'
<1>1. GlobalInv /\ \A t \in Stripes : StripeInv(t)
  BY FInvSplit
<1>2. ASSUME NEW t \in Stripes PROVE StripeInv(t)'
  <2>1. UntouchedAt(t)
    BY DEF UntouchedAt, Same, fetchIoVars, sharedVars
  <2> QED BY <1>1, <2>1, UntouchedStripe
<1>3. SharedInv' /\ DisconnectedMeansFetched'
  BY <1>1, SharedSame DEF GlobalInv
<1>4. DomainsInv' /\ PoolInv'
  BY <1>1 DEF GlobalInv, DomainsInv, PoolInv, fetchIoVars
<1>5. IsQueue(fetch_queue, QueuedStripes)'
  BY <1>1 DEF GlobalInv, IsQueue, Elems, Distinct, QueuedStripes
<1>6. FinishedInv'
  <2>1. CASE finished_fetches' = finished_fetches
    BY <1>1, <2>1 DEF GlobalInv, FinishedInv, FinishedMatchesState
  <2>2. CASE finished_fetches' = <<>>
    <3>1. <<>> \in Seq([stripe_id : Stripes, success : BOOLEAN]) /\ DOMAIN <<>> = {}
      OBVIOUS
    <3> QED BY <2>2, <3>1 DEF FinishedInv, FinishedMatchesState
  <2> QED BY <2>1, <2>2
<1>7. GlobalInv'
  BY <1>1, <1>3, <1>4, <1>5, <1>6 DEF GlobalInv
<1> QED BY <1>2, <1>7, FInvJoin

LEMMA DiskWriteBackInv ==
    ASSUME FInv, NEW s \in Stripes, DiskWriteBack(s)
    PROVE  FInv'
<1>1. DOMAIN disk_cache = Stripes /\ DOMAIN disk_durable = Stripes
      /\ autofetch_queue \in Seq(Stripes)
  BY DEF FInv, FTypeOK
<1>2. \A t \in Stripes : DiskQuietAt(t)
  BY <1>1 DEF DiskWriteBack, DiskQuietAt
<1> QED BY <1>1, <1>2, QuietInv DEF DiskWriteBack, fetcherVars

\* Publishing stripes that are done, or were published before, in any number
\* at once: set_stripe_header as poll_channel calls it.
LEMMA PublishInv ==
    ASSUME FInv, NEW S \in SUBSET Stripes, NEW header,
           \A s \in S : FETCHED \in header[s]
                => s \in SourceStripes /\ (stripe_fetched_if_needed(s) \/ Unpublished(s)),
           SetStripeHeaders(S, header),
           UNCHANGED <<fetcherVars, fetchIoVars, diskVars>>
    PROVE  FInv'
<1>1. GlobalInv /\ \A t \in Stripes : StripeInv(t)
  BY FInvSplit
<1>2. \A t \in Stripes :
         \/ stripe_fetch_states'[t] = stripe_fetch_states[t]
         \/ /\ stripe_fetch_states'[t] = Fetched
            /\ stripe_fetched_if_needed(t) \/ Unpublished(t)
  BY DEF SetStripeHeaders
<1>3. ASSUME NEW t \in Stripes PROVE StripeInv(t)'
  <2>1. StripeInv(t)
    BY <1>1
  <2>2. CASE stripe_fetch_states'[t] = stripe_fetch_states[t]
    <3>1. UntouchedAt(t)
      BY <2>2 DEF UntouchedAt, Same, DiskQuietAt, fetcherVars, fetchIoVars, diskVars
    <3> QED BY <2>1, <3>1, UntouchedStripe
  <2>3. CASE /\ stripe_fetch_states'[t] = Fetched
             /\ stripe_fetched_if_needed(t) \/ Unpublished(t)
    <3>1. stripe_fetched_if_needed(t)' /\ ~Unpublished(t)'
      BY <2>3 DEF stripe_fetched_if_needed, Unpublished
    <3>2. t \in DOMAIN stripe_states => stripe_states[t] = "Fetched"
      BY <2>1, <2>3 DEF StripeInv, Unpublished
    <3> QED BY <2>1, <3>1, <3>2 DEF StripeInv, fetcherVars, fetchIoVars, diskVars
  <2> QED BY <1>2, <2>2, <2>3
<1>4. SharedInv'
  BY <1>1, SetStripeHeadersInv DEF GlobalInv
<1>5. DomainsInv' /\ PoolInv'
  BY <1>1 DEF GlobalInv, DomainsInv, PoolInv, fetcherVars, fetchIoVars, diskVars
<1>6. IsQueue(fetch_queue, QueuedStripes)'
  BY <1>1 DEF GlobalInv, IsQueue, Elems, Distinct, QueuedStripes, fetcherVars
<1>7. FinishedInv'
  BY <1>1 DEF GlobalInv, FinishedInv, FinishedMatchesState, fetcherVars
<1>8. DisconnectedMeansFetched'
  <2>1. \A s \in SourceStripes : stripe_fetch_states[s] = Fetched
                                    => stripe_fetch_states'[s] = Fetched
    BY <1>2, StripeAssumption
  <2> QED BY <1>1, <2>1 DEF GlobalInv, DisconnectedMeansFetched, fetcherVars
<1>9. GlobalInv'
  BY <1>1, <1>4, <1>5, <1>6, <1>7, <1>8 DEF GlobalInv, fetcherVars
<1> QED BY <1>3, <1>9, FInvJoin

-----------------------------------------------------------------------------
(* The pool.                                                               *)

LEMMA PoolSame ==
    ASSUME PoolInv, DOMAIN allocated_buffers' = DOMAIN allocated_buffers,
           fetch_buffers' = fetch_buffers
    PROVE  PoolInv'
BY DEF PoolInv

LEMMA PoolTaken ==
    ASSUME PoolInv, NEW s \in Stripes, s \notin DOMAIN allocated_buffers, fetch_buffers > 0,
           DOMAIN allocated_buffers' = DOMAIN allocated_buffers \cup {s},
           fetch_buffers' = fetch_buffers - 1
    PROVE  PoolInv'
<1>1. /\ IsFiniteSet(DOMAIN allocated_buffers)
      /\ Cardinality(DOMAIN allocated_buffers) \in Nat
  BY StripesFinite DEF PoolInv
<1>2. Cardinality(DOMAIN allocated_buffers') = Cardinality(DOMAIN allocated_buffers) + 1
  BY <1>1, FS_AddElement
<1> QED BY <1>1, <1>2, FetcherAssumption DEF PoolInv

LEMMA PoolReturned ==
    ASSUME PoolInv, NEW s \in DOMAIN allocated_buffers,
           DOMAIN allocated_buffers' = DOMAIN allocated_buffers \ {s},
           fetch_buffers' = fetch_buffers + 1
    PROVE  PoolInv'
<1>1. /\ IsFiniteSet(DOMAIN allocated_buffers)
      /\ Cardinality(DOMAIN allocated_buffers) \in Nat
  BY StripesFinite DEF PoolInv
<1>2. Cardinality(DOMAIN allocated_buffers') = Cardinality(DOMAIN allocated_buffers) - 1
  BY <1>1, FS_RemoveElement
<1>3. Cardinality(DOMAIN allocated_buffers') \in Nat
  <2>1. DOMAIN allocated_buffers' \subseteq Stripes
    BY DEF PoolInv
  <2> QED BY <2>1, StripesFinite
<1> QED BY <1>1, <1>2, <1>3, FetcherAssumption DEF PoolInv

-----------------------------------------------------------------------------
(* The results.                                                            *)

\* Another result about stripe s, whose state changes in the same step.
LEMMA FinishedAppended ==
    ASSUME FinishedInv, NEW s \in Stripes, NEW ok \in BOOLEAN,
           s \in DOMAIN stripe_states => stripe_states[s] # "Fetched",
           \A t \in Stripes \ {s} : Same(stripe_states, stripe_states', t),
           ok => s \in DOMAIN stripe_states' /\ stripe_states'[s] = "Fetched",
           finished_fetches' = Append(finished_fetches, [stripe_id |-> s, success |-> ok])
    PROVE  FinishedInv'
<1> DEFINE Result == [stripe_id : Stripes, success : BOOLEAN]
           r == [stripe_id |-> s, success |-> ok]
           f == finished_fetches
           g == finished_fetches'
<1>1. f \in Seq(Result) /\ r \in Result /\ g = Append(f, r)
  BY DEF FinishedInv
<1>2. r.stripe_id = s /\ r.success = ok
  OBVIOUS
<1> HIDE DEF Result, r
<1>3. /\ g \in Seq(Result) /\ Len(f) \in Nat
      /\ DOMAIN f = 1 .. Len(f) /\ DOMAIN g = 1 .. (Len(f) + 1)
      /\ \A i \in DOMAIN f : g[i] = f[i]
      /\ g[Len(f) + 1] = r
  BY <1>1, AppendProperties, LenProperties
<1>4. \A i \in DOMAIN g : i \in DOMAIN f \/ i = Len(f) + 1
  BY <1>3
<1>5. \A i \in DOMAIN f : f[i].stripe_id \in Stripes
  <2>1. \A i \in DOMAIN f : f[i] \in Result
    BY <1>1, <1>3
  <2> QED BY <2>1 DEF Result
<1>6. ASSUME NEW i \in DOMAIN g, g[i].success
      PROVE  g[i].stripe_id \in DOMAIN stripe_states' /\ stripe_states'[g[i].stripe_id] = "Fetched"
  <2>1. CASE i \in DOMAIN f
    <3>1. /\ f[i].stripe_id \in DOMAIN stripe_states
          /\ stripe_states[f[i].stripe_id] = "Fetched"
          /\ g[i] = f[i]
      BY <1>3, <1>6, <2>1 DEF FinishedInv, FinishedMatchesState
    <3>2. f[i].stripe_id # s
      BY <3>1
    <3> QED BY <1>5, <2>1, <3>1, <3>2 DEF Same
  <2>2. CASE i = Len(f) + 1
    BY <1>2, <1>3, <1>6, <2>2
  <2> QED BY <1>4, <2>1, <2>2
<1> QED BY <1>3, <1>6 DEF FinishedInv, FinishedMatchesState, Result

\* No new result; the stripes that are done stay so.
LEMMA FinishedSame ==
    ASSUME FinishedInv, NEW s \in Stripes,
           s \in DOMAIN stripe_states => stripe_states[s] # "Fetched",
           \A t \in Stripes \ {s} : Same(stripe_states, stripe_states', t),
           UNCHANGED finished_fetches
    PROVE  FinishedInv'
<1> DEFINE Result == [stripe_id : Stripes, success : BOOLEAN]
<1>1. \A i \in DOMAIN finished_fetches : finished_fetches[i].stripe_id \in Stripes
  <2>1. finished_fetches \in Seq(Result)
    BY DEF FinishedInv
  <2> HIDE DEF Result
  <2>2. \A i \in DOMAIN finished_fetches : finished_fetches[i] \in Result
    BY <2>1, ElementOfSeq, LenProperties
  <2> QED BY <2>2 DEF Result
<1>2. \A i \in DOMAIN finished_fetches :
         finished_fetches[i].success => finished_fetches[i].stripe_id # s
  BY DEF FinishedInv, FinishedMatchesState
<1> QED BY <1>1, <1>2 DEF FinishedInv, FinishedMatchesState, Same

-----------------------------------------------------------------------------
(* The queue, when the state of stripe s changes.                          *)

LEMMA QueuedElsewhere ==
    ASSUME DomainsInv, DomainsInv', NEW s \in Stripes,
           \A t \in Stripes \ {s} : Same(stripe_states, stripe_states', t)
    PROVE  /\ s \in DOMAIN stripe_states' /\ stripe_states'[s] = "Queued"
                => QueuedStripes' = QueuedStripes \cup {s}
           /\ ~(s \in DOMAIN stripe_states' /\ stripe_states'[s] = "Queued")
                => QueuedStripes' = QueuedStripes \ {s}
BY DEF QueuedStripes, DomainsInv, Same

-----------------------------------------------------------------------------
(* FInv is inductive: the operations of the fetcher.                       *)

LEMMA HandleFetchRequestInv ==
    ASSUME FInv, NEW s \in Stripes, HandleFetchRequest(s),
           autofetch_queue' \in Seq(Stripes), UNCHANGED diskVars
    PROVE  FInv'
<1>1. GlobalInv /\ StripeInv(s)
  BY FInvSplit
<1>2. CASE SkipsFetch(s)
  <2>1. /\ UNCHANGED <<fetch_queue, stripe_states>>
        /\ \A t \in Stripes : DiskQuietAt(t)
    BY <1>2 DEF HandleFetchRequest, DiskQuietAt, diskVars
  <2> QED BY <1>1, <2>1, QuietInv DEF HandleFetchRequest, GlobalInv, DomainsInv, diskVars
<1>3. CASE ~SkipsFetch(s)
  <2>1. /\ fetch_queue' = Append(fetch_queue, s)
        /\ stripe_states' = With(stripe_states, s, "Queued")
        /\ s \notin DOMAIN stripe_states /\ ~stripe_fetched_if_needed(s)
    BY <1>3 DEF HandleFetchRequest, SkipsFetch
  <2>2. /\ s \in DOMAIN stripe_states' /\ stripe_states'[s] = "Queued"
        /\ DOMAIN stripe_states' = DOMAIN stripe_states \cup {s}
        /\ \A t \in Stripes \ {s} : Same(stripe_states, stripe_states', t)
    BY <2>1 DEF With, Same
  <2>3. \A t \in Stripes \ {s} : UntouchedAt(t)
    BY <2>2 DEF UntouchedAt, Same, DiskQuietAt, HandleFetchRequest, fetchIoVars,
                sharedVars, diskVars
  <2>4. s \in SourceStripes
    BY <1>1, <2>1 DEF GlobalInv, SharedInv, CountersInv, NoSourceExact,
                      stripe_fetched_if_needed
  <2>5. StripeInv(s)'
    <3>1. ~stripe_fetched_if_needed(s)'
      BY <2>1 DEF HandleFetchRequest, sharedVars, stripe_fetched_if_needed
    <3> QED BY <1>1, <2>1, <2>2, <2>4, <3>1
            DEF StripeInv, FetchPhases, Unpublished, HandleFetchRequest, fetchIoVars
  <2>6. DomainsInv'
    BY <1>1, <2>2 DEF GlobalInv, DomainsInv, HandleFetchRequest, fetchIoVars, diskVars
  <2>7. IsQueue(fetch_queue, QueuedStripes)'
    <3>1. s \notin QueuedStripes
      BY <2>1 DEF QueuedStripes
    <3>2. QueuedStripes' = QueuedStripes \cup {s}
      BY <1>1, <2>2, <2>6, <3>1, QueuedElsewhere DEF GlobalInv
    <3>3. IsQueue(Append(fetch_queue, s), QueuedStripes \cup {s})
      BY <1>1, <3>1, QueueAppend DEF GlobalInv
    <3> QED BY <2>1, <3>2, <3>3 DEF IsQueue, Elems, Distinct
  <2>8. FinishedInv'
    BY <1>1, <2>1, <2>2, FinishedSame DEF GlobalInv, HandleFetchRequest
  <2>9. SharedInv' /\ DisconnectedMeansFetched'
    BY <1>1, SharedSame DEF GlobalInv, HandleFetchRequest
  <2>10. PoolInv'
    BY <1>1, PoolSame DEF GlobalInv, HandleFetchRequest
  <2>11. GlobalInv'
    BY <1>1, <2>6, <2>7, <2>8, <2>9, <2>10 DEF GlobalInv, HandleFetchRequest
  <2> QED BY <2>3, <2>5, <2>11, LocalStepInv
<1> QED BY <1>2, <1>3

LEMMA UpdateAutofetchInv ==
    ASSUME FInv, UpdateAutofetch, UNCHANGED diskVars
    PROVE  FInv'
<1>1. autofetch_queue \in Seq(Stripes) /\ autofetch_queue # <<>>
  BY DEF FInv, FTypeOK, UpdateAutofetch
<1>2. Head(autofetch_queue) \in Stripes /\ Tail(autofetch_queue) \in Seq(Stripes)
  BY <1>1, HeadTailProperties
<1> QED BY <1>2, HandleFetchRequestInv DEF UpdateAutofetch

\* The failure paths of fetch_completed: the stripe goes back to the queue, or
\* is given up and marked as failed.  `queue` is the queue without the stripe.
LEMMA FetchFailedInv ==
    ASSUME FInv, NEW s \in Stripes, NEW queue, NEW held \in BOOLEAN,
           s \in DOMAIN stripe_states, stripe_states[s] # "Fetched",
           held <=> s \in DOMAIN allocated_buffers,
           IsQueue(queue, QueuedStripes \ {s}),
           FetchFailed(s, queue, held),
           s \notin DOMAIN source_io', s \notin DOMAIN target_io',
           \A t \in Stripes \ {s} : /\ Same(source_io, source_io', t)
                                    /\ Same(target_io, target_io', t),
           DOMAIN source_io' \subseteq DOMAIN source_io,
           DOMAIN target_io' \subseteq DOMAIN target_io,
           UNCHANGED <<autofetch_queue, disconnected, null_source, diskVars>>
    PROVE  FInv'
<1>1. GlobalInv /\ StripeInv(s)
  BY FInvSplit
<1>2. /\ DOMAIN allocated_buffers' = DOMAIN allocated_buffers \ {s}
      /\ \A t \in Stripes \ {s} : Same(allocated_buffers, allocated_buffers', t)
      /\ fetch_buffers' = IF held THEN fetch_buffers + 1 ELSE fetch_buffers
  BY DEF FetchFailed, ReturnBuffer, Without, Same
<1>3. /\ DOMAIN stripe_states' \subseteq DOMAIN stripe_states
      /\ \A t \in Stripes \ {s} : Same(stripe_states, stripe_states', t)
      /\ s \in DOMAIN stripe_states' => stripe_states'[s] = "Queued"
  BY DEF FetchFailed, With, Without, Same
<1>4. ~stripe_fetched_if_needed(s) /\ s \in SourceStripes
  BY <1>1 DEF StripeInv
<1>5. UNCHANGED sharedVars \/ SetStripeFailed(s)
  BY DEF FetchFailed
<1>6. SharedInv' /\ DisconnectedMeansFetched' /\ ~stripe_fetched_if_needed(s)'
  <2>1. CASE UNCHANGED sharedVars
    BY <1>1, <1>4, <2>1, SharedSame DEF GlobalInv, stripe_fetched_if_needed, sharedVars
  <2>2. CASE SetStripeFailed(s)
    <3>1. SharedInv'
      BY <1>1, <1>4, <2>2, SetStripeFailedInv DEF GlobalInv
    <3>2. ~null_source
      BY <1>1, <1>4 DEF GlobalInv, DisconnectedMeansFetched, stripe_fetched_if_needed
    <3>3. DisconnectedMeansFetched'
      BY <3>2 DEF DisconnectedMeansFetched
    <3>4. stripe_fetch_states'[s] = Failed
      BY <1>1, <2>2 DEF SetStripeFailed, GlobalInv, SharedInv, SharedTypeOK
    <3> QED BY <3>1, <3>3, <3>4
            DEF stripe_fetched_if_needed, Failed, Fetched, NoSource
  <2> QED BY <1>5, <2>1, <2>2
<1>7. \A t \in Stripes \ {s} : UntouchedAt(t)
  <2>1. \A t \in Stripes \ {s} : stripe_fetch_states'[t] = stripe_fetch_states[t]
    BY <1>1, <1>5 DEF SetStripeFailed, sharedVars, GlobalInv, SharedInv, SharedTypeOK
  <2> QED BY <1>2, <1>3, <2>1 DEF UntouchedAt, DiskQuietAt, diskVars
<1>8. StripeInv(s)'
  BY <1>2, <1>3, <1>4, <1>6 DEF StripeInv, Unpublished, FetchPhases
<1>9. DomainsInv'
  BY <1>1, <1>3 DEF GlobalInv, DomainsInv, diskVars
<1>10. PoolInv'
  <2>1. CASE held
    BY <1>1, <1>2, <2>1, PoolReturned DEF GlobalInv
  <2>2. CASE ~held
    <3>1. DOMAIN allocated_buffers' = DOMAIN allocated_buffers
      BY <1>2, <2>2
    <3> QED BY <1>1, <1>2, <2>2, <3>1, PoolSame DEF GlobalInv
  <2> QED BY <2>1, <2>2
<1>11. IsQueue(fetch_queue, QueuedStripes)' /\ FinishedInv'
       /\ stripe_fetch_retries' \in [Stripes -> 0 .. MaxFetchRetries]
  <2>1. stripe_fetch_retries \in [Stripes -> 0 .. MaxFetchRetries]
    BY <1>1 DEF GlobalInv
  <2>2. CASE /\ MayRetry(s)
             /\ stripe_fetch_retries' = [stripe_fetch_retries EXCEPT ![s] = @ + 1]
             /\ fetch_queue' = Append(queue, s)
             /\ stripe_states' = With(stripe_states, s, "Queued")
             /\ UNCHANGED <<finished_fetches, sharedVars>>
    <3>1. s \in DOMAIN stripe_states' /\ stripe_states'[s] = "Queued"
      BY <2>2 DEF With
    <3>2. QueuedStripes' = QueuedStripes \cup {s}
      BY <1>1, <1>3, <1>9, <3>1, QueuedElsewhere DEF GlobalInv
    <3>3. IsQueue(Append(queue, s), QueuedStripes \cup {s})
      <4>1. (QueuedStripes \ {s}) \cup {s} = QueuedStripes \cup {s}
        OBVIOUS
      <4>2. IsQueue(Append(queue, s), (QueuedStripes \ {s}) \cup {s})
        BY QueueAppend
      <4> QED BY <4>1, <4>2
    <3>4. IsQueue(fetch_queue, QueuedStripes)'
      BY <2>2, <3>2, <3>3 DEF IsQueue, Elems, Distinct
    <3>5. FinishedInv'
      BY <1>1, <1>3, <2>2, FinishedSame DEF GlobalInv
    <3>6. stripe_fetch_retries' \in [Stripes -> 0 .. MaxFetchRetries]
      BY <2>1, <2>2, FetcherAssumption DEF MayRetry
    <3> QED BY <3>4, <3>5, <3>6
  <2>3. CASE /\ stripe_fetch_retries' = [stripe_fetch_retries EXCEPT ![s] = 0]
             /\ fetch_queue' = queue
             /\ stripe_states' = Without(stripe_states, {s})
             /\ finished_fetches' =
                  Append(finished_fetches, [stripe_id |-> s, success |-> FALSE])
    <3>1. s \notin DOMAIN stripe_states'
      BY <2>3 DEF Without
    <3>2. QueuedStripes' = QueuedStripes \ {s}
      BY <1>1, <1>3, <1>9, <3>1, QueuedElsewhere DEF GlobalInv
    <3>3. IsQueue(fetch_queue, QueuedStripes)'
      BY <2>3, <3>2 DEF IsQueue, Elems, Distinct
    <3>4. FinishedInv'
      BY <1>1, <1>3, <2>3, FinishedAppended DEF GlobalInv
    <3>5. stripe_fetch_retries' \in [Stripes -> 0 .. MaxFetchRetries]
      BY <2>1, <2>3, FetcherAssumption
    <3> QED BY <3>3, <3>4, <3>5
  <2> QED BY <2>2, <2>3 DEF FetchFailed
<1>12. GlobalInv'
  BY <1>1, <1>6, <1>9, <1>10, <1>11 DEF GlobalInv
<1> QED BY <1>7, <1>8, <1>12, LocalStepInv

\* A request under way moves on, and the state of its stripe with it, while the
\* stripe keeps its buffer: what the good paths of poll_fetches and the answers
\* of the source and of the disk have in common.
LEMMA FetchAdvancesInv ==
    ASSUME FInv, NEW s \in Stripes, s \in DOMAIN allocated_buffers,
           \A t \in Stripes \ {s} : UntouchedAt(t), StripeInv(s)',
           s \in DOMAIN stripe_states', stripe_states'[s] # "Queued",
           DOMAIN stripe_states' = DOMAIN stripe_states,
           DOMAIN allocated_buffers' = DOMAIN allocated_buffers,
           DOMAIN source_io' \subseteq Stripes, DOMAIN target_io' \subseteq Stripes,
           DOMAIN disk_cache' = Stripes, DOMAIN disk_durable' = Stripes,
           UNCHANGED <<fetch_queue, autofetch_queue, stripe_fetch_retries, fetch_buffers,
                       finished_fetches, disconnected, null_source, sharedVars>>
    PROVE  FInv'
<1>1. GlobalInv /\ StripeInv(s)
  BY FInvSplit
<1>2. /\ s \in DOMAIN stripe_states
      /\ stripe_states[s] # "Queued" /\ stripe_states[s] # "Fetched"
  BY <1>1 DEF StripeInv
<1>3. \A t \in Stripes \ {s} : Same(stripe_states, stripe_states', t)
  BY DEF UntouchedAt
<1>4. DomainsInv'
  BY <1>1 DEF GlobalInv, DomainsInv
<1>5. QueuedStripes' = QueuedStripes
  <2>1. s \notin QueuedStripes
    BY <1>2 DEF QueuedStripes
  <2>2. QueuedStripes' = QueuedStripes \ {s}
    BY <1>1, <1>3, <1>4, QueuedElsewhere DEF GlobalInv
  <2> QED BY <2>1, <2>2
<1>6. IsQueue(fetch_queue, QueuedStripes)'
  BY <1>1, <1>5 DEF GlobalInv, IsQueue, Elems, Distinct
<1>7. FinishedInv'
  BY <1>1, <1>2, <1>3, FinishedSame DEF GlobalInv
<1>8. SharedInv' /\ DisconnectedMeansFetched'
  BY <1>1, SharedSame DEF GlobalInv
<1>9. PoolInv'
  BY <1>1, PoolSame DEF GlobalInv
<1>10. GlobalInv'
  BY <1>1, <1>4, <1>6, <1>7, <1>8, <1>9 DEF GlobalInv
<1> QED BY <1>10, LocalStepInv

LEMMA StartFetchInv ==
    ASSUME FInv, NEW accepted \in BOOLEAN, StartFetch(accepted), UNCHANGED diskVars
    PROVE  FInv'
<1> DEFINE queue == Tail(fetch_queue)
<1>1. GlobalInv
  BY FInvSplit
<1>2. /\ fetch_queue # <<>> /\ fetch_buffers > 0
      /\ UNCHANGED <<autofetch_queue, disconnected, null_source, target_io>>
  BY DEF StartFetch
<1>3. PICK s \in Stripes : /\ s = Head(fetch_queue) /\ s \in QueuedStripes
                          /\ IsQueue(queue, QueuedStripes \ {s})
  BY <1>1, <1>2, QueueTail DEF GlobalInv
<1>4. StripeInv(s)
  BY <1>3, FInvSplit
<1>5. /\ s \in DOMAIN stripe_states /\ stripe_states[s] = "Queued"
      /\ s \notin DOMAIN source_io /\ s \notin DOMAIN target_io
      /\ s \notin DOMAIN allocated_buffers
      /\ ~stripe_fetched_if_needed(s) /\ s \in SourceStripes
  BY <1>3, <1>4 DEF QueuedStripes, StripeInv
<1>6. CASE accepted
  <2>1. /\ fetch_queue' = queue
        /\ fetch_buffers' = fetch_buffers - 1
        /\ allocated_buffers' = With(allocated_buffers, s, BlankData)
        /\ source_io' = With(source_io, s, "none")
        /\ stripe_states' = With(stripe_states, s, "Fetching")
        /\ UNCHANGED <<stripe_fetch_retries, finished_fetches, sharedVars>>
    BY <1>3, <1>6 DEF StartFetch
  <2> HIDE DEF queue
  <2>2. /\ DOMAIN allocated_buffers' = DOMAIN allocated_buffers \cup {s}
        /\ DOMAIN source_io' = DOMAIN source_io \cup {s} /\ source_io'[s] = "none"
        /\ DOMAIN stripe_states' = DOMAIN stripe_states \cup {s}
        /\ stripe_states'[s] = "Fetching"
        /\ \A t \in Stripes \ {s} : /\ Same(allocated_buffers, allocated_buffers', t)
                                    /\ Same(source_io, source_io', t)
                                    /\ Same(stripe_states, stripe_states', t)
    BY <2>1 DEF With, Same
  <2>3. \A t \in Stripes \ {s} : UntouchedAt(t)
    BY <1>2, <2>1, <2>2 DEF UntouchedAt, DiskQuietAt, Same, diskVars, sharedVars
  <2>4. StripeInv(s)'
    <3>1. ~stripe_fetched_if_needed(s)'
      BY <1>5, <2>1 DEF sharedVars, stripe_fetched_if_needed
    <3> QED BY <1>2, <1>5, <2>2, <3>1 DEF StripeInv, FetchPhases, Unpublished
  <2>5. DomainsInv'
    BY <1>1, <1>2, <1>3, <2>2 DEF GlobalInv, DomainsInv, diskVars
  <2>6. IsQueue(fetch_queue, QueuedStripes)'
    <3>1. QueuedStripes' = QueuedStripes \ {s}
      BY <1>1, <1>3, <2>2, <2>5, QueuedElsewhere DEF GlobalInv
    <3> QED BY <1>3, <2>1, <3>1 DEF IsQueue, Elems, Distinct
  <2>7. FinishedInv'
    BY <1>1, <1>3, <1>5, <2>1, <2>2, FinishedSame DEF GlobalInv
  <2>8. SharedInv' /\ DisconnectedMeansFetched'
    BY <1>1, <1>2, <2>1, SharedSame DEF GlobalInv
  <2>9. PoolInv'
    BY <1>1, <1>2, <1>3, <1>5, <2>1, <2>2, PoolTaken DEF GlobalInv
  <2>10. GlobalInv'
    BY <1>1, <1>2, <2>1, <2>5, <2>6, <2>7, <2>8, <2>9 DEF GlobalInv
  <2> QED BY <1>3, <2>3, <2>4, <2>10, LocalStepInv
<1>7. CASE ~accepted
  <2>1. FetchFailed(s, queue, FALSE) /\ UNCHANGED source_io
    BY <1>3, <1>7 DEF StartFetch
  <2> HIDE DEF queue
  <2> QED BY <1>2, <1>3, <1>5, <2>1, FetchFailedInv DEF Same
<1> QED BY <1>6, <1>7

LEMMA PollSourceInv ==
    ASSUME FInv, NEW s \in Stripes, NEW submitted \in BOOLEAN, PollSource(s, submitted),
           UNCHANGED diskVars
    PROVE  FInv'
<1>1. GlobalInv /\ StripeInv(s)
  BY FInvSplit
<1>2. /\ s \in DOMAIN source_io
      /\ source_io' = Without(source_io, {s})
      /\ UNCHANGED <<autofetch_queue, disconnected, null_source>>
  BY DEF PollSource
<1>3. /\ s \in DOMAIN stripe_states /\ stripe_states[s] = "Fetching"
      /\ s \in DOMAIN allocated_buffers /\ s \notin DOMAIN target_io
      /\ ~stripe_fetched_if_needed(s) /\ s \in SourceStripes
  BY <1>1, <1>2 DEF StripeInv
<1>4. /\ DOMAIN source_io' = DOMAIN source_io \ {s}
      /\ \A t \in Stripes \ {s} : Same(source_io, source_io', t)
  BY <1>2 DEF Without, Same
<1>5. DOMAIN source_io \subseteq Stripes /\ DOMAIN target_io \subseteq Stripes
      /\ DOMAIN disk_cache = Stripes /\ DOMAIN disk_durable = Stripes
  BY <1>1 DEF GlobalInv, DomainsInv
<1>6. CASE /\ source_io[s] = "ok"
           /\ target_io' = With(target_io, s, NewIo("write"))
           /\ UNCHANGED <<fetch_queue, stripe_states, stripe_fetch_retries,
                          allocated_buffers, fetch_buffers, finished_fetches, sharedVars>>
  <2>1. /\ DOMAIN target_io' = DOMAIN target_io \cup {s}
        /\ target_io'[s] = NewIo("write")
        /\ \A t \in Stripes \ {s} : Same(target_io, target_io', t)
    BY <1>6 DEF With, Same
  <2>2. \A t \in Stripes \ {s} : UntouchedAt(t)
    BY <1>4, <1>6, <2>1 DEF UntouchedAt, DiskQuietAt, Same, diskVars, sharedVars
  <2>3. StripeInv(s)'
    <3>1. ~stripe_fetched_if_needed(s)'
      BY <1>3, <1>6 DEF sharedVars, stripe_fetched_if_needed
    <3>2. allocated_buffers'[s] = SourceData
      BY <1>1, <1>2, <1>6 DEF StripeInv
    <3> QED BY <1>3, <1>4, <1>6, <2>1, <3>1, <3>2
            DEF StripeInv, FetchPhases, Unpublished, NewIo
  <2> QED BY <1>2, <1>3, <1>4, <1>5, <1>6, <2>1, <2>2, <2>3, FetchAdvancesInv DEF diskVars
<1>7. CASE FetchFailed(s, fetch_queue, TRUE) /\ UNCHANGED target_io
  <2>1. IsQueue(fetch_queue, QueuedStripes \ {s})
    <3>1. s \notin QueuedStripes
      BY <1>3 DEF QueuedStripes
    <3>2. QueuedStripes \ {s} = QueuedStripes
      BY <3>1
    <3> QED BY <1>1, <3>2 DEF GlobalInv
  <2> QED BY <1>2, <1>3, <1>4, <1>7, <2>1, FetchFailedInv DEF Same
<1> QED BY <1>6, <1>7 DEF PollSource

\* The end of a fetch: the buffer goes back, the result waits for the worker.
LEMMA FetchSucceededInv ==
    ASSUME FInv, NEW s \in Stripes,
           s \in DOMAIN target_io, stripe_states[s] = "Flushing", target_io[s].result = "ok",
           target_io' = Without(target_io, {s}), FetchSucceeded(s),
           UNCHANGED <<autofetch_queue, disconnected, null_source, source_io, diskVars>>
    PROVE  FInv'
<1>1. GlobalInv /\ StripeInv(s)
  BY FInvSplit
<1>2. /\ s \in DOMAIN stripe_states /\ s \in DOMAIN allocated_buffers
      /\ s \notin DOMAIN source_io /\ s \in SourceStripes
      /\ disk_cache[s] = SourceData /\ disk_durable[s] = SourceData
  BY <1>1 DEF StripeInv
<1>3. /\ DOMAIN target_io' = DOMAIN target_io \ {s}
      /\ DOMAIN allocated_buffers' = DOMAIN allocated_buffers \ {s}
      /\ fetch_buffers' = fetch_buffers + 1
      /\ DOMAIN stripe_states' = DOMAIN stripe_states \cup {s}
      /\ stripe_states'[s] = "Fetched"
      /\ \A t \in Stripes \ {s} : /\ Same(target_io, target_io', t)
                                  /\ Same(allocated_buffers, allocated_buffers', t)
                                  /\ Same(stripe_states, stripe_states', t)
  BY DEF FetchSucceeded, ReturnBuffer, With, Without, Same
<1>4. /\ stripe_fetch_retries' = [stripe_fetch_retries EXCEPT ![s] = 0]
      /\ finished_fetches' = Append(finished_fetches, [stripe_id |-> s, success |-> TRUE])
      /\ UNCHANGED <<fetch_queue, sharedVars>>
  BY DEF FetchSucceeded
<1>5. \A t \in Stripes \ {s} : UntouchedAt(t)
  BY <1>3, <1>4 DEF UntouchedAt, DiskQuietAt, Same, diskVars, sharedVars
<1>6. StripeInv(s)'
  BY <1>2, <1>3 DEF StripeInv, FetchPhases, diskVars
<1>7. DomainsInv'
  BY <1>1, <1>2, <1>3 DEF GlobalInv, DomainsInv, diskVars
<1>8. IsQueue(fetch_queue, QueuedStripes)'
  <2>1. s \notin QueuedStripes /\ QueuedStripes' = QueuedStripes \ {s}
    BY <1>1, <1>3, <1>7, QueuedElsewhere DEF GlobalInv, QueuedStripes
  <2>2. QueuedStripes' = QueuedStripes
    BY <2>1
  <2> QED BY <1>1, <1>4, <2>2 DEF GlobalInv, IsQueue, Elems, Distinct
<1>9. FinishedInv'
  BY <1>1, <1>3, <1>4, FinishedAppended DEF GlobalInv
<1>10. SharedInv' /\ DisconnectedMeansFetched'
  BY <1>1, <1>4, SharedSame DEF GlobalInv
<1>11. PoolInv'
  BY <1>1, <1>2, <1>3, PoolReturned DEF GlobalInv
<1>12. stripe_fetch_retries' \in [Stripes -> 0 .. MaxFetchRetries]
  BY <1>1, <1>4, FetcherAssumption DEF GlobalInv
<1>13. GlobalInv'
  BY <1>1, <1>7, <1>8, <1>9, <1>10, <1>11, <1>12 DEF GlobalInv
<1> QED BY <1>5, <1>6, <1>13, LocalStepInv

LEMMA PollTargetInv ==
    ASSUME FInv, NEW s \in Stripes, NEW submitted \in BOOLEAN, PollTarget(s, submitted),
           UNCHANGED diskVars
    PROVE  FInv'
<1>1. GlobalInv /\ StripeInv(s)
  BY FInvSplit
<1>2. /\ s \in DOMAIN target_io
      /\ UNCHANGED <<autofetch_queue, disconnected, null_source, source_io>>
  BY DEF PollTarget
<1>3. /\ s \in DOMAIN stripe_states /\ stripe_states[s] \in {"Fetching", "Flushing"}
      /\ s \in DOMAIN allocated_buffers /\ s \notin DOMAIN source_io
      /\ ~stripe_fetched_if_needed(s) /\ s \in SourceStripes
  BY <1>1, <1>2 DEF StripeInv
<1>4. CASE /\ target_io[s].result = "ok" /\ stripe_states[s] = "Fetching"
           /\ target_io' = With(target_io, s, NewIo("flush"))
           /\ stripe_states' = With(stripe_states, s, "Flushing")
           /\ UNCHANGED <<fetch_queue, stripe_fetch_retries, allocated_buffers,
                          fetch_buffers, finished_fetches, sharedVars>>
  <2>1. /\ DOMAIN target_io' = DOMAIN target_io
        /\ target_io'[s] = NewIo("flush")
        /\ DOMAIN stripe_states' = DOMAIN stripe_states
        /\ stripe_states'[s] = "Flushing"
        /\ \A t \in Stripes \ {s} : /\ Same(target_io, target_io', t)
                                    /\ Same(stripe_states, stripe_states', t)
    BY <1>2, <1>3, <1>4 DEF With, Same
  <2>2. \A t \in Stripes \ {s} : UntouchedAt(t)
    BY <1>2, <1>4, <2>1 DEF UntouchedAt, DiskQuietAt, Same, diskVars, sharedVars
  <2>3. StripeInv(s)'
    <3>1. ~stripe_fetched_if_needed(s)'
      BY <1>3, <1>4 DEF sharedVars, stripe_fetched_if_needed
    <3>2. disk_cache'[s] = SourceData
      BY <1>1, <1>2, <1>4 DEF StripeInv, diskVars
    <3> QED BY <1>2, <1>3, <1>4, <2>1, <3>1, <3>2
            DEF StripeInv, FetchPhases, Unpublished, NewIo
  <2>4. /\ DOMAIN source_io' \subseteq Stripes /\ DOMAIN target_io' \subseteq Stripes
        /\ DOMAIN disk_cache' = Stripes /\ DOMAIN disk_durable' = Stripes
    BY <1>1, <1>2, <2>1 DEF GlobalInv, DomainsInv, diskVars
  <2> QED BY <1>2, <1>3, <1>4, <2>1, <2>2, <2>3, <2>4, FetchAdvancesInv
<1>5. CASE /\ target_io[s].result = "ok" /\ stripe_states[s] = "Flushing"
           /\ target_io' = Without(target_io, {s})
           /\ FetchSucceeded(s)
  BY <1>2, <1>5, FetchSucceededInv
<1>6. CASE target_io' = Without(target_io, {s}) /\ FetchFailed(s, fetch_queue, TRUE)
  <2>1. /\ DOMAIN target_io' = DOMAIN target_io \ {s}
        /\ \A t \in Stripes \ {s} : Same(target_io, target_io', t)
    BY <1>6 DEF Without, Same
  <2>2. IsQueue(fetch_queue, QueuedStripes \ {s})
    <3>1. s \notin QueuedStripes
      BY <1>3 DEF QueuedStripes
    <3>2. QueuedStripes \ {s} = QueuedStripes
      BY <3>1
    <3> QED BY <1>1, <3>2 DEF GlobalInv
  <2> QED BY <1>2, <1>3, <1>6, <2>1, <2>2, FetchFailedInv DEF Same
<1> QED BY <1>4, <1>5, <1>6 DEF PollTarget

\* The counters are equal only when every stripe of the source is fetched.
LEMMA AllCountedMeansFetched ==
    ASSUME SharedInv, AllCounted
    PROVE  \A s \in SourceStripes : stripe_fetch_states[s] = Fetched
<1>1. Cardinality(FetchedNow) = Cardinality(SourceNow)
  BY DEF AllCounted, SharedInv, CountersInv, CountersExact, FetchedNow, SourceNow
<1>2. FetchedNow \subseteq SourceNow /\ IsFiniteSet(SourceNow)
  BY StripesFinite DEF FetchedNow, SourceNow, Fetched, NoSource
<1>3. FetchedNow = SourceNow
  BY <1>1, <1>2, FS_Subset
<1>4. SourceStripes \subseteq SourceNow
  BY StripeAssumption DEF SharedInv, CountersInv, NoSourceExact, SourceNow
<1> QED BY <1>3, <1>4 DEF FetchedNow

LEMMA DisconnectFromSourceInv ==
    ASSUME FInv, DisconnectFromSource, UNCHANGED diskVars
    PROVE  FInv'
<1>1. GlobalInv /\ \A t \in Stripes : StripeInv(t)
  BY FInvSplit
<1>2. source_io' = source_io
  BY DEF DisconnectFromSource, fetcher_busy
<1>3. ASSUME NEW t \in Stripes PROVE StripeInv(t)'
  <2>1. UntouchedAt(t)
    BY <1>2 DEF DisconnectFromSource, UntouchedAt, Same, DiskQuietAt, sharedVars, diskVars
  <2> QED BY <1>1, <2>1, UntouchedStripe
<1>4. \A s \in SourceStripes : stripe_fetch_states[s] = Fetched
  BY <1>1, AllCountedMeansFetched DEF GlobalInv, DisconnectFromSource
<1>5. DisconnectedMeansFetched'
  BY <1>4 DEF DisconnectFromSource, DisconnectedMeansFetched, sharedVars
<1>6. SharedInv'
  BY <1>1 DEF GlobalInv, DisconnectFromSource, SharedInv, SharedTypeOK, CountersInv,
              CountersExact, NoSourceExact, sharedVars
<1>7. DomainsInv' /\ PoolInv'
  BY <1>1, <1>2 DEF GlobalInv, DomainsInv, PoolInv, DisconnectFromSource, diskVars
<1>8. IsQueue(fetch_queue, QueuedStripes)' /\ FinishedInv'
  BY <1>1 DEF GlobalInv, IsQueue, Elems, Distinct, QueuedStripes, FinishedInv,
              FinishedMatchesState, DisconnectFromSource
<1>9. GlobalInv'
  BY <1>1, <1>5, <1>6, <1>7, <1>8 DEF GlobalInv, DisconnectFromSource
<1> QED BY <1>3, <1>9, FInvJoin

\* The source's answer: while a request is open the source is connected, so a
\* good answer is the source's data.
LEMMA SourceIoDoneInv ==
    ASSUME FInv, NEW s \in Stripes, NEW result \in {"ok", "err"}, SourceIoDone(s, result)
    PROVE  FInv'
<1>1. GlobalInv /\ StripeInv(s)
  BY FInvSplit
<1>2. /\ s \in DOMAIN source_io
      /\ source_io' = [source_io EXCEPT ![s] = result]
      /\ UNCHANGED <<fetch_queue, autofetch_queue, stripe_states, stripe_fetch_retries,
                     fetch_buffers, finished_fetches, disconnected, null_source,
                     target_io, diskVars, sharedVars>>
  BY DEF SourceIoDone
<1>3. /\ s \in DOMAIN stripe_states /\ stripe_states[s] = "Fetching"
      /\ s \in DOMAIN allocated_buffers /\ s \notin DOMAIN target_io
      /\ ~stripe_fetched_if_needed(s) /\ s \in SourceStripes
  BY <1>1, <1>2 DEF StripeInv
<1>4. ~null_source
  BY <1>1, <1>3 DEF GlobalInv, DisconnectedMeansFetched, stripe_fetched_if_needed
<1>5. /\ DOMAIN allocated_buffers' = DOMAIN allocated_buffers
      /\ result = "ok" => allocated_buffers'[s] = SourceData
      /\ \A t \in Stripes \ {s} : Same(allocated_buffers, allocated_buffers', t)
  BY <1>3, <1>4 DEF SourceIoDone, Same
<1>6. /\ DOMAIN source_io' = DOMAIN source_io /\ source_io'[s] = result
      /\ \A t \in Stripes \ {s} : Same(source_io, source_io', t)
  BY <1>2 DEF Same
<1>7. \A t \in Stripes \ {s} : UntouchedAt(t)
  BY <1>2, <1>5, <1>6 DEF UntouchedAt, DiskQuietAt, Same, diskVars, sharedVars
<1>8. StripeInv(s)'
  <2>1. ~stripe_fetched_if_needed(s)'
    BY <1>2, <1>3 DEF sharedVars, stripe_fetched_if_needed
  <2> QED BY <1>2, <1>3, <1>5, <1>6, <2>1 DEF StripeInv, FetchPhases, Unpublished
<1>9. /\ DOMAIN source_io' \subseteq Stripes /\ DOMAIN target_io' \subseteq Stripes
      /\ DOMAIN disk_cache' = Stripes /\ DOMAIN disk_durable' = Stripes
  BY <1>1, <1>2, <1>6 DEF GlobalInv, DomainsInv, diskVars
<1> QED BY <1>2, <1>3, <1>5, <1>7, <1>8, <1>9, FetchAdvancesInv

\* The base device's answer.  The write lands on a stripe that is not published
\* and so not the guest's; a flush makes whatever is in the cache durable.
LEMMA TargetIoDoneInv ==
    ASSUME FInv, NEW s \in Stripes, NEW result \in {"ok", "err"}, TargetIoDone(s, result)
    PROVE  FInv'
<1>1. GlobalInv /\ StripeInv(s)
  BY FInvSplit
<1>2. /\ s \in DOMAIN target_io
      /\ target_io' = [target_io EXCEPT ![s].result = result]
      /\ UNCHANGED <<fetcherVars, source_io, sharedVars>>
  BY DEF TargetIoDone
<1>3. /\ s \in DOMAIN stripe_states /\ stripe_states[s] \in {"Fetching", "Flushing"}
      /\ s \in DOMAIN allocated_buffers /\ s \notin DOMAIN source_io
      /\ ~stripe_fetched_if_needed(s) /\ s \in SourceStripes
      /\ target_io[s] \in [op : {"write", "flush"}, result : {"none", "ok", "err"}]
  BY <1>1, <1>2 DEF StripeInv
<1>4. /\ DOMAIN target_io' = DOMAIN target_io
      /\ target_io'[s] \in [op : {"write", "flush"}, result : {"none", "ok", "err"}]
      /\ target_io'[s].op = target_io[s].op /\ target_io'[s].result = result
      /\ \A t \in Stripes \ {s} : Same(target_io, target_io', t)
  BY <1>2, <1>3 DEF Same
<1>5. DOMAIN disk_cache = Stripes /\ DOMAIN disk_durable = Stripes
  BY <1>1 DEF GlobalInv, DomainsInv
<1>6. /\ DOMAIN disk_cache' = Stripes /\ DOMAIN disk_durable' = Stripes
      /\ \A t \in Stripes \ {s} :
            disk_cache'[t] = disk_cache[t] /\ disk_durable'[t] \in {disk_durable[t], disk_cache[t]}
      /\ target_io[s].op = "write" /\ result = "ok" => disk_cache'[s] = allocated_buffers[s]
      /\ target_io[s].op = "flush" => disk_cache'[s] = disk_cache[s]
      /\ target_io[s].op = "flush" /\ result = "ok" => disk_durable'[s] = disk_cache[s]
  BY <1>5 DEF TargetIoDone, diskVars
<1>7. \A t \in Stripes \ {s} : UntouchedAt(t)
  BY <1>2, <1>4, <1>6 DEF UntouchedAt, DiskQuietAt, Same, fetcherVars, sharedVars
<1>8. StripeInv(s)'
  <2>1. ~stripe_fetched_if_needed(s)'
    BY <1>2, <1>3 DEF sharedVars, stripe_fetched_if_needed
  <2>2. UNCHANGED <<stripe_states, allocated_buffers, source_io>>
    BY <1>2 DEF fetcherVars
  <2>3. ~Unpublished(s)'
    BY <1>3, <2>2 DEF Unpublished
  <2>4. /\ target_io[s].op = "write" => allocated_buffers[s] = SourceData
        /\ target_io[s].op = "flush" => disk_cache[s] = SourceData
        /\ \/ target_io[s].op = "write" /\ stripe_states[s] = "Fetching"
           \/ target_io[s].op = "flush" /\ stripe_states[s] = "Flushing"
    BY <1>1, <1>2 DEF StripeInv
  <2> QED BY <1>2, <1>3, <1>4, <1>6, <2>1, <2>2, <2>3, <2>4 DEF StripeInv, FetchPhases
<1>9. DOMAIN source_io' \subseteq Stripes /\ DOMAIN target_io' \subseteq Stripes
  BY <1>1, <1>2, <1>4 DEF GlobalInv, DomainsInv
<1> QED BY <1>2, <1>3, <1>6, <1>7, <1>8, <1>9, FetchAdvancesInv DEF fetcherVars

-----------------------------------------------------------------------------
(* FInv holds initially, and after a restart.                              *)

\* The stripes that autofetch starts with are stripes of the device.
LEMMA AutofetchType == \A h : AutofetchQueue(h) \in Seq(Stripes)
<1> DEFINE all == [i \in 1 .. SourceStripeCount |-> i - 1]
<1>1. all \in [1 .. SourceStripeCount -> Stripes] /\ SourceStripeCount \in Nat
  BY FetcherAssumption, StripeAssumption DEF Stripes
<1> HIDE DEF all
<1>2. all \in Seq(Stripes)
  BY <1>1, SeqDef
<1> QED BY <1>2 DEF AutofetchQueue, all

\* has_fetched_all_stripes, and what the atomics then hold.
LEMMA LoadedAllFetched ==
    ASSUME NEW h, SoundHeaders(h), AllFetched(h)
    PROVE  \A s \in SourceStripes : LoadedFetchStates(h)[s] = Fetched
BY StripeAssumption DEF SoundHeaders, AllFetched, LoadedFetchStates

\* What StripeFetcher::new leaves, whatever the headers h that were loaded.
LEMMA FetcherNewInv ==
    ASSUME NEW h, SoundHeaders(h), SharedInit(h), FetcherInit(h),
           DOMAIN disk_cache = Stripes, DOMAIN disk_durable = Stripes
    PROVE  FInv
<1>1. SharedInv
  BY SharedInitInv
<1>2. \A t \in Stripes : StripeInv(t)
  BY DEF FetcherInit, StripeInv, Unpublished
<1>3. DomainsInv
  BY DEF FetcherInit, DomainsInv
<1>4. PoolInv
  <2>1. DOMAIN allocated_buffers = {} /\ fetch_buffers = MaxConcurrentFetches
    BY DEF FetcherInit
  <2> QED BY <2>1, FS_EmptySet, FetcherAssumption DEF PoolInv
<1>5. QueuedStripes = {} /\ fetch_queue = <<>>
  BY DEF FetcherInit, QueuedStripes
<1>6. IsQueue(fetch_queue, QueuedStripes)
  BY <1>5, EmptyQueue
<1>7. FinishedInv
  BY DEF FetcherInit, FinishedInv, FinishedMatchesState
<1>8. autofetch_queue \in Seq(Stripes)
  BY AutofetchType DEF FetcherInit
<1>9. DisconnectedMeansFetched
  BY LoadedAllFetched DEF FetcherInit, SharedInit, DisconnectedMeansFetched
<1>10. null_source \in BOOLEAN /\ stripe_fetch_retries \in [Stripes -> 0 .. MaxFetchRetries]
  BY FetcherAssumption DEF FetcherInit, AllFetched
<1>11. GlobalInv
  BY <1>1, <1>3, <1>4, <1>6, <1>7, <1>8, <1>9, <1>10 DEF GlobalInv, FetcherInit
<1> QED BY <1>2, <1>11, FInvSplit

\* A state that StripeFetcher::new leaves on the headers h.
LoadedWith(h) ==
    /\ SoundHeaders(h) /\ SharedInit(h) /\ FetcherInit(h)
    /\ DOMAIN disk_cache = Stripes /\ DOMAIN disk_durable = Stripes

LoadedIsSound == \A h : LoadedWith(h) => FInv

LEMMA LoadedWithInv == LoadedIsSound
BY FetcherNewInv DEF LoadedIsSound, LoadedWith

\* The same after a restart.
LEMMA FetcherReloadInv ==
    ASSUME NEW h, SoundHeaders(h), SharedLoad(h), FetcherReload(h),
           DOMAIN disk_cache' = Stripes, DOMAIN disk_durable' = Stripes
    PROVE  FInv'
<1>1. LoadedIsSound'
  BY LoadedWithInv, PTL
<1>2. SharedInit(h)'
  BY DEF SharedLoad, SharedInit
<1>3. FetcherInit(h)'
  BY DEF FetcherReload, FetcherInit
<1>4. LoadedWith(h)'
  BY <1>2, <1>3 DEF LoadedWith, SoundHeaders
<1> QED BY <1>1, <1>4 DEF LoadedIsSound

-----------------------------------------------------------------------------
(* The specification of the fetcher alone.                                 *)

LEMMA FInitInv == FInit => FInv
BY FreshHeadersSound, FetcherNewInv DEF FInit, DiskInit

LEMMA FNextInv == FInv /\ [FNext]_fVars => FInv'
<1> SUFFICES ASSUME FInv, [FNext]_fVars PROVE FInv'
  OBVIOUS
<1>1. /\ autofetch_queue \in Seq(Stripes)
      /\ DOMAIN disk_cache = Stripes /\ DOMAIN disk_durable = Stripes
  BY DEF FInv, FTypeOK
<1>2. CASE UNCHANGED fVars
  <2>1. \A t \in Stripes : DiskQuietAt(t)
    BY <1>2 DEF fVars, diskVars, DiskQuietAt
  <2> QED BY <1>1, <1>2, <2>1, QuietInv DEF fVars, fetcherVars, diskVars
<1>3. ASSUME NEW s \in Stripes, RequestFetch(s) PROVE FInv'
  BY <1>1, <1>3, HandleFetchRequestInv DEF RequestFetch
<1>4. ASSUME NEW s \in Stripes, Publish(s) PROVE FInv'
  <2>1. s \in SourceStripes
    BY <1>4 DEF FInv, TrackedUnfetched, Publish, Unpublished
  <2> QED BY <1>4, <2>1, PublishInv DEF Publish
<1>5. ASSUME NEW s \in Stripes, GuestWrite(s) PROVE FInv'
  <2>1. \A t \in Stripes : DiskQuietAt(t)
    BY <1>1, <1>5 DEF GuestWrite, DiskQuietAt
  <2> QED BY <1>1, <1>5, <2>1, QuietInv DEF GuestWrite, fetcherVars
<1>6. ASSUME NEW s \in Stripes, FetchIoDone(s) PROVE FInv'
  BY <1>6, SourceIoDoneInv, TargetIoDoneInv DEF FetchIoDone
<1>7. ASSUME NEW s \in Stripes, DiskWriteBack(s) PROVE FInv'
  BY <1>7, DiskWriteBackInv
<1>8. CASE TakeFinished
  <2>1. \A t \in Stripes : DiskQuietAt(t)
    BY <1>8 DEF TakeFinished, diskVars, DiskQuietAt
  <2> QED BY <1>1, <1>8, <2>1, QuietInv DEF TakeFinished, diskVars
<1>9. CASE FetcherUpdate
  BY <1>9, UpdateAutofetchInv, StartFetchInv, PollSourceInv, PollTargetInv,
     DisconnectFromSourceInv DEF FetcherUpdate
<1> QED BY <1>2, <1>3, <1>4, <1>5, <1>6, <1>7, <1>8, <1>9 DEF FNext

\* Every reachable state of the fetcher satisfies its inductive invariant.
THEOREM FetcherInvariant == FSpec => []FInv
BY FInitInv, FNextInv, PTL DEF FSpec

\* The fetcher's state keeps its types: in particular retries stay within
\* MAX_FETCH_RETRIES and the pool never has more buffers than it was made with.
THEOREM FetcherTypeCorrect == FSpec => []FTypeOK
<1>1. FInv => FTypeOK
  BY DEF FInv
<1> QED BY <1>1, FetcherInvariant, PTL

\* Every buffer is in the pool or with a stripe whose request is under way,
\* whichever of the source, the write, the flush or a submit fails
\* (fetch_completed returns it exactly once).
THEOREM BuffersStay == FSpec => []FetchBuffersHeld
<1>1. FInv => FetchBuffersHeld
  BY DEF FInv
<1> QED BY <1>1, FetcherInvariant, PTL

\* The queue of start_fetches holds exactly the stripes in state Queued, each
\* once, through retries, requests of the I/O threads and autofetch.
THEOREM QueueStaysExact == FSpec => []QueueExact
<1>1. FInv => QueueExact
  BY DEF FInv
<1> QED BY <1>1, FetcherInvariant, PTL

\* A stripe that the fetcher reports as fetched has the source's data on the
\* durable medium (the read, write, flush order of poll_fetches).
THEOREM FinishedStaysDurable == FSpec => []FinishedIsDurable
<1>1. FInv => FinishedIsDurable
  BY DEF FInv, FetchDataSound, FinishedIsDurable
<1> QED BY <1>1, FetcherInvariant, PTL

\* disconnect_from_source_if_all_fetched drops the source only when no stripe
\* needs it: equal counters mean equal sets.
THEOREM SourceKeptWhileNeeded == FSpec => []DisconnectedMeansFetched
<1>1. FInv => DisconnectedMeansFetched
  BY DEF FInv
<1> QED BY <1>1, FetcherInvariant, PTL

-----------------------------------------------------------------------------
(* GuestDataKept: what the steps of the fetcher do to published stripes.   *)

\* The fetcher touches the shared state only to mark as failed a stripe that
\* is not published.
FailsUnfetched(t) == t \in Stripes /\ ~stripe_fetched_if_needed(t) /\ SetStripeFailed(t)

LEMMA StartFetchShared ==
    ASSUME FInv, NEW accepted \in BOOLEAN, StartFetch(accepted)
    PROVE  UNCHANGED sharedVars \/ \E t : FailsUnfetched(t)
<1>1. GlobalInv /\ fetch_queue # <<>>
  BY FInvSplit DEF StartFetch
<1>2. Head(fetch_queue) \in QueuedStripes /\ Head(fetch_queue) \in Stripes
  BY <1>1, QueueTail DEF GlobalInv
<1>3. ~stripe_fetched_if_needed(Head(fetch_queue))
  BY <1>2 DEF QueuedStripes, FInv, TrackedUnfetched
<1>4. UNCHANGED sharedVars \/ SetStripeFailed(Head(fetch_queue))
  BY DEF StartFetch, FetchFailed
<1> QED BY <1>2, <1>3, <1>4 DEF FailsUnfetched

LEMMA PollSharedOnly ==
    ASSUME FInv, NEW s \in Stripes, NEW submitted \in BOOLEAN,
           PollSource(s, submitted) \/ PollTarget(s, submitted)
    PROVE  UNCHANGED sharedVars \/ \E t : FailsUnfetched(t)
<1>1. UNCHANGED sharedVars \/ SetStripeFailed(s)
  BY DEF PollSource, PollTarget, FetchFailed, FetchSucceeded
<1>2. s \in DOMAIN source_io \/ s \in DOMAIN target_io
  BY DEF PollSource, PollTarget
<1>3. ~stripe_fetched_if_needed(s)
  BY <1>2 DEF FInv, IoMatchesState, TrackedUnfetched
<1> QED BY <1>1, <1>3 DEF FailsUnfetched

\* Marking an unpublished stripe as failed unpublishes nothing.
LEMMA FailedKeepsFetched ==
    ASSUME SharedTypeOK, NEW s \in Stripes, stripe_fetched_if_needed(s),
           UNCHANGED sharedVars \/ \E t : FailsUnfetched(t)
    PROVE  stripe_fetch_states'[s] = stripe_fetch_states[s]
BY DEF FailsUnfetched, SetStripeFailed, SharedTypeOK, sharedVars

\* Once a stripe is published it stays so until a restart.
LEMMA FetchedStays ==
    ASSUME FInv, [FNext]_fVars, NEW s \in Stripes, stripe_fetched_if_needed(s)
    PROVE  stripe_fetched_if_needed(s)'
<1>1. SharedTypeOK
  BY DEF FInv, FTypeOK
<1>2. CASE UNCHANGED sharedVars \/ \E t : FailsUnfetched(t)
  BY <1>1, <1>2, FailedKeepsFetched DEF stripe_fetched_if_needed
<1>3. ASSUME NEW t \in Stripes, Publish(t) PROVE stripe_fetched_if_needed(s)'
  BY <1>3 DEF Publish, SetStripeHeaders, stripe_fetched_if_needed
<1>4. CASE FetcherUpdate
  BY <1>2, <1>4, StartFetchShared, PollSharedOnly
     DEF FetcherUpdate, UpdateAutofetch, HandleFetchRequest, DisconnectFromSource
<1>5. ASSUME NEW t \in Stripes,
             RequestFetch(t) \/ GuestWrite(t) \/ FetchIoDone(t) \/ DiskWriteBack(t)
      PROVE  stripe_fetched_if_needed(s)'
  BY <1>2, <1>5 DEF RequestFetch, HandleFetchRequest, GuestWrite, FetchIoDone, SourceIoDone,
                    TargetIoDone, DiskWriteBack
<1>6. CASE TakeFinished \/ UNCHANGED fVars
  BY <1>2, <1>6 DEF TakeFinished, fVars
<1> QED BY <1>3, <1>4, <1>5, <1>6 DEF FNext

\* The answer of the base device changes only a stripe that is not published.
LEMMA TargetWritesUnfetched ==
    ASSUME FInv, NEW s \in Stripes, NEW result \in {"ok", "err"}, TargetIoDone(s, result),
           NEW t \in Stripes
    PROVE  disk_cache'[t] = disk_cache[t] \/ (~stripe_fetched_if_needed(t)
                                               /\ disk_cache'[t] = SourceData)
<1>1. DOMAIN disk_cache = Stripes
  BY DEF FInv, FTypeOK
<1>2. /\ s \in DOMAIN target_io /\ ~stripe_fetched_if_needed(s)
      /\ target_io[s].op = "write" => allocated_buffers[s] = SourceData
  BY DEF TargetIoDone, FInv, IoMatchesState, TrackedUnfetched, FetchDataSound
<1> QED BY <1>1, <1>2 DEF TargetIoDone, diskVars

\* What one step may do to the cache of the base device.
LEMMA CacheStep ==
    ASSUME FInv, [FNext]_fVars, NEW s \in Stripes
    PROVE  \/ disk_cache'[s] = disk_cache[s]
           \/ ~stripe_fetched_if_needed(s) /\ disk_cache'[s] = SourceData
           \/ stripe_fetched_if_needed(s) /\ disk_cache'[s] = GuestData
<1>1. CASE UNCHANGED diskVars \/ UNCHANGED disk_cache
  BY <1>1 DEF diskVars
<1>2. ASSUME NEW t \in Stripes, GuestWrite(t)
      PROVE  \/ disk_cache'[s] = disk_cache[s]
             \/ stripe_fetched_if_needed(s) /\ disk_cache'[s] = GuestData
  <2>1. DOMAIN disk_cache = Stripes
    BY DEF FInv, FTypeOK
  <2> QED BY <1>2, <2>1 DEF GuestWrite
<1>3. CASE \E t \in Stripes : RequestFetch(t) \/ Publish(t) \/ DiskWriteBack(t)
  BY <1>1, <1>3 DEF RequestFetch, Publish, DiskWriteBack
<1>4. ASSUME NEW t \in Stripes, FetchIoDone(t)
      PROVE  \/ disk_cache'[s] = disk_cache[s]
             \/ ~stripe_fetched_if_needed(s) /\ disk_cache'[s] = SourceData
  BY <1>4, TargetWritesUnfetched DEF FetchIoDone, SourceIoDone, diskVars
<1>5. CASE TakeFinished \/ FetcherUpdate \/ UNCHANGED fVars
  BY <1>1, <1>5 DEF TakeFinished, FetcherUpdate, fVars
<1> QED BY <1>2, <1>3, <1>4, <1>5 DEF FNext

\* A fetch never overwrites what the guest wrote: the write of the fetcher is
\* only ever under way on a stripe that is not published, and the guest writes
\* only stripes that are.
THEOREM GuestDataStays == FSpec => GuestDataKept
<1>1. FInit => GuestWritesFetched
  BY DEF FInit, DiskInit, GuestWritesFetched, BlankData, GuestData
<1>2. FInv /\ GuestWritesFetched /\ [FNext]_fVars => GuestWritesFetched'
  <2> SUFFICES ASSUME FInv, GuestWritesFetched, [FNext]_fVars,
                      NEW s \in Stripes, disk_cache'[s] = GuestData
               PROVE  stripe_fetched_if_needed(s)'
    BY DEF GuestWritesFetched
  <2>1. stripe_fetched_if_needed(s)
    BY CacheStep DEF GuestWritesFetched, SourceData, GuestData
  <2> QED BY <2>1, FetchedStays
<1>3. FInv /\ GuestWritesFetched /\ [FNext]_fVars =>
        [\A s \in Stripes : disk_cache[s] = GuestData => disk_cache'[s] = GuestData]_fVars
  <2> SUFFICES ASSUME FInv, GuestWritesFetched, [FNext]_fVars,
                      NEW s \in Stripes, disk_cache[s] = GuestData
               PROVE  disk_cache'[s] = GuestData
    OBVIOUS
  <2> QED BY CacheStep DEF GuestWritesFetched
<1> QED BY <1>1, <1>2, <1>3, FetcherInvariant, PTL DEF FSpec, GuestDataKept

=============================================================================
