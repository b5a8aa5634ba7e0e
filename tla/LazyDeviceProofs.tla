------------------------------ MODULE LazyDeviceProofs ------------------------------
(***************************************************************************)
(* Proofs about LazyDevice, for any number of stripes, I/O threads and     *)
(* requests, any source and any budget of faults and power losses.  The    *)
(* inductive invariant is LInv.                                            *)
(*                                                                         *)
(* The invariants of the flusher and of the fetcher are preserved by the   *)
(* operations the worker calls, so their lemmas are used as they are.      *)
(* What is new is between the components, and it rests on one notion: a    *)
(* stripe is Secured once its data is on the medium of the base device.    *)
(* FETCHED is asked for, written and published only for such stripes, the  *)
(* fetcher writes only stripes that are not, and the guest only stripes    *)
(* that are published.                                                     *)
(***************************************************************************)
EXTENDS LazyDevice, WorkerProofs

\* The data that are not a guest's are told apart, and from the guest's.
LEMMA DataDistinct ==
    /\ SourceData # BlankData
    /\ SourceData \notin Requests /\ BlankData \notin Requests
BY ChannelAssumption DEF SourceData, BlankData

\* A stripe that is done and not published: its data is on the medium.
LEMMA SecuredData ==
    ASSUME FInv, NEW s \in Stripes, Secured(s), ~stripe_fetched_if_needed(s)
    PROVE  /\ Unpublished(s)
           /\ disk_cache[s] = SourceData /\ disk_durable[s] = SourceData
<1>1. Unpublished(s)
  BY DEF Secured, Unpublished
<1> QED BY <1>1 DEF FInv, FetchDataSound

\* Published as NoSource: exactly the stripes without a source.
LEMMA NotFetchedHasSource ==
    ASSUME FInv, NEW s \in Stripes, ~stripe_fetched_if_needed(s)
    PROVE  s \in SourceStripes
BY DEF FInv, NoSourceExact, stripe_fetched_if_needed

-----------------------------------------------------------------------------
(* Sequences.                                                              *)

LEMMA SeqNarrow ==
    ASSUME NEW S, NEW T, NEW q \in Seq(S), \A i \in DOMAIN q : q[i] \in T
    PROVE  q \in Seq(T)
<1>1. q \in [1 .. Len(q) -> T] /\ Len(q) \in Nat
  BY LenProperties
<1> QED BY <1>1, SeqDef

LEMMA SeqElement ==
    ASSUME NEW S, NEW q \in Seq(S), NEW i \in DOMAIN q
    PROVE  q[i] \in S
BY LenProperties

\* The sequences that an \o of the code's pushes makes.
LEMMA AscendingType ==
    ASSUME NEW S, IsFiniteSet(S), NEW q \in Ascending(S)
    PROVE  q \in Seq(S)
<1>1. Cardinality(S) \in Nat
  BY FS_CardinalityType
<1>2. q \in [1 .. Cardinality(S) -> S]
  BY DEF Ascending
<1> QED BY <1>1, <1>2, SeqDef

\* What is left of a sequence without its first n elements.
LEMMA DropFirst ==
    ASSUME NEW S, NEW q \in Seq(S), NEW n \in 0 .. Len(q), NEW p,
           p = SubSeq(q, n + 1, Len(q))
    PROVE  /\ p \in Seq(S)
           /\ DOMAIN p = 1 .. (Len(q) - n)
           /\ \A i \in DOMAIN p : n + i \in DOMAIN q /\ p[i] = q[n + i]
<1>1. Len(q) \in Nat /\ DOMAIN q = 1 .. Len(q) /\ \A i \in 1 .. Len(q) : q[i] \in S
  BY LenProperties
<1>2. /\ n + 1 \in Int /\ Len(q) \in Int /\ n \in Nat
      /\ \A i \in (n + 1) .. Len(q) : q[i] \in S
  BY <1>1
<1>3. /\ p \in Seq(S)
      /\ Len(p) = IF n + 1 <= Len(q) THEN Len(q) - (n + 1) + 1 ELSE 0
      /\ \A i \in 1 .. Len(q) - (n + 1) + 1 : p[i] = q[n + 1 + i - 1]
  BY <1>2, SubSeqProperties
<1>4. DOMAIN p = 1 .. (Len(q) - n)
  BY <1>1, <1>2, <1>3, LenProperties
<1> QED BY <1>1, <1>2, <1>3, <1>4

-----------------------------------------------------------------------------
(* The flusher under the steps of the others.                              *)

\* The fetcher gives up on a stripe: nothing the flusher relies on changes.
LEMMA FailedStepInv ==
    ASSUME MFInv, UNCHANGED <<flusherVars, metaDevVars>>,
           UNCHANGED sharedVars \/ \E t : FailsUnfetched(t)
    PROVE  MFInv'
<1>1. CASE UNCHANGED sharedVars
  BY <1>1, StutterInv DEF mfVars
<1>2. ASSUME NEW t, FailsUnfetched(t) PROVE MFInv'
  <2> USE DEF MFInv, flusherVars, metaDevVars
  <2>1. SharedTypeOK'
    BY <1>2 DEF MFTypeOK, SharedTypeOK, FailsUnfetched, SetStripeFailed, FetchStates
  <2>2. \A s \in Stripes, bit \in {FETCHED, WRITTEN} : Published(s, bit)' <=> Published(s, bit)
    <3>1. stripe_fetch_states \in [Stripes -> FetchStates] /\ t \in Stripes
      BY <1>2 DEF MFTypeOK, SharedTypeOK, FailsUnfetched
    <3>2. \A s \in Stripes : stripe_fetch_states'[s] = Fetched <=> stripe_fetch_states[s] = Fetched
      BY <1>2, <3>1 DEF FailsUnfetched, SetStripeFailed, stripe_fetched_if_needed, Fetched, Failed
    <3> QED BY <1>2, <3>2 DEF Published, stripe_written, FailsUnfetched, SetStripeFailed
  <2>3. MFTypeOK'
    BY <2>1 DEF MFTypeOK
  <2>4. SectorsSerialized'
    BY DEF SectorsSerialized
  <2>5. \A s \in DOMAIN header_updates : /\ s \in Stripes
                                         /\ header_updates[s].bit \in {FETCHED, WRITTEN}
    BY DEF MFTypeOK, Update
  <2>6. UpdatesSound'
    BY <2>2, <2>5 DEF UpdatesSound, UpdateSound
  <2>7. CopyMatchesPublished' /\ PublishedIsDurable' /\ CacheKeepsPublished'
    BY <2>2 DEF CopyMatchesPublished, PublishedIsDurable, CacheKeepsPublished
  <2>8. SourceFlagsKept'
    BY DEF SourceFlagsKept
  <2> QED BY <2>3, <2>4, <2>6, <2>7, <2>8
<1> QED BY <1>1, <1>2

\* set_stripe_fetched and set_stripe_written, for any number of requests.
LEMMA EnqueueAllInv ==
    ASSUME MFInv, NEW requests \in Seq(Request), EnqueueAll(requests),
           \A i \in DOMAIN requests :
               requests[i].bit = FETCHED => requests[i].stripe_id \in SourceStripes,
           UNCHANGED <<metaDevVars, sharedVars>>
    PROVE  MFInv'
<1> DEFINE good == {r \in Request : r.bit = FETCHED => r.stripe_id \in SourceStripes}
<1>1. queued_requests \in Seq(Request)
  BY DEF MFInv, MFTypeOK
<1>2. /\ \A i \in DOMAIN requests : requests[i] \in good
      /\ \A i \in DOMAIN queued_requests : queued_requests[i] \in good
  BY <1>1, SeqElement DEF MFInv, SourceFlagsKept
<1>3. queued_requests' \in Seq(good)
  <2> HIDE DEF good
  <2>1. requests \in Seq(good) /\ queued_requests \in Seq(good)
    BY <1>1, <1>2, SeqNarrow
  <2> QED BY <2>1, ConcatProperties DEF EnqueueAll
<1>4. good \subseteq Request
  OBVIOUS
<1>5. \A i \in DOMAIN queued_requests' : queued_requests'[i] \in good
  <2> HIDE DEF good
  <2> QED BY <1>3, SeqElement
<1>6. queued_requests' \in Seq(Request)
  BY <1>3, <1>5, SeqNarrow
<1> QED BY <1>5, <1>6, QueueStepInv DEF EnqueueAll

-----------------------------------------------------------------------------
(* What every step but a power loss does to a stripe.                      *)

\* A published stripe stays so, one that is done stays done, and only one that
\* is done is published.
KeepsStripe(s) ==
    /\ stripe_fetched_if_needed(s) => stripe_fetched_if_needed(s)'
    /\ stripe_written(s) => stripe_written(s)'
    /\ Secured(s) => Secured(s)'
    /\ stripe_fetched_if_needed(s)' => Secured(s)

\* FETCHED is asked for and written only for stripes that are done.
MarksKept ==
    /\ \A s \in Stripes :
          FETCHED \in headers'[s] \cup meta_cache'[s] \cup meta_durable'[s] => Secured(s)
    /\ \A i \in DOMAIN queued_requests' :
          queued_requests'[i].bit = FETCHED => Secured(queued_requests'[i].stripe_id)

\* The fetcher writes a stripe that is not published, the guest one that is,
\* and with track_written one that is marked.
Copied(s) ==
    s \in SourceStripes /\ ~stripe_fetched_if_needed(s) /\ disk_cache'[s] = SourceData
GuestWrote(s) ==
    /\ stripe_fetched_if_needed(s) /\ (TrackWritten => stripe_written(s))
    /\ disk_cache'[s] \in Requests

CacheKept(s) == disk_cache'[s] = disk_cache[s] \/ Copied(s)

DiskStep(s) ==
    /\ CacheKept(s) \/ GuestWrote(s)
    /\ disk_durable'[s] \in {disk_durable[s], disk_cache[s]}

LEMMA MarksStep ==
    ASSUME MFInv', \A s \in Stripes : KeepsStripe(s), MarksKept
    PROVE  MarksSecured'
<1>1. \A i \in DOMAIN queued_requests' : queued_requests'[i].stripe_id \in Stripes
  <2>1. queued_requests' \in Seq(Request)
    BY DEF MFInv, MFTypeOK
  <2>2. \A i \in DOMAIN queued_requests' : queued_requests'[i] \in Request
    BY <2>1, SeqElement
  <2> QED BY <2>2 DEF Request
<1>2. ASSUME NEW i \in DOMAIN queued_requests', queued_requests'[i].bit = FETCHED
      PROVE  Secured(queued_requests[i].stripe_id)'
  <2>1. PICK x \in Stripes : x = queued_requests'[i].stripe_id
    BY <1>1
  <2>2. Secured(x)
    BY <1>2, <2>1 DEF MarksKept, Secured, stripe_fetched_if_needed
  <2>3. Secured(x)'
    BY <2>2 DEF KeepsStripe
  <2> QED BY <2>1, <2>3 DEF Secured, stripe_fetched_if_needed
<1> QED BY <1>2 DEF MarksKept, MarksSecured, KeepsStripe

LEMMA CopiesStep ==
    ASSUME FInv, CopiesPresent, \A s \in Stripes : KeepsStripe(s) /\ DiskStep(s)
    PROVE  CopiesPresent'
<1> USE DataDistinct, StripeAssumption
<1>1. ASSUME NEW s \in SourceStripes, stripe_fetched_if_needed(s)'
      PROVE  disk_cache'[s] # BlankData /\ disk_durable'[s] # BlankData
  <2>1. disk_cache[s] # BlankData /\ disk_durable[s] # BlankData
    BY <1>1, SecuredData DEF CopiesPresent, KeepsStripe
  <2> QED BY <2>1 DEF DiskStep, CacheKept, Copied, GuestWrote
<1>2. ASSUME NEW s \in Stripes \ SourceStripes
      PROVE  disk_cache'[s] # SourceData /\ disk_durable'[s] # SourceData
  BY <1>2 DEF CopiesPresent, DiskStep, CacheKept, Copied, GuestWrote
<1> QED BY <1>1, <1>2 DEF CopiesPresent

LEMMA WritesStep ==
    ASSUME WritesPublished, \A s \in Stripes : KeepsStripe(s) /\ DiskStep(s)
    PROVE  WritesPublished'
<1> SUFFICES ASSUME TrackWritten, NEW s \in Stripes,
                    disk_cache'[s] \in Requests \/ disk_durable'[s] \in Requests
             PROVE  stripe_written(s)'
  BY DEF WritesPublished
<1>1. stripe_written(s)
  BY DataDistinct DEF WritesPublished, DiskStep, CacheKept, Copied, GuestWrote
<1> QED BY <1>1 DEF KeepsStripe

\* What a read returns of a stripe changes only when the guest writes it.
LEMMA ContentStep ==
    ASSUME FInv, NEW s \in Stripes, KeepsStripe(s), CacheKept(s)
    PROVE  Content(s)' = Content(s)
<1>1. CASE stripe_fetched_if_needed(s)
  BY <1>1 DEF KeepsStripe, CacheKept, Copied, Content
<1>2. CASE ~stripe_fetched_if_needed(s) /\ stripe_fetched_if_needed(s)'
  <2>1. disk_cache[s] = SourceData
    BY <1>2, SecuredData DEF KeepsStripe
  <2> QED BY <1>2, <2>1 DEF CacheKept, Copied, Content
<1>3. CASE ~stripe_fetched_if_needed(s) /\ ~stripe_fetched_if_needed(s)'
  BY <1>3 DEF Content
<1> QED BY <1>1, <1>2, <1>3

-----------------------------------------------------------------------------
(* The background: a step that the guest does not see.                     *)

DiskTypeOK == disk_cache \in [Stripes -> Datum] /\ disk_durable \in [Stripes -> Datum]

BackgroundStep ==
    /\ MFInv' /\ FInv' /\ DiskTypeOK'
    /\ MarksKept
    /\ \A s \in Stripes : KeepsStripe(s) /\ DiskStep(s) /\ CacheKept(s)

LEMMA CoveredStripes ==
    ASSUME ChannelTypeOK, NEW r \in Requests
    PROVE  /\ req[r] \in RequestState
           /\ req[r].first \in Stripes /\ req[r].last \in Stripes
           /\ Covered(r) \subseteq Stripes
<1>1. req[r] \in RequestState
  BY DEF ChannelTypeOK
<1>2. req[r].first \in Stripes /\ req[r].last \in Stripes
  BY <1>1 DEF RequestState
<1> QED BY <1>1, <1>2, StripeAssumption DEF Covered, Stripes

\* A request that nothing happens to stays sound while the background works.
LEMMA QuietRequest ==
    ASSUME ChannelTypeOK, NEW r \in Requests, RequestSound(r),
           req'[r] = req[r], Waits(r)' => Waits(r),
           Same(base_io, base_io', r), Same(image_io, image_io', r),
           \A s \in Stripes : KeepsStripe(s) /\ Content(s)' = Content(s)
    PROVE  RequestSound(r)'
<1>1. Covered(r) \subseteq Stripes /\ Covered(r)' = Covered(r)
  BY CoveredStripes DEF Covered
<1>2. TrackWritten /\ req[r].kind = Out /\ AllWritten(Covered(r)) => AllWritten(Covered(r))'
  BY <1>1 DEF AllWritten, KeepsStripe
<1> QED BY <1>1, <1>2 DEF RequestSound, KeepsStripe, Same

\* What a background step keeps, whatever happens to the requests.
LEMMA BackgroundCore ==
    ASSUME LInv, BackgroundStep
    PROVE  /\ MarksSecured' /\ CopiesPresent' /\ WritesPublished'
           /\ \A s \in Stripes : KeepsStripe(s) /\ DiskStep(s) /\ Content(s)' = Content(s)
<1>1. \A s \in Stripes : KeepsStripe(s) /\ DiskStep(s) /\ Content(s)' = Content(s)
  BY ContentStep DEF BackgroundStep, LInv
<1>2. MarksSecured' /\ CopiesPresent' /\ WritesPublished'
  BY <1>1, MarksStep, CopiesStep, WritesStep DEF BackgroundStep, LInv
<1> QED BY <1>1, <1>2

LEMMA BackgroundInv ==
    ASSUME LInv, BackgroundStep, BgTypeOK', UNCHANGED allGuest,
           faults' \in 0 .. MaxFaults, power_losses' \in 0 .. MaxPowerLosses
    PROVE  LInv'
<1> USE DEF allGuest, channelVars, guestIoVars
<1>1. ChannelTypeOK'
  BY DEF BackgroundStep, DiskTypeOK, LInv, LTypeOK, ChannelTypeOK
<1>2. LTypeOK'
  BY <1>1 DEF BackgroundStep, LTypeOK, MFInv, FInv
<1>3. OnePlace'
  BY DEF LInv, OnePlace, PlacedOnce, OwnRequests, Waits, Rejected
<1>4. RequestsSound'
  <2> SUFFICES ASSUME NEW r \in Requests PROVE RequestSound(r)'
    BY DEF RequestsSound
  <2>1. Waits(r)' => Waits(r)
    BY DEF Waits
  <2>2. Same(base_io, base_io', r) /\ Same(image_io, image_io', r)
    BY DEF Same
  <2> QED BY <2>1, <2>2, QuietRequest, BackgroundCore DEF LInv, LTypeOK, RequestsSound
<1> QED BY <1>2, <1>3, <1>4, BackgroundCore DEF LInv, BackgroundStep

-----------------------------------------------------------------------------
(* The steps of the worker that call the fetcher.                          *)

\* The fetcher forgets no stripe that is done.
FetchedEntriesKept ==
    \A s \in DOMAIN stripe_states : stripe_states[s] = "Fetched" =>
        s \in DOMAIN stripe_states' /\ stripe_states'[s] = "Fetched"

LEMMA FetcherStep ==
    ASSUME LInv, FInv', FetchedEntriesKept,
           UNCHANGED sharedVars \/ \E t : FailsUnfetched(t),
           UNCHANGED <<flusherVars, meta_io>>, MediaUnchanged
    PROVE  BackgroundStep
<1> USE DEF LInv
<1>1. MFInv'
  BY FailedStepInv DEF MediaUnchanged, metaDevVars
<1>2. DiskTypeOK'
  BY DEF DiskTypeOK, MediaUnchanged, diskVars, LTypeOK, ChannelTypeOK
<1>3. MarksKept
  BY DEF MarksKept, MarksSecured, MediaUnchanged, flusherVars
<1>4. ASSUME NEW s \in Stripes PROVE KeepsStripe(s)
  <2>1. SharedTypeOK
    BY DEF FInv, FTypeOK
  <2>2. stripe_fetched_if_needed(s)' <=> stripe_fetched_if_needed(s)
    <3>1. CASE UNCHANGED sharedVars
      BY <3>1 DEF sharedVars, stripe_fetched_if_needed
    <3>2. ASSUME NEW t, FailsUnfetched(t)
          PROVE  stripe_fetched_if_needed(s)' <=> stripe_fetched_if_needed(s)
      BY <2>1, <3>2 DEF FailsUnfetched, SetStripeFailed, SharedTypeOK, stripe_fetched_if_needed,
                        Failed, Fetched, NoSource
    <3> QED BY <3>1, <3>2
  <2>3. UNCHANGED stripe_write_states
    BY DEF sharedVars, FailsUnfetched, SetStripeFailed
  <2> QED BY <2>2, <2>3 DEF KeepsStripe, Secured, FetchedEntriesKept, stripe_written
<1>5. ASSUME NEW s \in Stripes PROVE DiskStep(s) /\ CacheKept(s)
  BY DEF DiskStep, CacheKept, MediaUnchanged, diskVars
<1> QED BY <1>1, <1>2, <1>3, <1>4, <1>5 DEF BackgroundStep

LEMMA RequestKeepsEntries ==
    ASSUME NEW s, HandleFetchRequest(s)
    PROVE  FetchedEntriesKept
BY DEF HandleFetchRequest, SkipsFetch, With, FetchedEntriesKept

LEMMA FailedKeepsEntries ==
    ASSUME NEW s, NEW queue, NEW held, FetchFailed(s, queue, held),
           stripe_states[s] # "Fetched"
    PROVE  FetchedEntriesKept
BY DEF FetchFailed, With, Without, FetchedEntriesKept

LEMMA StartKeepsEntries ==
    ASSUME FInv, NEW accepted \in BOOLEAN, StartFetch(accepted)
    PROVE  FetchedEntriesKept
<1>1. PICK s : s = Head(fetch_queue)
  OBVIOUS
<1>2. GlobalInv /\ fetch_queue # <<>>
  BY FInvSplit DEF StartFetch
<1>3. s \in QueuedStripes
  BY <1>1, <1>2, QueueTail DEF GlobalInv
<1>4. stripe_states[s] = "Queued"
  BY <1>3 DEF QueuedStripes
<1>5. CASE accepted
  BY <1>1, <1>4, <1>5 DEF StartFetch, With, FetchedEntriesKept
<1>6. CASE ~accepted
  <2>1. FetchFailed(s, Tail(fetch_queue), FALSE)
    BY <1>1, <1>6 DEF StartFetch
  <2> QED BY <1>4, <2>1, FailedKeepsEntries
<1> QED BY <1>5, <1>6

LEMMA PollKeepsEntries ==
    ASSUME FInv, NEW s \in Stripes, NEW submitted \in BOOLEAN,
           PollSource(s, submitted) \/ PollTarget(s, submitted)
    PROVE  FetchedEntriesKept
<1>1. s \in DOMAIN stripe_states /\ stripe_states[s] # "Fetched"
  BY DEF PollSource, PollTarget, FInv, IoMatchesState
<1>2. CASE FetchFailed(s, fetch_queue, TRUE)
  BY <1>1, <1>2, FailedKeepsEntries
<1>3. CASE UNCHANGED stripe_states
  BY <1>3 DEF FetchedEntriesKept
<1>4. CASE \E phase : stripe_states' = With(stripe_states, s, phase)
  BY <1>1, <1>4 DEF With, FetchedEntriesKept
<1> QED BY <1>2, <1>3, <1>4 DEF PollSource, PollTarget, FetchSucceeded

\* A step of the worker that leaves the fetches alone.
FetcherIdle ==
    /\ UNCHANGED <<fetch_queue, autofetch_queue, stripe_states, stripe_fetch_retries,
                   allocated_buffers, fetch_buffers, disconnected, null_source,
                   fetchIoVars, sharedVars, diskVars>>
    /\ finished_fetches' \in {finished_fetches, <<>>}

LEMMA IdleStep ==
    ASSUME LInv, FetcherIdle
    PROVE  /\ FInv' /\ DiskTypeOK'
           /\ \A s \in Stripes : KeepsStripe(s) /\ DiskStep(s) /\ CacheKept(s)
<1> USE DEF FetcherIdle
<1>1. FInv'
  <2>1. \A t \in Stripes : DiskQuietAt(t)
    BY DEF DiskQuietAt, diskVars
  <2>2. /\ autofetch_queue \in Seq(Stripes)
        /\ DOMAIN disk_cache = Stripes /\ DOMAIN disk_durable = Stripes
    BY DEF LInv, FInv, FTypeOK
  <2> QED BY <2>1, <2>2, QuietInv DEF LInv, diskVars
<1>2. DiskTypeOK'
  BY DEF DiskTypeOK, diskVars, LInv, LTypeOK, ChannelTypeOK
<1>3. ASSUME NEW s \in Stripes PROVE KeepsStripe(s)
  BY DEF KeepsStripe, Secured, stripe_fetched_if_needed, stripe_written, sharedVars
<1>4. ASSUME NEW s \in Stripes PROVE DiskStep(s) /\ CacheKept(s)
  BY DEF DiskStep, CacheKept, diskVars
<1> QED BY <1>1, <1>2, <1>3, <1>4

\* The worker hands requests to the flusher.
LEMMA EnqueueStep ==
    ASSUME LInv, FetcherIdle, UNCHANGED metaDevVars,
           NEW requests \in Seq(Request), EnqueueAll(requests),
           \A i \in DOMAIN requests : requests[i].bit = FETCHED =>
               requests[i].stripe_id \in SourceStripes /\ Secured(requests[i].stripe_id)
    PROVE  BackgroundStep
<1>1. MFInv'
  BY EnqueueAllInv DEF LInv, FetcherIdle
<1> DEFINE good == {r \in Request : r.bit = FETCHED => Secured(r.stripe_id)}
<1>2. queued_requests \in Seq(Request)
  BY DEF LInv, MFInv, MFTypeOK
<1>3. /\ \A i \in DOMAIN requests : requests[i] \in good
      /\ \A i \in DOMAIN queued_requests : queued_requests[i] \in good
  BY <1>2, SeqElement DEF LInv, MarksSecured
<1>4. \A i \in DOMAIN queued_requests' : queued_requests'[i] \in good
  <2> HIDE DEF good
  <2>1. requests \in Seq(good) /\ queued_requests \in Seq(good)
    BY <1>2, <1>3, SeqNarrow
  <2>2. queued_requests' \in Seq(good)
    BY <2>1, ConcatProperties DEF EnqueueAll
  <2> QED BY <2>2, SeqElement
<1>5. MarksKept
  BY <1>4 DEF MarksKept, LInv, MarksSecured, EnqueueAll, metaDevVars
<1> QED BY <1>1, <1>5, IdleStep DEF BackgroundStep

\* The worker moves on in its loop.
LEMMA PcStep ==
    ASSUME LInv, FetcherIdle, UNCHANGED <<flusherVars, metaDevVars>>
    PROVE  BackgroundStep
<1>1. MFInv'
  BY StutterInv DEF LInv, FetcherIdle, mfVars
<1>2. MarksKept
  BY DEF MarksKept, LInv, MarksSecured, flusherVars, metaDevVars
<1> QED BY <1>1, <1>2, IdleStep DEF BackgroundStep

\* The worker takes a request from its channel.
LEMMA ProcessRequestStep ==
    ASSUME LInv, ProcessRequest
    PROVE  BackgroundStep /\ BgTypeOK'
<1>1. bgworker_ch \in Seq(BgWorkerRequest) /\ bgworker_ch # <<>>
  BY DEF LInv, LTypeOK, BgTypeOK, ProcessRequest
<1>2. Head(bgworker_ch) \in BgWorkerRequest /\ Tail(bgworker_ch) \in Seq(BgWorkerRequest)
  BY <1>1, HeadTailProperties
<1>3. BgTypeOK'
  BY <1>2 DEF ProcessRequest, BgTypeOK, LInv, LTypeOK, WorkerPc, flusherVars, fetcherVars
<1>4. PICK m \in BgWorkerRequest : m = Head(bgworker_ch)
  BY <1>2
<1>5. PICK s \in Stripes : s = m.stripe_id
  BY <1>4 DEF BgWorkerRequest
<1>6. autofetch_queue \in Seq(Stripes)
  BY DEF LInv, FInv, FTypeOK
<1>7. CASE m.kind = "Fetch"
  <2>1. /\ HandleFetchRequest(s) /\ UNCHANGED <<autofetch_queue, flusherVars, meta_io>>
        /\ MediaUnchanged
    BY <1>4, <1>5, <1>7 DEF ProcessRequest
  <2>2. FInv'
    BY <1>6, <2>1, HandleFetchRequestInv DEF LInv, MediaUnchanged
  <2>3. UNCHANGED sharedVars
    BY <2>1 DEF HandleFetchRequest
  <2> QED BY <1>3, <2>1, <2>2, <2>3, RequestKeepsEntries, FetcherStep
<1>8. CASE m.kind = "SetWritten"
  <2>1. /\ SetStripeWritten(s) /\ UNCHANGED <<fetcherVars, fetchIoVars, sharedVars, meta_io>>
        /\ MediaUnchanged
    BY <1>4, <1>5, <1>8 DEF ProcessRequest
  <2> DEFINE requests == <<[stripe_id |-> s, bit |-> WRITTEN]>>
  <2>2. requests \in Seq(Request) /\ \A i \in DOMAIN requests : requests[i].bit # FETCHED
    BY FlagsDistinct DEF Request
  <2>3. EnqueueAll(requests)
    BY <2>1 DEF SetStripeWritten
  <2> HIDE DEF requests
  <2>4. FetcherIdle /\ UNCHANGED metaDevVars
    BY <2>1 DEF FetcherIdle, fetcherVars, MediaUnchanged, metaDevVars
  <2> QED BY <1>3, <2>2, <2>3, <2>4, EnqueueStep
<1>9. CASE m.kind = "Shutdown"
  <2>1. /\ UNCHANGED <<fetcherVars, fetchIoVars, sharedVars, flusherVars, meta_io>>
        /\ MediaUnchanged
    BY <1>4, <1>9 DEF ProcessRequest
  <2>2. FetcherIdle /\ UNCHANGED metaDevVars
    BY <2>1 DEF FetcherIdle, fetcherVars, MediaUnchanged, metaDevVars
  <2> QED BY <1>3, <2>1, <2>2, PcStep
<1> QED BY <1>4, <1>7, <1>8, <1>9 DEF BgWorkerRequest

\* The flusher's queue grows by the results of the fetches that succeeded.
LEMMA TakeFinishedStep ==
    ASSUME LInv, TakeFinishedFetches
    PROVE  BackgroundStep
<1>1. PICK order \in Ascending(Successes) : EnqueueAll(FetchedRequests(order))
  BY DEF TakeFinishedFetches
<1> DEFINE Finished == [stripe_id : Stripes, success : BOOLEAN]
           requests == FetchedRequests(order)
<1>2. finished_fetches \in Seq(Finished)
  BY DEF LInv, FInv, FTypeOK
<1>3. IsFiniteSet(Successes)
  <2>1. DOMAIN finished_fetches = 1 .. Len(finished_fetches) /\ Len(finished_fetches) \in Nat
    <3> HIDE DEF Finished
    <3> QED BY <1>2, LenProperties
  <2>2. IsFiniteSet(DOMAIN finished_fetches)
    BY <2>1, FS_Interval
  <2> QED BY <2>2, FS_Subset DEF Successes
<1>4. order \in Seq(Successes)
  BY <1>3, AscendingType
<1>5. ASSUME NEW i \in DOMAIN order
      PROVE  /\ requests[i] \in Request
             /\ requests[i].stripe_id \in SourceStripes /\ Secured(requests[i].stripe_id)
  <2>1. PICK j : j = order[i] /\ j \in Successes
    BY <1>4, SeqElement
  <2>2. j \in DOMAIN finished_fetches /\ finished_fetches[j].success
    BY <2>1 DEF Successes
  <2>3. finished_fetches[j] \in Finished
    <3> HIDE DEF Finished
    <3> QED BY <1>2, <2>2, SeqElement
  <2>4. PICK s \in Stripes : s = finished_fetches[j].stripe_id
    BY <2>3
  <2>5. s \in DOMAIN stripe_states /\ stripe_states[s] = "Fetched" /\ s \in SourceStripes
    BY <2>2, <2>4 DEF LInv, FInv, FinishedMatchesState, TrackedUnfetched
  <2>6. requests[i] = [stripe_id |-> s, bit |-> FETCHED]
    BY <2>1, <2>4 DEF FetchedRequests
  <2> QED BY <2>5, <2>6 DEF Request, Secured
<1>6. DOMAIN requests = DOMAIN order
  BY DEF FetchedRequests
<1>7. requests \in Seq(Request)
  <2>1. DOMAIN order = 1 .. Len(order) /\ Len(order) \in Nat
    BY <1>4, LenProperties
  <2>2. requests \in [1 .. Len(order) -> Request]
    BY <1>5, <2>1 DEF FetchedRequests
  <2> HIDE DEF requests
  <2> QED BY <2>1, <2>2, SeqDef
<1>8. FetcherIdle /\ UNCHANGED metaDevVars
  BY DEF TakeFinishedFetches, FetcherIdle, MediaUnchanged, metaDevVars, allIoVars
<1> HIDE DEF requests
<1> QED BY <1>1, <1>5, <1>6, <1>7, <1>8, EnqueueStep DEF requests

\* receive_requests finds the channel empty; the loops of the fetcher end.
LEMMA LoopStep ==
    ASSUME LInv, ReceiveDone \/ FetcherLoopDone
    PROVE  BackgroundStep
<1>1. FetcherIdle /\ UNCHANGED <<flusherVars, metaDevVars>>
  BY DEF ReceiveDone, FetcherLoopDone, FetcherIdle, fetcherVars, MediaUnchanged, metaDevVars,
         allIoVars
<1> QED BY <1>1, PcStep

LEMMA AutofetchUpdateStep ==
    ASSUME LInv, AutofetchStep
    PROVE  BackgroundStep
<1>1. MediaUnchanged /\ UNCHANGED <<flusherVars, meta_io>>
  BY DEF AutofetchStep
<1>2. CASE UpdateAutofetch
  <2>1. FInv'
    BY <1>1, <1>2, UpdateAutofetchInv DEF LInv, MediaUnchanged
  <2>2. FetchedEntriesKept /\ UNCHANGED sharedVars
    BY <1>2, RequestKeepsEntries DEF UpdateAutofetch, HandleFetchRequest
  <2> QED BY <1>1, <2>1, <2>2, FetcherStep
<1>3. CASE UNCHANGED <<fetcherVars, fetchIoVars, sharedVars>>
  <2>1. FetcherIdle /\ UNCHANGED <<flusherVars, metaDevVars>>
    BY <1>1, <1>3 DEF FetcherIdle, fetcherVars, MediaUnchanged, metaDevVars
  <2> QED BY <2>1, PcStep
<1> QED BY <1>2, <1>3 DEF AutofetchStep

LEMMA DisconnectUpdateStep ==
    ASSUME LInv, DisconnectStep
    PROVE  BackgroundStep
<1>1. MediaUnchanged /\ UNCHANGED <<flusherVars, meta_io>>
  BY DEF DisconnectStep
<1>2. CASE DisconnectFromSource
  <2>1. FInv'
    BY <1>1, <1>2, DisconnectFromSourceInv DEF LInv, MediaUnchanged
  <2>2. FetchedEntriesKept /\ UNCHANGED sharedVars
    BY <1>2 DEF DisconnectFromSource, FetchedEntriesKept
  <2> QED BY <1>1, <2>1, <2>2, FetcherStep
<1>3. CASE UNCHANGED <<fetcherVars, fetchIoVars, sharedVars>>
  <2>1. FetcherIdle /\ UNCHANGED <<flusherVars, metaDevVars>>
    BY <1>1, <1>3 DEF FetcherIdle, fetcherVars, MediaUnchanged, metaDevVars
  <2> QED BY <2>1, PcStep
<1> QED BY <1>2, <1>3 DEF DisconnectStep

\* start_fetches and the two polls of the fetcher.
LEMMA FetchUpdateStep ==
    ASSUME LInv, NEW ok \in BOOLEAN,
           \/ StartFetchStep(ok)
           \/ \E s \in Stripes : PollSourceStep(s, ok) \/ PollTargetStep(s, ok)
    PROVE  BackgroundStep
<1>1. MediaUnchanged /\ UNCHANGED <<flusherVars, meta_io>> /\ UNCHANGED diskVars
  BY DEF StartFetchStep, PollSourceStep, PollTargetStep, MediaUnchanged
<1>2. CASE StartFetchStep(ok)
  <2>1. StartFetch(ok)
    BY <1>2 DEF StartFetchStep
  <2> QED BY <1>1, <2>1, StartFetchInv, StartFetchShared, StartKeepsEntries, FetcherStep DEF LInv
<1>3. ASSUME NEW s \in Stripes, PollSourceStep(s, ok) \/ PollTargetStep(s, ok)
      PROVE  BackgroundStep
  <2>1. PollSource(s, ok) \/ PollTarget(s, ok)
    BY <1>3 DEF PollSourceStep, PollTargetStep
  <2>2. FInv'
    BY <1>1, <2>1, PollSourceInv, PollTargetInv DEF LInv
  <2> QED BY <1>1, <2>1, <2>2, PollSharedOnly, PollKeepsEntries, FetcherStep DEF LInv
<1> QED BY <1>2, <1>3

-----------------------------------------------------------------------------
(* The steps of the worker that call the flusher, and the metadata device. *)

\* Requests taken off the queue leave only marks that were there.
LEMMA PopKeepsMarks ==
    ASSUME LInv, NEW n \in 0 .. Len(queued_requests), PopRequests(n)
    PROVE  \A i \in DOMAIN queued_requests' :
              queued_requests'[i].bit = FETCHED => Secured(queued_requests'[i].stripe_id)
<1>1. queued_requests \in Seq(Request)
  BY DEF LInv, MFInv, MFTypeOK
<1>2. \A i \in DOMAIN queued_requests' :
        n + i \in DOMAIN queued_requests /\ queued_requests'[i] = queued_requests[n + i]
  BY <1>1, DropFirst DEF PopRequests
<1> QED BY <1>2 DEF LInv, MarksSecured

LEMMA StartWritesUpdateStep ==
    ASSUME LInv, NEW submitted \in BOOLEAN, StartWritesStep(submitted)
    PROVE  BackgroundStep
<1>1. PICK n \in 0 .. Len(queued_requests) : StartWrites(n) \/ StartWritesSubmitFails(n)
  BY DEF StartWritesStep
<1>2. FetcherIdle
  BY <1>1 DEF StartWritesStep, StartWrites, StartWritesSubmitFails, FetcherIdle, fetcherVars
<1>3. MFInv'
  BY <1>1, StartWritesInv, StartWritesSubmitFailsInv DEF LInv
<1>4. PopRequests(n) /\ StopsAfter(n) /\ UNCHANGED <<meta_cache, meta_durable>>
  BY <1>1 DEF StartWrites, StartWritesSubmitFails, metaDevVars
<1>5. ASSUME NEW s \in Stripes, FETCHED \in headers'[s] PROVE Secured(s)
  <2>1. CASE FETCHED \in headers[s]
    BY <2>1 DEF LInv, MarksSecured
  <2>2. CASE FETCHED \notin headers[s]
    <3>1. headers' = HeadersAfterStart(n)
      BY <1>1, <1>5, <2>2 DEF StartWrites, StartWritesSubmitFails
    <3>2. s \in StartedStripes(n) /\ StartedBit(n, s) = FETCHED
      BY <1>5, <2>2, <3>1 DEF HeadersAfterStart
    <3>3. PICK i : i = StartedRequest(n, s)
      OBVIOUS
    <3>4. i \in Started(n) /\ queued_requests[i].stripe_id = s
      BY <3>2, <3>3 DEF StartedStripes, StartedRequest
    <3>5. i \in DOMAIN queued_requests
      <4>1. queued_requests \in Seq(Request)
        BY DEF LInv, MFInv, MFTypeOK
      <4> QED BY <3>4, <4>1, LenProperties DEF Started
    <3>6. queued_requests[i].bit = FETCHED
      BY <3>2, <3>3 DEF StartedBit
    <3> QED BY <3>4, <3>5, <3>6 DEF LInv, MarksSecured
  <2> QED BY <2>1, <2>2
<1>6. MarksKept
  BY <1>4, <1>5, PopKeepsMarks DEF MarksKept, LInv, MarksSecured
<1> QED BY <1>2, <1>3, <1>6, IdleStep DEF BackgroundStep

\* poll_channel publishes the stripes whose update is flushed: those with FETCHED
\* are done.
LEMMA PollChannelUpdateStep ==
    ASSUME LInv, NEW submitted \in BOOLEAN, PollChannelStep(submitted)
    PROVE  BackgroundStep
<1> DEFINE SF == Succeeded(Flushing)
           header == [s \in SF |-> header_updates[s].header]
<1>1. /\ PollChannel(submitted) /\ SetStripeHeaders(SF, header)
      /\ UNCHANGED <<fetcherVars, fetchIoVars, diskVars>>
  BY DEF PollChannelStep, PollChannel
<1>2. MFInv'
  BY <1>1, PollChannelInv DEF LInv
<1>3. SF \in SUBSET Stripes
  BY DEF Succeeded, LInv, MFInv, MFTypeOK
<1>4. ASSUME NEW s \in SF, FETCHED \in header[s]
      PROVE  s \in SourceStripes /\ Secured(s)
  <2>1. s \in DOMAIN header_updates /\ s \in Stripes
    BY <1>3 DEF Succeeded
  <2>2. header[s] = headers[s]
    BY <2>1 DEF LInv, MFInv, UpdatesSound, UpdateSound
  <2> QED BY <1>4, <2>1, <2>2 DEF LInv, MFInv, SourceFlagsKept, MarksSecured
<1> HIDE DEF SF, header
<1>5. FInv'
  <2>1. \A s \in SF : FETCHED \in header[s]
            => s \in SourceStripes /\ (stripe_fetched_if_needed(s) \/ Unpublished(s))
    BY <1>4 DEF Secured, Unpublished
  <2> QED BY <1>1, <1>3, <2>1, PublishInv DEF LInv
<1>6. DiskTypeOK'
  BY <1>1 DEF DiskTypeOK, diskVars, LInv, LTypeOK, ChannelTypeOK
<1>7. ASSUME NEW s \in Stripes PROVE KeepsStripe(s)
  <2>1. /\ stripe_fetched_if_needed(s)' <=>
             stripe_fetched_if_needed(s) \/ (s \in SF /\ FETCHED \in header[s])
        /\ stripe_written(s) => stripe_written(s)'
    BY <1>1 DEF SetStripeHeaders, stripe_fetched_if_needed, stripe_written
  <2>2. UNCHANGED stripe_states
    BY <1>1 DEF fetcherVars
  <2> QED BY <1>4, <2>1, <2>2 DEF KeepsStripe, Secured
<1>8. ASSUME NEW s \in Stripes PROVE DiskStep(s) /\ CacheKept(s)
  BY <1>1 DEF DiskStep, CacheKept, diskVars
<1>9. MarksKept
  <2>1. \A s \in Stripes : headers'[s] \subseteq headers[s]
    BY <1>1 DEF PollChannel, RevertedHeaders
  <2> QED BY <1>1, <2>1 DEF MarksKept, LInv, MarksSecured, PollChannel
<1> QED BY <1>2, <1>5, <1>6, <1>7, <1>8, <1>9 DEF BackgroundStep

\* What reaches the metadata device was in a copy of the headers before.
LEMMA MetaDeviceStep ==
    ASSUME LInv, NEW s \in Stripes, MetaStep(s)
    PROVE  BackgroundStep
<1>1. PICK result \in {"ok", "err"} : MetaIoDone(s, result)
  BY DEF MetaStep
<1>2. FetcherIdle
  BY <1>1 DEF MetaStep, MetaIoDone, FetcherIdle, fetcherVars
<1>3. MFInv'
  BY <1>1, MetaIoDoneInv DEF LInv
<1>4. ASSUME NEW t \in Stripes
      PROVE  /\ meta_cache'[t] \in {meta_cache[t], headers[t]}
             /\ meta_durable'[t] \in {meta_durable[t], meta_cache[t]}
  <2>1. s \in DOMAIN header_updates
    BY <1>1 DEF MetaIoDone, LInv, MFInv, MFTypeOK
  <2>2. SectorOf(t) = header_updates[s].sector => header_updates[s].buffer[t] = headers[t]
    BY <2>1 DEF LInv, MFInv, UpdatesSound, UpdateSound
  <2> QED BY <1>1, <2>2 DEF MetaIoDone, SectorWritten
<1>5. UNCHANGED <<headers, queued_requests>>
  BY <1>1 DEF MetaIoDone, flusherVars
<1>6. MarksKept
  BY <1>4, <1>5 DEF MarksKept, LInv, MarksSecured
<1> QED BY <1>2, <1>3, <1>6, IdleStep DEF BackgroundStep

-----------------------------------------------------------------------------
(* The stripe source and the base device, as the worker uses them.         *)

LEMMA SourceDeviceStep ==
    ASSUME LInv, NEW s \in Stripes, SourceStep(s)
    PROVE  BackgroundStep
<1>1. PICK result \in {"ok", "err"} : SourceIoDone(s, result)
  BY DEF SourceStep
<1>2. FInv'
  BY <1>1, SourceIoDoneInv DEF LInv
<1>3. /\ UNCHANGED <<flusherVars, meta_io>> /\ MediaUnchanged
      /\ UNCHANGED sharedVars /\ FetchedEntriesKept
  BY <1>1 DEF SourceStep, SourceIoDone, MediaUnchanged, FetchedEntriesKept
<1> QED BY <1>2, <1>3, FetcherStep

LEMMA TargetDeviceStep ==
    ASSUME LInv, NEW s \in Stripes, TargetStep(s)
    PROVE  BackgroundStep
<1>1. PICK result \in {"ok", "err"} : TargetIoDone(s, result)
  BY DEF TargetStep
<1>2. FInv'
  BY <1>1, TargetIoDoneInv DEF LInv
<1>3. UNCHANGED <<flusherVars, metaDevVars, sharedVars, stripe_states>>
  BY <1>1 DEF TargetStep, TargetIoDone, metaDevVars, fetcherVars
<1>4. MFInv'
  BY <1>3, StutterInv DEF LInv, mfVars
<1>5. MarksKept
  BY <1>3 DEF MarksKept, LInv, MarksSecured, flusherVars, metaDevVars
<1>6. \A t \in Stripes : KeepsStripe(t)
  BY <1>3 DEF KeepsStripe, Secured, stripe_fetched_if_needed, stripe_written, sharedVars
<1>7. /\ disk_cache \in [Stripes -> Datum] /\ disk_durable \in [Stripes -> Datum]
      /\ SourceData \in Datum
  BY DEF LInv, LTypeOK, ChannelTypeOK, Datum
<1>8. target_io[s].op = "write" => allocated_buffers[s] = SourceData
  BY <1>1 DEF TargetIoDone, LInv, FInv, FetchDataSound
<1>9. DiskTypeOK'
  BY <1>1, <1>7, <1>8 DEF DiskTypeOK, TargetIoDone, diskVars
<1>10. ASSUME NEW t \in Stripes PROVE DiskStep(t) /\ CacheKept(t)
  <2>1. disk_cache'[t] = disk_cache[t] \/ (~stripe_fetched_if_needed(t) /\ disk_cache'[t] = SourceData)
    BY <1>1, TargetWritesUnfetched DEF LInv
  <2>2. disk_durable'[t] \in {disk_durable[t], disk_cache[t]}
    BY <1>1 DEF TargetIoDone, diskVars
  <2> QED BY <2>1, <2>2, NotFetchedHasSource DEF DiskStep, CacheKept, Copied, LInv
<1> QED BY <1>2, <1>4, <1>5, <1>6, <1>9, <1>10 DEF BackgroundStep

\* A device writes back from its cache.
LEMMA WriteBackDeviceStep ==
    ASSUME LInv, WriteBackStep
    PROVE  BackgroundStep
<1>1. ASSUME NEW s \in Stripes, DiskWriteBack(s),
             UNCHANGED <<flusherVars, meta_io, meta_cache, meta_durable>>
      PROVE  BackgroundStep
  <2>1. FInv'
    BY <1>1, DiskWriteBackInv DEF LInv
  <2>2. UNCHANGED <<flusherVars, metaDevVars, sharedVars, stripe_states, disk_cache>>
    BY <1>1 DEF DiskWriteBack, metaDevVars, fetcherVars
  <2>3. MFInv'
    BY <2>2, StutterInv DEF LInv, mfVars
  <2>4. MarksKept
    BY <2>2 DEF MarksKept, LInv, MarksSecured, flusherVars, metaDevVars
  <2>5. \A t \in Stripes : KeepsStripe(t)
    BY <2>2 DEF KeepsStripe, Secured, stripe_fetched_if_needed, stripe_written, sharedVars
  <2>6. DiskTypeOK /\ DOMAIN disk_durable = Stripes
    BY DEF DiskTypeOK, LInv, LTypeOK, ChannelTypeOK
  <2>7. DiskTypeOK'
    BY <1>1, <2>6 DEF DiskTypeOK, DiskWriteBack
  <2>8. \A t \in Stripes : DiskStep(t) /\ CacheKept(t)
    BY <1>1, <2>2, <2>6 DEF DiskStep, CacheKept, DiskWriteBack
  <2> QED BY <2>1, <2>3, <2>4, <2>5, <2>7, <2>8 DEF BackgroundStep
<1>2. ASSUME NEW sector \in Sectors, MetaWriteBack(sector),
             UNCHANGED <<fetcherVars, fetchIoVars, diskVars>>
      PROVE  BackgroundStep
  <2>1. FetcherIdle
    BY <1>2 DEF MetaWriteBack, FetcherIdle, fetcherVars
  <2>2. MFInv'
    BY <1>2, MetaWriteBackInv DEF LInv
  <2>3. \A t \in Stripes : meta_durable'[t] \in {meta_durable[t], meta_cache[t]}
    BY <1>2 DEF MetaWriteBack
  <2>4. MarksKept
    BY <1>2, <2>3 DEF MarksKept, LInv, MarksSecured, MetaWriteBack, flusherVars
  <2> QED BY <2>1, <2>2, <2>4, IdleStep DEF BackgroundStep
<1> QED BY <1>1, <1>2 DEF WriteBackStep

-----------------------------------------------------------------------------
(* LInv through the steps of the worker and of the devices.                *)

LEMMA FaultBudget ==
    ASSUME LInv, NEW wrong \in BOOLEAN, Faulty(wrong) \/ NoFault
    PROVE  faults' \in 0 .. MaxFaults /\ power_losses' \in 0 .. MaxPowerLosses
BY DeviceAssumption DEF LInv, LTypeOK, Faulty, NoFault, boundVars

LEMMA GoToType ==
    ASSUME LInv, NEW from, NEW to \in WorkerPc, GoTo(from, to)
    PROVE  BgTypeOK'
BY DEF LInv, LTypeOK, BgTypeOK, GoTo

LEMMA WorkerStepInv ==
    ASSUME LInv, WorkerStep
    PROVE  LInv'
<1>1. UNCHANGED allGuest
  BY DEF WorkerStep
<1>2. CASE NoFault /\ ProcessRequest
  <2>1. faults' \in 0 .. MaxFaults /\ power_losses' \in 0 .. MaxPowerLosses
    BY <1>2, FaultBudget
  <2> QED BY <1>1, <1>2, <2>1, ProcessRequestStep, BackgroundInv
<1>3. CASE NoFault /\ (ReceiveDone \/ AutofetchStep \/ FetcherLoopDone
                        \/ TakeFinishedFetches \/ DisconnectStep)
  <2>1. faults' \in 0 .. MaxFaults /\ power_losses' \in 0 .. MaxPowerLosses
    BY <1>3, FaultBudget
  <2>2. BgTypeOK'
    <3>1. CASE ReceiveDone
      BY <3>1 DEF ReceiveDone, LInv, LTypeOK, BgTypeOK, WorkerPc
    <3>2. PICK from, to \in WorkerPc : GoTo(from, to) \/ ReceiveDone
      BY <1>3 DEF AutofetchStep, FetcherLoopDone, TakeFinishedFetches, DisconnectStep, WorkerPc
    <3> QED BY <3>1, <3>2, GoToType
  <2>3. BackgroundStep
    BY <1>3, LoopStep, AutofetchUpdateStep, TakeFinishedStep, DisconnectUpdateStep
  <2> QED BY <1>1, <2>1, <2>2, <2>3, BackgroundInv
<1>4. ASSUME NEW ok \in BOOLEAN, Faulty(~ok),
             \/ StartFetchStep(ok) \/ StartWritesStep(ok) \/ PollChannelStep(ok)
             \/ \E s \in Stripes : PollSourceStep(s, ok) \/ PollTargetStep(s, ok)
      PROVE  LInv'
  <2>1. faults' \in 0 .. MaxFaults /\ power_losses' \in 0 .. MaxPowerLosses
    BY <1>4, FaultBudget
  <2>2. BgTypeOK'
    <3>1. PICK from, to \in WorkerPc : GoTo(from, to)
      BY <1>4 DEF StartFetchStep, StartWritesStep, PollChannelStep, PollSourceStep,
                  PollTargetStep, WorkerPc
    <3> QED BY <3>1, GoToType
  <2>3. BackgroundStep
    BY <1>4, FetchUpdateStep, StartWritesUpdateStep, PollChannelUpdateStep
  <2> QED BY <1>1, <2>1, <2>2, <2>3, BackgroundInv
<1> QED BY <1>2, <1>3, <1>4 DEF WorkerStep

LEMMA StopWorkerInv ==
    ASSUME LInv, StopWorker
    PROVE  LInv'
<1>1. faults' \in 0 .. MaxFaults /\ power_losses' \in 0 .. MaxPowerLosses
  BY FaultBudget DEF StopWorker
<1>2. BgTypeOK'
  <2>1. Shutdown \in BgWorkerRequest
    BY StripeAssumption DEF Shutdown, BgWorkerRequest, Stripes
  <2>2. bgworker_ch \in Seq(BgWorkerRequest)
    BY DEF LInv, LTypeOK, BgTypeOK
  <2>3. bgworker_ch' \in Seq(BgWorkerRequest)
    BY <2>1, <2>2, AppendProperties DEF StopWorker
  <2> QED BY <2>3 DEF StopWorker, LInv, LTypeOK, BgTypeOK
<1>3. FetcherIdle /\ UNCHANGED <<flusherVars, metaDevVars>> /\ UNCHANGED allGuest
  BY DEF StopWorker, FetcherIdle, fetcherVars, metaDevVars, allIoVars, mediaVars
<1> QED BY <1>1, <1>2, <1>3, PcStep, BackgroundInv

LEMMA DeviceStepInv ==
    ASSUME LInv, NEW s \in Stripes,
           SourceStep(s) \/ TargetStep(s) \/ MetaStep(s) \/ WriteBackStep
    PROVE  LInv'
<1>1. faults' \in 0 .. MaxFaults /\ power_losses' \in 0 .. MaxPowerLosses
  BY FaultBudget DEF SourceStep, TargetStep, MetaStep, WriteBackStep
<1>2. UNCHANGED allGuest /\ UNCHANGED bgVars
  BY DEF SourceStep, TargetStep, MetaStep, WriteBackStep
<1>3. BgTypeOK'
  BY <1>2 DEF bgVars, LInv, LTypeOK, BgTypeOK
<1>4. BackgroundStep
  BY SourceDeviceStep, TargetDeviceStep, MetaDeviceStep, WriteBackDeviceStep
<1> QED BY <1>1, <1>2, <1>3, <1>4, BackgroundInv

-----------------------------------------------------------------------------
(* The I/O threads: a request is issued.                                   *)

\* request_stripes_fetch_status.
LEMMA CompleteMeansFetched ==
    ASSUME NEW S, FetchStatus(S) = "Complete"
    PROVE  \A s \in S : stripe_fetched_if_needed(s)
BY DEF FetchStatus, NotReady

LEMMA PendingMeansUnfetched ==
    ASSUME NEW s, FetchStatus({s}) = "Pending"
    PROVE  ~stripe_fetched_if_needed(s)
<1>1. CASE NotReady({s}) = {}
  BY <1>1 DEF FetchStatus
<1>2. CASE NotReady({s}) # {}
  BY <1>2 DEF NotReady
<1> QED BY <1>1, <1>2

\* What Open does to the requests.
LEMMA OpenFacts ==
    ASSUME LInv, NEW c \in Channels, NEW r \in Requests, NEW kind \in {In, Out, Flush},
           NEW first \in Stripes, NEW last \in Stripes, Open(c, r, kind, first, last)
    PROVE  /\ req' \in [Requests -> RequestState] /\ owner' \in [Requests -> Channels]
           /\ \A q \in Requests \ {r} : req'[q] = req[q] /\ owner'[q] = owner[q]
           /\ owner'[r] = c
           /\ req'[r].st = "open" /\ req'[r].kind = kind /\ req'[r].done = req[r].done
           /\ req'[r].first = first /\ req'[r].last = last
           /\ kind = In => \A s \in first .. last : req'[r].seen[s] = {Content(s)}
<1>1. ChannelTypeOK
  BY DEF LInv, LTypeOK
<1>2. req \in [Requests -> RequestState] /\ owner \in [Requests -> Channels]
  BY <1>1 DEF ChannelTypeOK
<1>3. \A s \in Stripes : Content(s) \in Datum
  BY <1>1 DEF ChannelTypeOK, Content, Datum
<1>4. first .. last \subseteq Stripes
  BY StripeAssumption DEF Stripes
<1> DEFINE seen == [s \in Stripes |-> IF kind = In /\ s \in first .. last
                                      THEN {Content(s)} ELSE {}]
<1>5. seen \in [Stripes -> SUBSET Datum] /\ \A s \in first .. last : kind = In => seen[s] = {Content(s)}
  BY <1>3, <1>4
<1>6. req' = [req EXCEPT ![r].st = "open", ![r].kind = kind, ![r].first = first,
                         ![r].last = last, ![r].seen = seen]
  BY DEF Open
<1> HIDE DEF seen
<1>7. /\ req' \in [Requests -> RequestState]
      /\ \A q \in Requests \ {r} : req'[q] = req[q]
      /\ req'[r].st = "open" /\ req'[r].kind = kind /\ req'[r].done = req[r].done
      /\ req'[r].first = first /\ req'[r].last = last
      /\ req'[r].seen = seen
  <2>1. PICK rec \in RequestState : rec = req[r]
    BY <1>2
  <2>2. PICK new : new = [rec EXCEPT !.st = "open", !.kind = kind, !.first = first,
                                     !.last = last, !.seen = seen]
    OBVIOUS
  <2>3. /\ new.st = "open" /\ new.kind = kind /\ new.first = first /\ new.last = last
        /\ new.done = rec.done /\ new.seen = seen
    BY <2>2 DEF RequestState
  <2>4. new \in RequestState
    BY <1>5, <2>2 DEF RequestState
  <2>5. req' = [req EXCEPT ![r] = new]
    BY <1>2, <1>6, <2>1, <2>2
  <2> QED BY <1>2, <2>1, <2>3, <2>4, <2>5
<1> QED BY <1>2, <1>5, <1>7 DEF Open

\* The four places a new request may go to.
Starts(c, r) ==
    /\ ToBase(r)
    /\ req'[r].kind # Flush =>
          \A s \in req'[r].first .. req'[r].last : stripe_fetched_if_needed(s)
    /\ TrackWritten /\ req'[r].kind = Out =>
          \A s \in req'[r].first .. req'[r].last : stripe_written(s)
ReadsImage(c, r) ==
    /\ ToImage(r)
    /\ req'[r].kind = In
    /\ \A s \in req'[r].first .. req'[r].last : ~stripe_fetched_if_needed(s)
Queues(c, r) ==
    /\ queued_rw_requests' = [queued_rw_requests EXCEPT ![c] = Append(@, r)]
    /\ stripe_fetches_requested' \in [Channels -> SUBSET Stripes]
    /\ bgworker_ch' \in Seq(BgWorkerRequest)
    /\ UNCHANGED <<finished_requests, guestIoVars>>

LEMMA ToQueueFacts ==
    ASSUME LInv, NEW c \in Channels, NEW r \in Requests, NEW kind,
           NEW first \in Stripes, NEW last \in Stripes, ToQueue(c, r, first, last, kind)
    PROVE  Queues(c, r) \/ ToFinished(c, r)
<1> DEFINE fetch == {s \in first .. last : ~stripe_fetched_if_needed(s)}
                        \ stripe_fetches_requested[c]
           written == {s \in first .. last : kind = Out /\ TrackWritten /\ ~stripe_written(s)}
<1>1. first .. last \subseteq Stripes
  BY StripeAssumption DEF Stripes
<1>2. fetch \subseteq Stripes /\ written \subseteq Stripes
  BY <1>1
<1> HIDE DEF fetch, written
<1>3. CASE ToFinished(c, r)
  BY <1>3
<1>4. CASE \E f \in Ascending(fetch), w \in Ascending(written) :
              /\ bgworker_ch' = bgworker_ch \o Each(Fetch, f) \o Each(SetWritten, w)
              /\ stripe_fetches_requested' =
                    [stripe_fetches_requested EXCEPT ![c] = @ \cup fetch]
              /\ queued_rw_requests' = [queued_rw_requests EXCEPT ![c] = Append(@, r)]
              /\ UNCHANGED <<finished_requests, guestIoVars>>
  <2>1. PICK f \in Ascending(fetch), w \in Ascending(written) :
              bgworker_ch' = bgworker_ch \o Each(Fetch, f) \o Each(SetWritten, w)
    BY <1>4
  <2>2. f \in Seq(fetch) /\ w \in Seq(written)
    BY <1>2, StripesFinite, AscendingType
  <2>3. \A i \in DOMAIN f : Fetch(f[i]) \in BgWorkerRequest
    BY <1>2, <2>2, SeqElement DEF Fetch, BgWorkerRequest
  <2>4. \A i \in DOMAIN w : SetWritten(w[i]) \in BgWorkerRequest
    BY <1>2, <2>2, SeqElement DEF SetWritten, BgWorkerRequest
  <2>5. Each(Fetch, f) \in Seq(BgWorkerRequest) /\ Each(SetWritten, w) \in Seq(BgWorkerRequest)
    <3>1. /\ DOMAIN f = 1 .. Len(f) /\ Len(f) \in Nat
          /\ DOMAIN w = 1 .. Len(w) /\ Len(w) \in Nat
      BY <2>2, LenProperties
    <3>2. /\ Each(Fetch, f) \in [1 .. Len(f) -> BgWorkerRequest]
          /\ Each(SetWritten, w) \in [1 .. Len(w) -> BgWorkerRequest]
      BY <2>3, <2>4, <3>1 DEF Each
    <3> QED BY <3>1, <3>2, SeqDef
  <2>6. bgworker_ch \in Seq(BgWorkerRequest)
    BY DEF LInv, LTypeOK, BgTypeOK
  <2>7. bgworker_ch' \in Seq(BgWorkerRequest)
    BY <2>1, <2>5, <2>6, ConcatProperties
  <2>8. stripe_fetches_requested' \in [Channels -> SUBSET Stripes]
    BY <1>2, <1>4 DEF LInv, LTypeOK, ChannelTypeOK
  <2> QED BY <1>4, <2>7, <2>8 DEF Queues
<1> QED BY <1>3, <1>4 DEF ToQueue, fetch, written

LEMMA IssueFacts ==
    ASSUME LInv, NEW c \in Channels, NEW r \in Requests, Issue(c, r)
    PROVE  /\ \E kind \in {In, Out, Flush}, first, last \in Stripes :
                 Open(c, r, kind, first, last)
           /\ Starts(c, r) \/ ReadsImage(c, r) \/ Queues(c, r) \/ ToFinished(c, r)
<1>1. CASE AddFlush(c, r)
  <2>1. Open(c, r, Flush, 0, 0) /\ ToBase(r) /\ 0 \in Stripes
    BY <1>1, StripeAssumption DEF AddFlush, Stripes
  <2>2. req'[r].kind = Flush
    BY <2>1, OpenFacts
  <2> QED BY <2>1, <2>2 DEF Starts, Flush, Out
<1>2. ASSUME NEW first \in Stripes, NEW last \in Stripes, AddRead(c, r, first, last)
      PROVE  /\ Open(c, r, In, first, last)
             /\ Starts(c, r) \/ ReadsImage(c, r) \/ Queues(c, r) \/ ToFinished(c, r)
  <2>1. Open(c, r, In, first, last)
    BY <1>2 DEF AddRead
  <2>2. req'[r].kind = In /\ req'[r].first = first /\ req'[r].last = last
    BY <2>1, OpenFacts
  <2>3. CASE FetchStatus(first .. last) = "Complete" /\ ToBase(r)
    <3>1. \A s \in first .. last : stripe_fetched_if_needed(s)
      BY <2>3, CompleteMeansFetched
    <3> QED BY <2>1, <2>2, <2>3, <3>1 DEF Starts, In, Out
  <2>4. CASE FetchStatus(first .. last) = "Pending" /\ first = last /\ ToImage(r)
    <3>1. first .. last = {first}
      BY <2>4, StripeAssumption DEF Stripes
    <3>2. FetchStatus({first}) = "Pending"
      BY <2>4, <3>1
    <3>3. ~stripe_fetched_if_needed(first)
      BY <3>2, PendingMeansUnfetched
    <3> QED BY <2>1, <2>2, <2>4, <3>1, <3>3 DEF ReadsImage
  <2> QED BY <1>2, <2>1, <2>3, <2>4, ToQueueFacts DEF AddRead
<1>3. ASSUME NEW first \in Stripes, NEW last \in Stripes, AddWrite(c, r, first, last)
      PROVE  /\ Open(c, r, Out, first, last)
             /\ Starts(c, r) \/ ReadsImage(c, r) \/ Queues(c, r) \/ ToFinished(c, r)
  <2>1. Open(c, r, Out, first, last)
    BY <1>3 DEF AddWrite
  <2>2. req'[r].kind = Out /\ req'[r].first = first /\ req'[r].last = last
    BY <2>1, OpenFacts
  <2>3. CASE /\ FetchStatus(first .. last) = "Complete" /\ ToBase(r)
             /\ ~TrackWritten \/ AllWritten(first .. last)
    <3>1. \A s \in first .. last : stripe_fetched_if_needed(s)
      BY <2>3, CompleteMeansFetched
    <3> QED BY <2>1, <2>2, <2>3, <3>1 DEF Starts, AllWritten
  <2> QED BY <1>3, <2>1, <2>3, ToQueueFacts DEF AddWrite
<1> QED BY <1>1, <1>2, <1>3, StripeAssumption DEF Issue, Stripes, AddFlush

\* A step on one request leaves the others where they are.
OthersKept(r) ==
    \A q \in Requests \ {r} :
        /\ req'[q] = req[q]
        /\ Waits(q)' <=> Waits(q)
        /\ Rejected(q)' <=> Rejected(q)
        /\ Same(base_io, base_io', q) /\ Same(image_io, image_io', q)

LEMMA OthersPlaced ==
    ASSUME OnePlace, NEW r \in Requests, OthersKept(r), PlacedOnce(r)',
           \A c \in Channels : OwnRequests(c)'
    PROVE  OnePlace'
<1>1. \A q \in Requests \ {r} : PlacedOnce(q)'
  BY DEF OnePlace, PlacedOnce, OthersKept, Same
<1> QED BY <1>1 DEF OnePlace

LEMMA IssuePlaces ==
    ASSUME LInv, NEW c \in Channels, NEW r \in Requests, Issue(c, r)
    PROVE  OthersKept(r) /\ OnePlace'
<1>1. /\ req[r].st = "new" /\ req'[r].st = "open"
      /\ \A q \in Requests \ {r} : req'[q] = req[q] /\ owner'[q] = owner[q]
      /\ owner'[r] = c
  BY IssueFacts, OpenFacts DEF Issue
<1>2. ~Waits(r) /\ ~Rejected(r) /\ r \notin DOMAIN base_io /\ r \notin DOMAIN image_io
  BY <1>1 DEF LInv, OnePlace, PlacedOnce
<1>3. /\ DOMAIN queued_rw_requests = Channels
      /\ \A d \in Channels : queued_rw_requests[d] \in Seq(Requests)
      /\ finished_requests \in [Channels -> SUBSET Requests]
  BY DEF LInv, LTypeOK, ChannelTypeOK
<1>4. \A d \in Channels : OwnRequests(d)
  BY DEF LInv, OnePlace
<1>5. /\ \A d \in Channels : \A i \in DOMAIN queued_rw_requests[d] :
            queued_rw_requests[d][i] \in Requests \ {r}
      /\ \A d \in Channels : finished_requests[d] \subseteq Requests \ {r}
  BY <1>2, <1>3, SeqElement DEF Waits, Rejected
<1>6. CASE UNCHANGED channelVars /\ \/ ToBase(r) \/ ToImage(r)
  <2>1. /\ \A q : (Waits(q)' <=> Waits(q)) /\ (Rejected(q)' <=> Rejected(q))
    BY <1>6 DEF channelVars, Waits, Rejected
  <2>2. \A d \in Channels : OwnRequests(d)'
    BY <1>1, <1>4, <1>5, <1>6 DEF OwnRequests, channelVars
  <2>3. /\ \A q \in Requests \ {r} : Same(base_io, base_io', q) /\ Same(image_io, image_io', q)
        /\ r \in DOMAIN base_io' <=> ToBase(r)
        /\ r \in DOMAIN image_io' <=> ~ToBase(r)
    BY <1>2, <1>6 DEF ToBase, ToImage, With, Same
  <2>4. PlacedOnce(r)'
    BY <1>1, <1>2, <2>1, <2>3 DEF PlacedOnce
  <2> QED BY <1>1, <2>1, <2>2, <2>3, <2>4, OthersPlaced DEF OthersKept, LInv
<1>7. CASE Queues(c, r)
  <2>1. /\ UNCHANGED <<finished_requests, base_io, image_io>>
        /\ \A d \in Channels \ {c} : queued_rw_requests'[d] = queued_rw_requests[d]
        /\ queued_rw_requests'[c] = Append(queued_rw_requests[c], r)
    BY <1>3, <1>7 DEF Queues, guestIoVars
  <2>2. PICK n \in Nat : n = Len(queued_rw_requests[c])
    BY <1>3, LenProperties
  <2>3. /\ DOMAIN queued_rw_requests[c] = 1 .. n /\ DOMAIN queued_rw_requests'[c] = 1 .. (n + 1)
        /\ \A i \in 1 .. n : queued_rw_requests'[c][i] = queued_rw_requests[c][i]
        /\ queued_rw_requests'[c][n + 1] = r
    BY <1>3, <2>1, <2>2, AppendProperties, LenProperties
  <2>4. \A i \in 1 .. (n + 1) : i \in 1 .. n \/ i = n + 1
    BY <2>2
  <2>5. 1 .. n \subseteq 1 .. (n + 1) /\ n + 1 \in 1 .. (n + 1)
    BY <2>2
  <2>6. ASSUME NEW q \in Requests \ {r} PROVE Waits(q)' <=> Waits(q)
    BY <2>1, <2>3, <2>4, <2>5 DEF Waits
  <2>7. Waits(r)'
    BY <2>3, <2>5 DEF Waits
  <2>8. \A q : Rejected(q)' <=> Rejected(q)
    BY <2>1 DEF Rejected
  <2>9. OwnRequests(c)'
    BY <1>1, <1>4, <1>5, <2>1, <2>3, <2>4 DEF OwnRequests
  <2>10. \A d \in Channels : OwnRequests(d)'
    BY <1>1, <1>4, <1>5, <2>1, <2>9 DEF OwnRequests
  <2>11. PlacedOnce(r)'
    BY <1>1, <1>2, <2>1, <2>7, <2>8 DEF PlacedOnce
  <2>12. OthersKept(r)
    BY <1>1, <2>1, <2>6, <2>8 DEF OthersKept, Same
  <2> QED BY <2>10, <2>11, <2>12, OthersPlaced DEF LInv
<1>8. CASE ToFinished(c, r)
  <2>1. /\ UNCHANGED <<queued_rw_requests, base_io, image_io>>
        /\ \A d \in Channels \ {c} : finished_requests'[d] = finished_requests[d]
        /\ finished_requests'[c] = finished_requests[c] \cup {r}
    BY <1>3, <1>8 DEF ToFinished, guestIoVars
  <2>2. \A q : Waits(q)' <=> Waits(q)
    BY <2>1 DEF Waits
  <2>3. Rejected(r)' /\ \A q \in Requests \ {r} : Rejected(q)' <=> Rejected(q)
    BY <2>1 DEF Rejected
  <2>4. \A d \in Channels : OwnRequests(d)'
    BY <1>1, <1>4, <1>5, <2>1 DEF OwnRequests
  <2>5. PlacedOnce(r)'
    BY <1>1, <1>2, <2>1, <2>2, <2>3 DEF PlacedOnce
  <2>6. OthersKept(r)
    BY <1>1, <2>1, <2>2, <2>3 DEF OthersKept, Same
  <2> QED BY <2>4, <2>5, <2>6, OthersPlaced DEF LInv
<1> QED BY <1>6, <1>7, <1>8, IssueFacts DEF Starts, ReadsImage, ToBase, ToImage

LEMMA IssueTypes ==
    ASSUME LInv, NEW c \in Channels, NEW r \in Requests, Issue(c, r)
    PROVE  ChannelTypeOK' /\ BgTypeOK'
<1>1. req' \in [Requests -> RequestState] /\ owner' \in [Requests -> Channels]
  BY IssueFacts, OpenFacts
<1>2. UNCHANGED <<worker_pc, done, disk_cache, disk_durable>>
  BY DEF Issue, WorkerUnchangedButChannel, mediaVars, diskVars
<1>3. ChannelTypeOK /\ BgTypeOK
  BY DEF LInv, LTypeOK
<1>4. bgworker_ch' \in Seq(BgWorkerRequest)
  BY <1>3, IssueFacts DEF Starts, ReadsImage, Queues, ToBase, ToImage, ToFinished, BgTypeOK
<1>5. /\ DOMAIN base_io' \subseteq Requests /\ DOMAIN image_io' \subseteq Requests
      /\ \A q \in DOMAIN base_io' : base_io'[q] \in {"none", "ok", "err"}
      /\ \A q \in DOMAIN image_io' : image_io'[q] \in {"none", "ok", "err"}
  <2>1. CASE ToBase(r)
    BY <1>3, <2>1 DEF ToBase, With, ChannelTypeOK
  <2>2. CASE ToImage(r)
    BY <1>3, <2>2 DEF ToImage, With, ChannelTypeOK
  <2>3. CASE UNCHANGED guestIoVars
    BY <1>3, <2>3 DEF guestIoVars, ChannelTypeOK
  <2> QED BY <2>1, <2>2, <2>3, IssueFacts DEF Starts, ReadsImage, Queues, ToFinished, guestIoVars
<1>6. stripe_fetches_requested' \in [Channels -> SUBSET Stripes]
  <2>1. CASE UNCHANGED stripe_fetches_requested
    BY <1>3, <2>1 DEF ChannelTypeOK
  <2> QED BY <2>1, IssueFacts DEF Starts, ReadsImage, Queues, ToBase, ToImage, ToFinished,
                                  channelVars
<1>7. finished_requests' \in [Channels -> SUBSET Requests]
  <2>1. CASE UNCHANGED finished_requests
    BY <1>3, <2>1 DEF ChannelTypeOK
  <2>2. CASE ToFinished(c, r)
    BY <1>3, <2>2 DEF ToFinished, ChannelTypeOK
  <2> QED BY <2>1, <2>2, IssueFacts DEF Starts, ReadsImage, Queues, ToBase, ToImage, channelVars
<1>8. /\ DOMAIN queued_rw_requests' = Channels
      /\ \A d \in Channels : queued_rw_requests'[d] \in Seq(Requests)
  <2>1. CASE UNCHANGED queued_rw_requests
    BY <1>3, <2>1 DEF ChannelTypeOK
  <2>2. CASE Queues(c, r)
    <3>1. Append(queued_rw_requests[c], r) \in Seq(Requests)
      BY <1>3, AppendProperties DEF ChannelTypeOK
    <3> QED BY <1>3, <2>2, <3>1 DEF Queues, ChannelTypeOK
  <2> QED BY <2>1, <2>2, IssueFacts DEF Starts, ReadsImage, ToBase, ToImage, ToFinished,
                                        channelVars
<1>9. ChannelTypeOK'
  BY <1>1, <1>2, <1>3, <1>5, <1>6, <1>7, <1>8 DEF ChannelTypeOK
<1> QED BY <1>2, <1>3, <1>4, <1>9 DEF BgTypeOK

\* A new request is sound wherever it goes.
LEMMA IssuedSound ==
    ASSUME LInv, NEW c \in Channels, NEW r \in Requests, Issue(c, r),
           \A s \in Stripes : KeepsStripe(s) /\ Content(s)' = Content(s)
    PROVE  RequestSound(r)'
<1>1. PICK kind \in {In, Out, Flush}, first \in Stripes, last \in Stripes :
          Open(c, r, kind, first, last)
  BY IssueFacts
<1>2. /\ req'[r].st = "open" /\ req'[r].kind = kind /\ req'[r].done = req[r].done
      /\ req'[r].first = first /\ req'[r].last = last
      /\ kind = In => \A s \in first .. last : req'[r].seen[s] = {Content(s)}
  BY <1>1, OpenFacts
<1>3. Covered(r)' = first .. last /\ first .. last \subseteq Stripes
  BY <1>2, StripeAssumption DEF Covered, Stripes
<1>4. ~req'[r].done
  BY <1>2 DEF LInv, RequestsSound, RequestSound, Issue
<1>5. req'[r].kind = In => \A s \in Covered(r)' : Content(s)' \in req'[r].seen[s]
  BY <1>2, <1>3
<1>6. r \notin DOMAIN base_io /\ r \notin DOMAIN image_io
  BY DEF Issue, LInv, OnePlace, PlacedOnce
<1>7. CASE Starts(c, r)
  <2>1. r \notin DOMAIN image_io' /\ base_io'[r] = "none"
    BY <1>6, <1>7 DEF Starts, ToBase, With
  <2>2. req'[r].kind # Flush => \A s \in Covered(r)' : stripe_fetched_if_needed(s)'
    BY <1>2, <1>3, <1>7 DEF Starts, KeepsStripe
  <2>3. TrackWritten /\ req'[r].kind = Out => AllWritten(Covered(r))'
    BY <1>2, <1>3, <1>7 DEF Starts, KeepsStripe, AllWritten
  <2> QED BY <1>2, <1>4, <1>5, <2>1, <2>2, <2>3 DEF RequestSound
<1>8. CASE ReadsImage(c, r)
  <2>1. r \notin DOMAIN base_io' /\ image_io'[r] = "none"
    BY <1>6, <1>8 DEF ReadsImage, ToImage, With
  <2>2. \A s \in Covered(r)' : SourceData \in req'[r].seen[s]
    BY <1>2, <1>3, <1>8 DEF ReadsImage, Content
  <2>3. req'[r].kind = In
    BY <1>8 DEF ReadsImage
  <2> QED BY <1>2, <1>4, <1>5, <2>1, <2>2, <2>3 DEF RequestSound
<1>9. CASE Queues(c, r) \/ ToFinished(c, r)
  <2>1. r \notin DOMAIN base_io' /\ r \notin DOMAIN image_io'
    BY <1>6, <1>9 DEF Queues, ToFinished, guestIoVars
  <2> QED BY <1>2, <1>4, <1>5, <2>1 DEF RequestSound
<1> QED BY <1>7, <1>8, <1>9, IssueFacts

\* A step of an I/O thread that changes nothing of the worker's but its channel.
LEMMA ThreadStep ==
    ASSUME LInv, WorkerUnchangedButChannel
    PROVE  BackgroundStep
<1>1. FetcherIdle /\ UNCHANGED <<flusherVars, metaDevVars>>
  BY DEF WorkerUnchangedButChannel, FetcherIdle, fetcherVars, metaDevVars, allIoVars, mediaVars
<1> QED BY <1>1, PcStep

LEMMA IssueInv ==
    ASSUME LInv, NEW c \in Channels, NEW r \in Requests, Issue(c, r)
    PROVE  LInv'
<1>1. BackgroundStep
  BY ThreadStep DEF Issue
<1>2. faults' \in 0 .. MaxFaults /\ power_losses' \in 0 .. MaxPowerLosses
  BY FaultBudget DEF Issue
<1>3. LTypeOK'
  BY <1>1, <1>2, IssueTypes DEF BackgroundStep, LTypeOK, MFInv, FInv
<1>4. OthersKept(r) /\ OnePlace'
  BY IssuePlaces
<1>5. RequestsSound'
  <2>1. ASSUME NEW q \in Requests \ {r} PROVE RequestSound(q)'
    BY <1>1, <1>4, QuietRequest, BackgroundCore DEF OthersKept, LInv, LTypeOK, RequestsSound
  <2>2. RequestSound(r)'
    BY <1>1, IssuedSound, BackgroundCore
  <2> QED BY <2>1, <2>2 DEF RequestsSound
<1> QED BY <1>1, <1>3, <1>4, <1>5, BackgroundCore DEF LInv, BackgroundStep

-----------------------------------------------------------------------------
(* The I/O threads: a channel is polled.                                   *)

Answered(c, n, submitted) == PolledOk(c) \cup PolledErr(c, n, submitted)
Sent(c, n, submitted)     == IF submitted THEN ToSubmit(c, n) ELSE {}

\* The requests that the loop pops were waiting on this channel, and nowhere
\* else; the others wait on.
LEMMA PollTakes ==
    ASSUME LInv, NEW c \in Channels, NEW n \in 0 .. Len(queued_rw_requests[c]),
           queued_rw_requests' = [queued_rw_requests EXCEPT ![c] = SubSeq(@, n + 1, Len(@))]
    PROVE  /\ Taken(c, n) \subseteq Requests
           /\ \A x \in Taken(c, n) : Waits(x)
           /\ \A x : Waits(x)' <=> Waits(x) /\ x \notin Taken(c, n)
           /\ queued_rw_requests'[c] \in Seq(Requests)
           /\ \A i, j \in DOMAIN queued_rw_requests'[c] :
                 queued_rw_requests'[c][i] = queued_rw_requests'[c][j] => i = j
           /\ \A i \in DOMAIN queued_rw_requests'[c] : owner[queued_rw_requests'[c][i]] = c
<1>1. PICK q \in Seq(Requests) : q = queued_rw_requests[c]
  BY DEF LInv, LTypeOK, ChannelTypeOK
<1>2. DOMAIN queued_rw_requests = Channels
  BY DEF LInv, LTypeOK, ChannelTypeOK
<1>3. PICK p : p = queued_rw_requests'[c]
  OBVIOUS
<1>4. p = SubSeq(q, n + 1, Len(q)) /\ \A d \in Channels \ {c} : queued_rw_requests'[d] = queued_rw_requests[d]
  BY <1>1, <1>2, <1>3
<1>5. Len(q) \in Nat /\ DOMAIN q = 1 .. Len(q) /\ \A i \in 1 .. Len(q) : q[i] \in Requests
  BY LenProperties
<1>6. n \in 0 .. Len(q) /\ n \in Nat
  BY <1>1, <1>5
<1>7. /\ p \in Seq(Requests)
      /\ DOMAIN p = 1 .. (Len(q) - n)
      /\ \A i \in DOMAIN p : n + i \in DOMAIN q /\ p[i] = q[n + i]
  BY <1>4, <1>6, DropFirst
<1>8. /\ \A i, j \in DOMAIN q : q[i] = q[j] => i = j
      /\ \A i \in DOMAIN q : owner[q[i]] = c
  BY <1>1 DEF LInv, OnePlace, OwnRequests
<1>9. \A x : x \in Taken(c, n) <=> \E i \in 1 .. n : q[i] = x
  BY <1>1 DEF Taken
<1>10. 1 .. n \subseteq DOMAIN q
  BY <1>5, <1>6
<1>11. \A x \in Taken(c, n) : x \in Requests /\ Waits(x) /\ owner[x] = c
  BY <1>1, <1>5, <1>8, <1>9, <1>10 DEF Waits
<1>12. ASSUME NEW x PROVE (\E i \in DOMAIN p : p[i] = x) <=>
                             (\E i \in DOMAIN q : q[i] = x) /\ x \notin Taken(c, n)
  <2>1. ASSUME NEW i \in DOMAIN p, p[i] = x
        PROVE  n + i \in DOMAIN q /\ q[n + i] = x /\ x \notin Taken(c, n)
    <3>1. n + i \in DOMAIN q /\ q[n + i] = x
      BY <1>7, <2>1
    <3>2. \A j \in 1 .. n : j # n + i
      BY <1>5, <1>6, <1>7
    <3> QED BY <1>8, <1>9, <1>10, <3>1, <3>2
  <2>2. ASSUME NEW i \in DOMAIN q, q[i] = x, x \notin Taken(c, n)
        PROVE  \E j \in DOMAIN p : p[j] = x
    <3>1. i \notin 1 .. n
      BY <1>9, <2>2
    <3>2. i - n \in DOMAIN p /\ n + (i - n) = i
      BY <1>5, <1>6, <1>7, <3>1
    <3> QED BY <1>7, <2>2, <3>2
  <2> QED BY <2>1, <2>2
<1>13. ASSUME NEW x PROVE Waits(x)' <=> Waits(x) /\ x \notin Taken(c, n)
  <2>1. \A d \in Channels \ {c} : \A i \in DOMAIN queued_rw_requests[d] :
            queued_rw_requests[d][i] = x => x \notin Taken(c, n)
    BY <1>11 DEF LInv, OnePlace, OwnRequests
  <2> QED BY <1>1, <1>3, <1>4, <1>12, <2>1 DEF Waits
<1>14. /\ \A i, j \in DOMAIN p : p[i] = p[j] => i = j
       /\ \A i \in DOMAIN p : owner[p[i]] = c
  BY <1>5, <1>6, <1>7, <1>8
<1> QED BY <1>3, <1>7, <1>11, <1>13, <1>14

\* What poll does to the requests.
LEMMA PollFacts ==
    ASSUME LInv, NEW c \in Channels, NEW n \in 0 .. Len(queued_rw_requests[c]),
           NEW submitted \in BOOLEAN, Poll(c, n, submitted),
           NEW x \in Requests
    PROVE  /\ x \in Answered(c, n, submitted) =>
                 /\ req[x].st = "open" /\ x \notin Sent(c, n, submitted)
                 /\ req'[x].st \in {"ok", "err"}
                 /\ ~Waits(x)' /\ ~Rejected(x)'
                 /\ x \notin DOMAIN base_io' /\ x \notin DOMAIN image_io'
           /\ x \in Sent(c, n, submitted) =>
                 /\ req[x].st = "open" /\ Waits(x)
                 /\ ~Waits(x)' /\ ~Rejected(x)' /\ x \notin DOMAIN image_io'
                 /\ x \in DOMAIN base_io' /\ base_io'[x] = "none"
           /\ x \notin Answered(c, n, submitted) => req'[x] = req[x]
           /\ x \notin Answered(c, n, submitted) \cup Sent(c, n, submitted) =>
                 /\ Waits(x)' <=> Waits(x)
                 /\ Rejected(x)' <=> Rejected(x)
                 /\ Same(base_io, base_io', x) /\ Same(image_io, image_io', x)
<1> DEFINE ended == Answered(c, n, submitted)
           sent  == Sent(c, n, submitted)
           T     == Taken(c, n)
<1>1. /\ T \subseteq Requests /\ \A y \in T : Waits(y)
      /\ \A y : Waits(y)' <=> Waits(y) /\ y \notin T
  BY PollTakes DEF Poll
<1>2. /\ base_io' = [r \in (DOMAIN base_io \ ended) \cup sent |->
                        IF r \in sent THEN "none" ELSE base_io[r]]
      /\ image_io' = Without(image_io, ended)
      /\ req' = [r \in Requests |->
                    IF r \in PolledOk(c) THEN [req[r] EXCEPT !.st = "ok"]
                    ELSE IF r \in ended THEN [req[r] EXCEPT !.st = "err"] ELSE req[r]]
      /\ finished_requests' = [finished_requests EXCEPT ![c] = {}]
  BY DEF Poll, Answered, Sent
<1>3. sent \subseteq T /\ T \subseteq ended \cup sent
  BY DEF Sent, ToSubmit, Answered, PolledErr
<1>4. finished_requests[c] \subseteq ended
  BY DEF Answered, PolledErr
<1>5. x \in ended => \/ x \in finished_requests[c]
                     \/ x \in T /\ x \notin sent
                     \/ x \in DOMAIN base_io
                     \/ x \in DOMAIN image_io
  BY DEF Answered, PolledOk, PolledErr, Ended, Mine, Sent, ToSubmit
<1>6. PlacedOnce(x)
  BY DEF LInv, OnePlace
<1>7. /\ x \in finished_requests[c] => Rejected(x)
      /\ Rejected(x)' <=> Rejected(x) /\ x \notin finished_requests[c]
  <2>1. DOMAIN finished_requests = Channels
    BY DEF LInv, LTypeOK, ChannelTypeOK
  <2>2. \A d \in Channels : x \in finished_requests[d] => owner[x] = d
    BY DEF LInv, OnePlace, OwnRequests
  <2> QED BY <1>2, <2>1, <2>2 DEF Rejected
<1>8. req[x] \in RequestState
  BY CoveredStripes DEF LInv, LTypeOK
<1>9. /\ x \in ended => req'[x].st \in {"ok", "err"}
      /\ x \notin ended => req'[x] = req[x]
  BY <1>2, <1>8 DEF Answered, RequestState
<1> HIDE DEF ended, sent, T
<1>10. /\ x \in DOMAIN base_io' <=> x \in sent \/ (x \in DOMAIN base_io /\ x \notin ended)
       /\ x \in DOMAIN image_io' <=> x \in DOMAIN image_io /\ x \notin ended
       /\ x \in sent => base_io'[x] = "none"
  BY <1>2 DEF Without
<1>11. x \in ended => /\ req[x].st = "open" /\ x \notin sent
                      /\ ~Waits(x)' /\ ~Rejected(x)'
                      /\ x \notin DOMAIN base_io' /\ x \notin DOMAIN image_io'
  BY <1>1, <1>3, <1>5, <1>6, <1>7, <1>10 DEF PlacedOnce
<1>12. x \in sent => /\ req[x].st = "open" /\ Waits(x)
                     /\ ~Waits(x)' /\ ~Rejected(x)' /\ x \notin DOMAIN image_io'
                     /\ x \in DOMAIN base_io' /\ base_io'[x] = "none"
  BY <1>1, <1>3, <1>6, <1>7, <1>10 DEF PlacedOnce
<1>13. x \notin ended \cup sent => /\ Waits(x)' <=> Waits(x)
                                   /\ Rejected(x)' <=> Rejected(x)
                                   /\ Same(base_io, base_io', x) /\ Same(image_io, image_io', x)
  BY <1>1, <1>2, <1>3, <1>4, <1>7, <1>10 DEF Same, Without
<1> QED BY <1>9, <1>11, <1>12, <1>13 DEF ended, sent

\* A request that leaves the queue for the base device finds its stripes fetched
\* and, with track_written, marked.
LEMMA SentReady ==
    ASSUME LInv, NEW c \in Channels, NEW n \in 0 .. Len(queued_rw_requests[c]),
           NEW submitted \in BOOLEAN, Poll(c, n, submitted),
           NEW x \in Sent(c, n, submitted)
    PROVE  /\ \A s \in Covered(x) : stripe_fetched_if_needed(s)
           /\ TrackWritten /\ req[x].kind = Out => AllWritten(Covered(x))
<1>1. x \in Taken(c, n) /\ FetchStatus(Covered(x)) = "Complete"
  BY DEF Sent, ToSubmit
<1>2. Passes(x)
  BY <1>1 DEF Taken, Poll, PollsUpTo
<1> QED BY <1>1, <1>2, CompleteMeansFetched DEF Passes

LEMMA PollTypes ==
    ASSUME LInv, NEW c \in Channels, NEW n \in 0 .. Len(queued_rw_requests[c]),
           NEW submitted \in BOOLEAN, Poll(c, n, submitted), WorkerUnchangedButChannel
    PROVE  ChannelTypeOK' /\ BgTypeOK'
<1>1. ChannelTypeOK /\ BgTypeOK
  BY DEF LInv, LTypeOK
<1>2. UNCHANGED <<worker_pc, done, disk_cache, disk_durable, bgworker_ch, owner>>
  BY DEF Poll, WorkerUnchangedButChannel, mediaVars, diskVars
<1>3. /\ DOMAIN queued_rw_requests' = Channels
      /\ \A d \in Channels : queued_rw_requests'[d] \in Seq(Requests)
  <2>1. queued_rw_requests'[c] \in Seq(Requests)
    BY PollTakes DEF Poll
  <2>2. /\ DOMAIN queued_rw_requests' = DOMAIN queued_rw_requests
        /\ \A d \in Channels \ {c} : queued_rw_requests'[d] = queued_rw_requests[d]
    BY <1>1 DEF Poll, ChannelTypeOK
  <2> QED BY <1>1, <2>1, <2>2 DEF ChannelTypeOK
<1>4. /\ finished_requests' \in [Channels -> SUBSET Requests]
      /\ stripe_fetches_requested' \in [Channels -> SUBSET Stripes]
  <2>1. /\ finished_requests \in [Channels -> SUBSET Requests]
        /\ stripe_fetches_requested \in [Channels -> SUBSET Stripes]
    BY <1>1 DEF ChannelTypeOK
  <2>2. /\ finished_requests' = [finished_requests EXCEPT ![c] = {}]
        /\ \E X : stripe_fetches_requested' =
                    [stripe_fetches_requested EXCEPT ![c] = stripe_fetches_requested[c] \ X]
    BY DEF Poll
  <2> QED BY <2>1, <2>2
<1>5. DOMAIN base_io' \subseteq Requests /\ DOMAIN image_io' \subseteq Requests
  <2>1. Sent(c, n, submitted) \subseteq Requests
    BY PollTakes DEF Poll, Sent, ToSubmit
  <2>2. /\ DOMAIN base_io' = (DOMAIN base_io \ Answered(c, n, submitted)) \cup Sent(c, n, submitted)
        /\ DOMAIN image_io' = DOMAIN image_io \ Answered(c, n, submitted)
    BY DEF Poll, Answered, Sent, Without
  <2> QED BY <1>1, <2>1, <2>2 DEF ChannelTypeOK
<1>6. /\ \A x \in DOMAIN base_io' : base_io'[x] \in {"none", "ok", "err"}
      /\ \A x \in DOMAIN image_io' : image_io'[x] \in {"none", "ok", "err"}
  <2>1. ASSUME NEW x \in Requests
        PROVE  /\ x \in DOMAIN base_io' => base_io'[x] \in {"none", "ok", "err"}
               /\ x \in DOMAIN image_io' => image_io'[x] \in {"none", "ok", "err"}
    BY <1>1, PollFacts DEF Same, ChannelTypeOK
  <2> QED BY <1>5, <2>1
<1>7. req' \in [Requests -> RequestState]
  <2>1. ASSUME NEW x \in Requests, NEW st \in {"ok", "err"}
        PROVE  [req[x] EXCEPT !.st = st] \in RequestState
    BY <1>1 DEF ChannelTypeOK, RequestState
  <2>2. \A x \in Requests : req[x] \in RequestState
    BY <1>1 DEF ChannelTypeOK
  <2>3. PICK ended : req' = [x \in Requests |->
                        IF x \in PolledOk(c) THEN [req[x] EXCEPT !.st = "ok"]
                        ELSE IF x \in ended THEN [req[x] EXCEPT !.st = "err"] ELSE req[x]]
    BY DEF Poll
  <2> QED BY <2>1, <2>2, <2>3
<1>8. ChannelTypeOK'
  BY <1>1, <1>2, <1>3, <1>4, <1>5, <1>6, <1>7 DEF ChannelTypeOK
<1> QED BY <1>1, <1>2, <1>8 DEF BgTypeOK

LEMMA PollInv ==
    ASSUME LInv, NEW c \in Channels, PollStep(c)
    PROVE  LInv'
<1>1. BackgroundStep
  BY ThreadStep DEF PollStep
<1>2. PICK n \in 0 .. Len(queued_rw_requests[c]), submitted \in BOOLEAN :
          Poll(c, n, submitted) /\ Faulty(~submitted)
  BY DEF PollStep
<1>3. WorkerUnchangedButChannel
  BY DEF PollStep
<1>4. LTypeOK'
  <2>1. faults' \in 0 .. MaxFaults /\ power_losses' \in 0 .. MaxPowerLosses
    BY <1>2, FaultBudget
  <2> QED BY <1>1, <1>2, <1>3, <2>1, PollTypes DEF BackgroundStep, LTypeOK, MFInv, FInv
<1> DEFINE ended == Answered(c, n, submitted)
           sent  == Sent(c, n, submitted)
<1>5. ASSUME NEW x \in Requests PROVE PlacedOnce(x)'
  <2>1. PlacedOnce(x)
    BY DEF LInv, OnePlace
  <2>2. CASE x \in ended
    BY <1>2, <2>2, PollFacts DEF PlacedOnce
  <2>3. CASE x \in sent
    BY <1>2, <2>3, PollFacts DEF PlacedOnce
  <2>4. CASE x \notin ended \cup sent
    BY <1>2, <2>1, <2>4, PollFacts DEF PlacedOnce, Same
  <2> QED BY <2>2, <2>3, <2>4
<1>6. ASSUME NEW d \in Channels PROVE OwnRequests(d)'
  <2>1. OwnRequests(d) /\ UNCHANGED owner
    BY <1>2 DEF LInv, OnePlace, Poll
  <2>2. /\ DOMAIN finished_requests = Channels /\ DOMAIN queued_rw_requests = Channels
    BY DEF LInv, LTypeOK, ChannelTypeOK
  <2>3. CASE d = c
    <3>1. finished_requests'[c] = {}
      BY <1>2, <2>2 DEF Poll
    <3> QED BY <1>2, <2>1, <2>3, <3>1, PollTakes DEF OwnRequests, Poll
  <2>4. CASE d # c
    <3>1. /\ finished_requests'[d] = finished_requests[d]
          /\ queued_rw_requests'[d] = queued_rw_requests[d]
      BY <1>2, <2>2, <2>4 DEF Poll
    <3> QED BY <2>1, <3>1 DEF OwnRequests
  <2> QED BY <2>3, <2>4
<1>7. \A s \in Stripes : KeepsStripe(s) /\ Content(s)' = Content(s)
  BY <1>1, BackgroundCore
<1>8. ASSUME NEW x \in Requests PROVE RequestSound(x)'
  <2>1. RequestSound(x) /\ ChannelTypeOK
    BY DEF LInv, RequestsSound, LTypeOK
  <2>2. CASE x \in ended
    BY <1>2, <2>2, PollFacts DEF RequestSound
  <2>3. CASE x \in sent
    <3>1. /\ req'[x] = req[x] /\ Waits(x)
          /\ ~Waits(x)' /\ x \notin DOMAIN image_io'
          /\ x \in DOMAIN base_io' /\ base_io'[x] = "none"
      BY <1>2, <2>3, PollFacts
    <3>2. Covered(x)' = Covered(x) /\ Covered(x) \subseteq Stripes
      BY <2>1, <3>1, CoveredStripes DEF Covered
    <3>3. /\ \A s \in Covered(x)' : stripe_fetched_if_needed(s)'
          /\ TrackWritten /\ req'[x].kind = Out => AllWritten(Covered(x))'
      BY <1>2, <1>7, <2>3, <3>1, <3>2, SentReady DEF KeepsStripe, AllWritten
    <3> QED BY <1>7, <2>1, <3>1, <3>2, <3>3 DEF RequestSound
  <2>4. CASE x \notin ended \cup sent
    <3>1. /\ req'[x] = req[x] /\ (Waits(x)' => Waits(x))
          /\ Same(base_io, base_io', x) /\ Same(image_io, image_io', x)
      BY <1>2, <2>4, PollFacts
    <3> QED BY <1>7, <2>1, <3>1, QuietRequest
  <2> QED BY <2>2, <2>3, <2>4
<1> QED BY <1>1, <1>4, <1>5, <1>6, <1>8, BackgroundCore
       DEF LInv, BackgroundStep, OnePlace, RequestsSound

-----------------------------------------------------------------------------
(* A device completes a request of the guest.                              *)

\* What every completion has in common: S are the stripes that the request wrote.
Serves(r, S, result) ==
    /\ S \subseteq Stripes
    /\ \A s \in S : stripe_fetched_if_needed(s) /\ (TrackWritten => stripe_written(s))
    /\ disk_cache' = [s \in Stripes |-> IF s \in S THEN r ELSE disk_cache[s]]
    /\ disk_durable' \in {disk_durable, disk_cache}
    /\ req' \in [Requests -> RequestState]
    /\ \A q \in Requests :
          /\ req'[q].st = req[q].st /\ req'[q].kind = req[q].kind
          /\ req'[q].first = req[q].first /\ req'[q].last = req[q].last
          /\ q # r => req'[q].done = req[q].done
          /\ \A s \in Stripes : req[q].seen[s] \subseteq req'[q].seen[s]
          /\ req[q].st = "open" /\ req[q].kind = In =>
                \A s \in S : s \in Covered(q) => r \in req'[q].seen[s]
    /\ result = "ok" => req'[r].done

\* A read takes its data.
LEMMA ReadFacts ==
    ASSUME ChannelTypeOK, NEW r \in Requests, NEW val \in [Stripes -> Datum \cup {NoVal}],
           req' = [req EXCEPT ![r].done = TRUE, ![r].val = val], UNCHANGED diskVars,
           NEW result
    PROVE  Serves(r, {}, result)
<1>1. req \in [Requests -> RequestState]
  BY DEF ChannelTypeOK
<1>2. PICK rec \in RequestState : rec = req[r]
  BY <1>1
<1>3. PICK new : new = [rec EXCEPT !.done = TRUE, !.val = val]
  OBVIOUS
<1>4. /\ new.st = rec.st /\ new.kind = rec.kind /\ new.first = rec.first /\ new.last = rec.last
      /\ new.seen = rec.seen /\ new.done = TRUE
  BY <1>3 DEF RequestState
<1>5. new \in RequestState
  BY <1>3 DEF RequestState
<1>6. req' = [req EXCEPT ![r] = new]
  BY <1>1, <1>2, <1>3
<1>7. disk_cache' = [s \in Stripes |-> disk_cache[s]]
  BY DEF ChannelTypeOK, diskVars
<1> QED BY <1>1, <1>2, <1>4, <1>5, <1>6, <1>7 DEF Serves, diskVars

\* A write reaches the stripes of S.
LEMMA WriteFacts ==
    ASSUME LInv, NEW r \in Requests, NEW S, NEW result,
           r \in DOMAIN base_io, req[r].kind = Out,
           S \subseteq Covered(r), result = "ok" => S = Covered(r),
           disk_cache' = [s \in Stripes |-> IF s \in S THEN r ELSE disk_cache[s]],
           req' = [Witnessed(S, r) EXCEPT ![r].done = (S = Covered(r))],
           UNCHANGED disk_durable
    PROVE  Serves(r, S, result)
<1>1. ChannelTypeOK /\ req \in [Requests -> RequestState]
  BY DEF LInv, LTypeOK, ChannelTypeOK
<1>2. S \subseteq Stripes
  BY <1>1, CoveredStripes
<1>3. \A s \in S : stripe_fetched_if_needed(s) /\ (TrackWritten => stripe_written(s))
  BY DEF LInv, RequestsSound, RequestSound, AllWritten, Out, Flush
<1>4. PICK W : W = Witnessed(S, r)
  OBVIOUS
<1>5. ASSUME NEW q \in Requests
      PROVE  /\ W[q] \in RequestState
             /\ W[q].st = req[q].st /\ W[q].kind = req[q].kind
             /\ W[q].first = req[q].first /\ W[q].last = req[q].last
             /\ W[q].done = req[q].done
             /\ \A s \in Stripes : req[q].seen[s] \subseteq W[q].seen[s]
             /\ req[q].st = "open" /\ req[q].kind = In =>
                   \A s \in S : s \in Covered(q) => r \in W[q].seen[s]
  <2>1. PICK rec \in RequestState : rec = req[q]
    BY <1>1
  <2>2. PICK seen : seen = [s \in Stripes |-> IF s \in S /\ s \in Covered(q)
                                              THEN rec.seen[s] \cup {r} ELSE rec.seen[s]]
    OBVIOUS
  <2>3. rec.seen \in [Stripes -> SUBSET Datum]
    BY DEF RequestState
  <2>4. seen \in [Stripes -> SUBSET Datum]
    BY <2>2, <2>3 DEF Datum
  <2>5. \A s \in Stripes : /\ rec.seen[s] \subseteq seen[s]
                           /\ s \in S /\ s \in Covered(q) => r \in seen[s]
    BY <2>2
  <2>6. CASE req[q].st = "open" /\ req[q].kind = In
    <3>1. W[q] = [rec EXCEPT !.seen = seen]
      BY <1>4, <2>1, <2>2, <2>6 DEF Witnessed
    <3>2. /\ W[q] \in RequestState
          /\ W[q].st = rec.st /\ W[q].kind = rec.kind
          /\ W[q].first = rec.first /\ W[q].last = rec.last
          /\ W[q].done = rec.done /\ W[q].seen = seen
      BY <2>4, <3>1 DEF RequestState
    <3> QED BY <1>2, <2>1, <2>5, <3>2
  <2>7. CASE ~(req[q].st = "open" /\ req[q].kind = In)
    <3>1. W[q] = rec
      BY <1>4, <2>1, <2>7 DEF Witnessed
    <3> QED BY <2>1, <2>7, <3>1
  <2> QED BY <2>6, <2>7
<1>6. W \in [Requests -> RequestState]
  <2>1. DOMAIN W = Requests /\ W = [q \in Requests |-> W[q]]
    BY <1>4 DEF Witnessed
  <2> QED BY <1>5, <2>1
<1>7. PICK new : new = [W[r] EXCEPT !.done = (S = Covered(r))]
  OBVIOUS
<1>8. PICK full \in BOOLEAN : full = (S = Covered(r))
  OBVIOUS
<1>9. /\ new \in RequestState
      /\ new.st = W[r].st /\ new.kind = W[r].kind /\ new.first = W[r].first
      /\ new.last = W[r].last /\ new.seen = W[r].seen /\ new.done = full
  <2>1. W[r] \in RequestState
    BY <1>6
  <2> QED BY <1>7, <1>8, <2>1 DEF RequestState
<1>10. req' = [W EXCEPT ![r] = new]
  BY <1>4, <1>6, <1>7
<1>11. /\ req' \in [Requests -> RequestState]
       /\ req'[r] = new /\ \A q \in Requests \ {r} : req'[q] = W[q]
  BY <1>6, <1>9, <1>10
<1>12. ASSUME NEW q \in Requests
       PROVE  /\ req'[q].st = req[q].st /\ req'[q].kind = req[q].kind
              /\ req'[q].first = req[q].first /\ req'[q].last = req[q].last
              /\ q # r => req'[q].done = req[q].done
              /\ \A s \in Stripes : req[q].seen[s] \subseteq req'[q].seen[s]
              /\ req[q].st = "open" /\ req[q].kind = In =>
                   \A s \in S : s \in Covered(q) => r \in req'[q].seen[s]
  <2>1. CASE q # r
    BY <1>5, <1>11, <2>1
  <2>2. CASE q = r
    BY <1>5, <1>9, <1>11, <2>2
  <2> QED BY <2>1, <2>2
<1>13. result = "ok" => req'[r].done
  BY <1>8, <1>9, <1>11
<1> QED BY <1>2, <1>3, <1>11, <1>12, <1>13 DEF Serves

\* The request's entry on the channel of a device gets its result.
Completes(io, io2, r, result) ==
    r \in DOMAIN io /\ io[r] = "none" /\ io2 = [io EXCEPT ![r] = result]

LEMMA BaseIoFacts ==
    ASSUME LInv, NEW r \in Requests, NEW result \in {"ok", "err"}, NEW S \in SUBSET Stripes,
           BaseIoDone(r, result, S)
    PROVE  Completes(base_io, base_io', r, result) /\ Serves(r, S, result)
<1>1. Completes(base_io, base_io', r, result)
  BY DEF BaseIoDone, Completes
<1>2. ChannelTypeOK /\ req \in [Requests -> RequestState] /\ disk_cache \in [Stripes -> Datum]
  BY DEF LInv, LTypeOK, ChannelTypeOK
<1>3. PICK rec \in RequestState : rec = req[r]
  BY <1>2
<1>4. rec.val \in [Stripes -> Datum \cup {NoVal}]
  BY DEF RequestState
<1>5. CASE result = "ok" /\ S = {} /\ req' = Filled(r, LAMBDA s : disk_cache[s]) /\ UNCHANGED diskVars
  <2>1. PICK val : val = [s \in Stripes |-> IF s \in Covered(r) THEN disk_cache[s] ELSE rec.val[s]]
    OBVIOUS
  <2>2. val \in [Stripes -> Datum \cup {NoVal}]
    BY <1>2, <1>4, <2>1
  <2>3. req' = [req EXCEPT ![r].done = TRUE, ![r].val = val]
    BY <1>3, <1>5, <2>1 DEF Filled
  <2> QED BY <1>1, <1>2, <1>5, <2>2, <2>3, ReadFacts
<1>6. CASE /\ req[r].kind = Out
           /\ S \subseteq Covered(r) /\ (result = "ok" => S = Covered(r))
           /\ disk_cache' = [s \in Stripes |-> IF s \in S THEN r ELSE disk_cache[s]]
           /\ req' = [Witnessed(S, r) EXCEPT ![r].done = (S = Covered(r))]
           /\ UNCHANGED disk_durable
  BY <1>1, <1>6, WriteFacts DEF Completes
<1>7. CASE S = {} /\ disk_durable' = disk_cache /\ req' = [req EXCEPT ![r].done = TRUE]
           /\ UNCHANGED disk_cache
  <2>1. PICK new : new = [rec EXCEPT !.done = TRUE]
    OBVIOUS
  <2>2. /\ new \in RequestState
        /\ new.st = rec.st /\ new.kind = rec.kind /\ new.first = rec.first
        /\ new.last = rec.last /\ new.seen = rec.seen /\ new.done = TRUE
    BY <2>1 DEF RequestState
  <2>3. req' = [req EXCEPT ![r] = new]
    BY <1>2, <1>3, <1>7, <2>1
  <2>4. disk_cache' = [s \in Stripes |-> disk_cache[s]]
    BY <1>2, <1>7
  <2> QED BY <1>1, <1>2, <1>3, <1>7, <2>2, <2>3, <2>4 DEF Serves
<1>8. CASE result = "err" /\ S = {} /\ UNCHANGED <<req, diskVars>>
  <2>1. disk_cache' = [s \in Stripes |-> disk_cache[s]]
    BY <1>2, <1>8 DEF diskVars
  <2> QED BY <1>1, <1>2, <1>8, <2>1 DEF Serves, diskVars
<1> QED BY <1>5, <1>6, <1>7, <1>8 DEF BaseIoDone

LEMMA ImageIoFacts ==
    ASSUME LInv, NEW r \in Requests, NEW result \in {"ok", "err"}, ImageIoDone(r, result),
           UNCHANGED diskVars
    PROVE  Completes(image_io, image_io', r, result) /\ Serves(r, {}, result)
<1>1. Completes(image_io, image_io', r, result)
  BY DEF ImageIoDone, Completes
<1>2. ChannelTypeOK /\ req \in [Requests -> RequestState] /\ disk_cache \in [Stripes -> Datum]
  BY DEF LInv, LTypeOK, ChannelTypeOK
<1>3. PICK rec \in RequestState : rec = req[r]
  BY <1>2
<1>4. rec.val \in [Stripes -> Datum \cup {NoVal}]
  BY DEF RequestState
<1>5. CASE result = "ok"
  <2>1. PICK val : val = [s \in Stripes |-> IF s \in Covered(r) THEN SourceData ELSE rec.val[s]]
    OBVIOUS
  <2>2. val \in [Stripes -> Datum \cup {NoVal}]
    BY <1>4, <2>1 DEF Datum
  <2>3. req' = [req EXCEPT ![r].done = TRUE, ![r].val = val]
    BY <1>3, <1>5, <2>1 DEF Filled, ImageIoDone
  <2> QED BY <1>1, <1>2, <2>2, <2>3, ReadFacts
<1>6. CASE result = "err"
  <2>1. disk_cache' = [s \in Stripes |-> disk_cache[s]]
    BY <1>2 DEF diskVars
  <2>2. UNCHANGED <<req, diskVars>>
    BY <1>6 DEF ImageIoDone
  <2> QED BY <1>1, <1>2, <1>6, <2>1, <2>2 DEF Serves, diskVars
<1> QED BY <1>5, <1>6

LEMMA GuestIoStepInv ==
    ASSUME LInv, NEW r \in Requests, GuestIoStep(r)
    PROVE  LInv'
<1>1. PICK result \in {"ok", "err"}, S \in SUBSET Stripes :
          /\ Serves(r, S, result)
          /\ \/ Completes(base_io, base_io', r, result) /\ UNCHANGED image_io
             \/ Completes(image_io, image_io', r, result) /\ UNCHANGED base_io
          /\ Faulty(result = "err")
  BY BaseIoFacts, ImageIoFacts DEF GuestIoStep
<1>2. UNCHANGED <<channelVars, owner, allWorker, meta_cache, meta_durable>>
  BY DEF GuestIoStep
<1>3. ChannelTypeOK /\ BgTypeOK
  BY DEF LInv, LTypeOK
<1>4. disk_cache' \in [Stripes -> Datum] /\ disk_durable' \in [Stripes -> Datum]
  BY <1>1, <1>3 DEF Serves, ChannelTypeOK, Datum
<1>5. MFInv'
  BY <1>2, StutterInv DEF LInv, allWorker, mfVars, metaDevVars, allIoVars
<1>6. \A s \in Stripes : KeepsStripe(s)
  BY <1>2 DEF KeepsStripe, Secured, stripe_fetched_if_needed, stripe_written, allWorker,
              sharedVars, fetcherVars
<1>7. \A s \in Stripes : DiskStep(s)
  <2> SUFFICES ASSUME NEW s \in Stripes PROVE DiskStep(s)
    OBVIOUS
  <2>1. s \in S => GuestWrote(s)
    BY <1>1 DEF Serves, GuestWrote
  <2>2. s \notin S => disk_cache'[s] = disk_cache[s]
    BY <1>1 DEF Serves
  <2>3. disk_durable'[s] \in {disk_durable[s], disk_cache[s]}
    BY <1>1 DEF Serves
  <2> QED BY <2>1, <2>2, <2>3 DEF DiskStep, CacheKept
<1>8. FInv'
  <2>1. \A t \in Stripes : DiskQuietAt(t)
    BY <1>1 DEF Serves, DiskQuietAt
  <2>2. autofetch_queue \in Seq(Stripes)
    BY DEF LInv, FInv, FTypeOK
  <2>3. DOMAIN disk_cache' = Stripes /\ DOMAIN disk_durable' = Stripes
    BY <1>4
  <2> QED BY <1>2, <2>1, <2>2, <2>3, QuietInv DEF LInv, allWorker, fetcherVars, allIoVars
<1>9. MarksKept
  BY <1>2 DEF MarksKept, LInv, MarksSecured, allWorker, flusherVars
<1>10. MarksSecured' /\ CopiesPresent' /\ WritesPublished'
  BY <1>5, <1>6, <1>7, <1>9, MarksStep, CopiesStep, WritesStep DEF LInv
<1>11. /\ DOMAIN base_io' = DOMAIN base_io /\ DOMAIN image_io' = DOMAIN image_io
       /\ \A q \in DOMAIN base_io \ {r} : base_io'[q] = base_io[q]
       /\ \A q \in DOMAIN image_io \ {r} : image_io'[q] = image_io[q]
       /\ r \in DOMAIN base_io => base_io'[r] \in {base_io[r], result}
       /\ r \in DOMAIN image_io => image_io'[r] \in {image_io[r], result}
  BY <1>1 DEF Completes
<1>12. ChannelTypeOK'
  BY <1>1, <1>2, <1>3, <1>4, <1>11 DEF Serves, ChannelTypeOK, channelVars
<1>13. LTypeOK'
  <2>1. BgTypeOK'
    BY <1>2, <1>3 DEF BgTypeOK, allWorker, bgVars
  <2>2. faults' \in 0 .. MaxFaults /\ power_losses' \in 0 .. MaxPowerLosses
    BY <1>1, FaultBudget
  <2> QED BY <1>5, <1>8, <1>12, <2>1, <2>2 DEF LTypeOK, MFInv, FInv
<1>14. \A q \in Requests : req'[q].st = req[q].st /\ (Waits(q)' <=> Waits(q))
                           /\ (Rejected(q)' <=> Rejected(q))
  BY <1>1, <1>2 DEF Serves, Waits, Rejected, channelVars
<1>15. OnePlace'
  BY <1>2, <1>11, <1>14 DEF LInv, OnePlace, PlacedOnce, OwnRequests, channelVars
<1>16. ASSUME NEW s \in Stripes PROVE Content(s)' = IF s \in S THEN r ELSE Content(s)
  <2>1. stripe_fetched_if_needed(s)' <=> stripe_fetched_if_needed(s)
    BY <1>2 DEF stripe_fetched_if_needed, allWorker, sharedVars
  <2>2. disk_cache'[s] = IF s \in S THEN r ELSE disk_cache[s]
    BY <1>1 DEF Serves
  <2>3. s \in S => stripe_fetched_if_needed(s)
    BY <1>1 DEF Serves
  <2> QED BY <2>1, <2>2, <2>3 DEF Content
<1>17. ASSUME NEW q \in Requests PROVE RequestSound(q)'
  <2>1. RequestSound(q) /\ PlacedOnce(q)
    BY DEF LInv, RequestsSound, OnePlace
  <2>2. /\ req'[q].st = req[q].st /\ req'[q].kind = req[q].kind
        /\ q # r => req'[q].done = req[q].done
        /\ \A s \in Stripes : req[q].seen[s] \subseteq req'[q].seen[s]
        /\ req[q].st = "open" /\ req[q].kind = In =>
              \A s \in S : s \in Covered(q) => r \in req'[q].seen[s]
    BY <1>1 DEF Serves
  <2>3. Covered(q)' = Covered(q) /\ Covered(q) \subseteq Stripes
    BY <1>1, <1>3, CoveredStripes DEF Serves, Covered
  <2>4. req'[q].st = "new" \/ Waits(q)' => ~req'[q].done
    <3>1. q = r => req[q].st = "open" /\ ~Waits(q)
      BY <1>1, <2>1 DEF Completes, PlacedOnce
    <3> QED BY <1>14, <2>1, <2>2, <3>1 DEF RequestSound
  <2>5. req'[q].st = "open" /\ req'[q].kind = In =>
            \A s \in Covered(q)' : Content(s)' \in req'[q].seen[s]
    BY <1>16, <2>1, <2>2, <2>3 DEF RequestSound
  <2>6. /\ req'[q].kind # Flush /\ q \in DOMAIN base_io' =>
              \A s \in Covered(q)' : stripe_fetched_if_needed(s)'
        /\ TrackWritten /\ req'[q].kind = Out /\ q \in DOMAIN base_io' => AllWritten(Covered(q))'
        /\ q \in DOMAIN image_io' =>
              req'[q].kind = In /\ \A s \in Covered(q)' : SourceData \in req'[q].seen[s]
    BY <1>6, <1>11, <2>1, <2>2, <2>3 DEF RequestSound, KeepsStripe, AllWritten
  <2>7. /\ q \in DOMAIN base_io' => /\ base_io'[q] = "none" => ~req'[q].done
                                    /\ base_io'[q] = "ok" => req'[q].done
        /\ q \in DOMAIN image_io' => /\ image_io'[q] = "none" => ~req'[q].done
                                     /\ image_io'[q] = "ok" => req'[q].done
    <3>1. CASE q # r
      BY <1>11, <2>1, <2>2, <3>1 DEF RequestSound
    <3>2. CASE q = r
      <4>1. result = "ok" => req'[q].done
        BY <1>1, <3>2 DEF Serves
      <4>2. /\ q \in DOMAIN base_io' => base_io'[q] = result
            /\ q \in DOMAIN image_io' => image_io'[q] = result
        BY <1>1, <1>11, <2>1, <3>2 DEF Completes, PlacedOnce
      <4> QED BY <4>1, <4>2
    <3> QED BY <3>1, <3>2
  <2> QED BY <2>4, <2>5, <2>6, <2>7 DEF RequestSound
<1> QED BY <1>5, <1>8, <1>10, <1>13, <1>15, <1>17 DEF LInv, RequestsSound

-----------------------------------------------------------------------------
(* Power is lost and the device starts again.                              *)

\* What the atomics say after headers were loaded.
LEMMA LoadedStripe ==
    ASSUME NEW h, SharedLoad(h), NEW s \in Stripes, HAS_SOURCE \in h[s] <=> s \in SourceStripes
    PROVE  /\ stripe_fetched_if_needed(s)' <=> s \notin SourceStripes \/ FETCHED \in h[s]
           /\ stripe_written(s)' <=> WRITTEN \in h[s]
BY DEF SharedLoad, LoadedFetchStates, LoadedWriteStates, stripe_fetched_if_needed, stripe_written,
       NotFetched, Fetched, NoSource, Written, NotWritten

LEMMA PowerLossInv ==
    ASSUME LInv, PowerLoss
    PROVE  LInv'
<1>1. PICK h : h = meta_durable
  OBVIOUS
<1>2. \A s \in Stripes : /\ HAS_SOURCE \in h[s] <=> s \in SourceStripes
                         /\ FETCHED \in h[s] => s \in SourceStripes
  BY <1>1 DEF LInv, MFInv, SourceFlagsKept
<1>3. MetaReload /\ FetcherReload(h) /\ SharedLoad(h)
  BY <1>1 DEF PowerLoss, WorkerReload, MetaReload
<1>4. MFInv'
  BY <1>3, MetaReloadInv DEF LInv
<1>5. /\ disk_cache' = disk_durable /\ disk_durable' = disk_durable
      /\ disk_durable \in [Stripes -> Datum]
  BY DEF PowerLoss, LInv, LTypeOK, ChannelTypeOK
<1>6. FInv'
  <2>1. SoundHeaders(h)
    BY <1>1, <1>2 DEF SoundHeaders, LInv, MFInv, MFTypeOK, Headers, Header
  <2> QED BY <1>3, <1>5, <2>1, FetcherReloadInv
<1>7. \A s \in Stripes : /\ stripe_fetched_if_needed(s)' <=> s \notin SourceStripes \/ FETCHED \in h[s]
                         /\ stripe_written(s)' <=> WRITTEN \in h[s]
  BY <1>2, <1>3, LoadedStripe
<1>8. MarksSecured'
  <2>1. headers' = h /\ meta_cache' = h /\ meta_durable' = h /\ queued_requests' = <<>>
    BY <1>1, <1>3 DEF MetaReload
  <2> QED BY <1>7, <2>1 DEF MarksSecured, Secured
<1>9. CopiesPresent'
  <2>1. ASSUME NEW s \in SourceStripes, FETCHED \in h[s] PROVE disk_durable[s] # BlankData
    <3>1. s \in Stripes
      BY StripeAssumption
    <3>2. Secured(s)
      BY <1>1, <2>1, <3>1 DEF LInv, MarksSecured
    <3> QED BY <3>1, <3>2, SecuredData, DataDistinct DEF LInv, CopiesPresent
  <2> QED BY <1>5, <1>7, <2>1, StripeAssumption DEF LInv, CopiesPresent
<1>10. WritesPublished'
  BY <1>1, <1>5, <1>7 DEF LInv, WritesPublished, MFInv, PublishedIsDurable, Published
<1>11. /\ queued_rw_requests' = [c \in Channels |-> <<>>]
       /\ finished_requests' = [c \in Channels |-> {}]
       /\ stripe_fetches_requested' = [c \in Channels |-> {}]
       /\ DOMAIN base_io' = {} /\ DOMAIN image_io' = {} /\ UNCHANGED owner
  BY DEF PowerLoss
<1>12. \A q : ~Waits(q)' /\ ~Rejected(q)'
  BY <1>11 DEF Waits, Rejected
<1>13. ASSUME NEW q \in Requests
       PROVE  /\ req'[q] \in RequestState
              /\ req'[q].st # "open" /\ req'[q].done = req[q].done
              /\ req'[q].st = "new" => req[q].st = "new"
  <2>1. PICK rec \in RequestState : rec = req[q]
    BY DEF LInv, LTypeOK, ChannelTypeOK
  <2>2. req'[q] = IF rec.st = "open" THEN [rec EXCEPT !.st = "lost"] ELSE rec
    BY <2>1 DEF PowerLoss
  <2> QED BY <2>1, <2>2 DEF RequestState
<1>14. OnePlace'
  BY <1>11, <1>12, <1>13 DEF OnePlace, PlacedOnce, OwnRequests
<1>15. RequestsSound'
  BY <1>11, <1>12, <1>13 DEF LInv, RequestsSound, RequestSound
<1>16. ChannelTypeOK'
  <2>1. req' \in [Requests -> RequestState]
    <3>1. DOMAIN req' = Requests /\ req' = [q \in Requests |-> req'[q]]
      BY DEF PowerLoss
    <3> QED BY <1>13, <3>1
  <2>2. \A c \in Channels : queued_rw_requests'[c] \in Seq(Requests)
    BY <1>11
  <2> QED BY <1>5, <1>11, <2>1, <2>2 DEF ChannelTypeOK, LInv, LTypeOK
<1>17. BgTypeOK'
  <2>1. FirstPc(meta_durable) \in WorkerPc
    BY DEF FirstPc, WorkerPc
  <2>2. bgworker_ch' = <<>> /\ worker_pc' = FirstPc(meta_durable) /\ done' = FALSE
    BY DEF PowerLoss, WorkerReload
  <2>3. bgworker_ch' \in Seq(BgWorkerRequest)
    BY <2>2, EmptySeq
  <2> QED BY <2>1, <2>2, <2>3 DEF BgTypeOK
<1>18. LTypeOK'
  <2>1. faults' \in 0 .. MaxFaults /\ power_losses' \in 0 .. MaxPowerLosses
    BY DeviceAssumption DEF PowerLoss, LInv, LTypeOK
  <2> QED BY <1>4, <1>6, <1>16, <1>17, <2>1 DEF LTypeOK, MFInv, FInv
<1> QED BY <1>4, <1>6, <1>8, <1>9, <1>10, <1>14, <1>15, <1>18 DEF LInv

-----------------------------------------------------------------------------
(* The theorems.                                                           *)

LEMMA LInitInv == LInit => LInv
<1> SUFFICES ASSUME LInit PROVE LInv
  OBVIOUS
<1> USE DEF LInit, WorkerInit, DiskInit, ChannelsInit
<1>1. MFInv
  BY InitInv DEF MFInit
<1>2. FInv
  BY FInitInv DEF FInit
<1>3. \A s \in Stripes : FETCHED \notin FreshHeaders[s]
  BY FlagsDistinct DEF FreshHeaders
<1>4. MarksSecured
  BY <1>3 DEF MarksSecured, FlusherFresh
<1>5. \A s \in Stripes : stripe_fetched_if_needed(s) <=> s \notin SourceStripes
  BY FlagsDistinct DEF SharedInit, LoadedFetchStates, FreshHeaders, stripe_fetched_if_needed,
                       NotFetched, Fetched, NoSource
<1>6. CopiesPresent
  BY <1>5, DataDistinct, StripeAssumption DEF CopiesPresent
<1>7. WritesPublished
  BY DataDistinct DEF WritesPublished
<1>8. DOMAIN base_io = {} /\ DOMAIN image_io = {}
  OBVIOUS
<1>9. \A r : ~Waits(r) /\ ~Rejected(r)
  BY DEF Waits, Rejected
<1>10. OnePlace
  BY <1>8, <1>9 DEF OnePlace, PlacedOnce, OwnRequests, NewRequest
<1>11. RequestsSound
  BY <1>8, <1>9 DEF RequestsSound, RequestSound, NewRequest
<1>12. ChannelTypeOK
  <2>1. NewRequest \in RequestState
    BY StripeAssumption DEF NewRequest, RequestState, Stripes, Flush
  <2>2. owner \in [Requests -> Channels]
    BY ChannelAssumption
  <2>3. \A c \in Channels : queued_rw_requests[c] \in Seq(Requests)
    OBVIOUS
  <2> QED BY <1>8, <2>1, <2>2, <2>3 DEF ChannelTypeOK, Datum
<1>13. LTypeOK
  <2>1. FirstPc(FreshHeaders) \in WorkerPc
    BY DEF FirstPc, WorkerPc
  <2>2. BgTypeOK
    <3>1. bgworker_ch \in Seq(BgWorkerRequest)
      BY EmptySeq
    <3> QED BY <2>1, <3>1 DEF BgTypeOK
  <2> QED BY <1>1, <1>2, <1>12, <2>2, DeviceAssumption DEF LTypeOK, MFInv, FInv
<1> QED BY <1>1, <1>2, <1>4, <1>6, <1>7, <1>10, <1>11, <1>13 DEF LInv

LEMMA LStutterInv == LInv /\ UNCHANGED lazyVars => LInv'
<1> SUFFICES ASSUME LInv, UNCHANGED lazyVars PROVE LInv'
  OBVIOUS
<1> USE DEF lazyVars
<1>1. FetcherIdle /\ UNCHANGED <<flusherVars, metaDevVars>>
  BY DEF allWorker, mediaVars, FetcherIdle, fetcherVars, metaDevVars, allIoVars
<1>2. BgTypeOK' /\ UNCHANGED boundVars /\ UNCHANGED allGuest
  BY DEF LInv, LTypeOK, BgTypeOK, allWorker, bgVars
<1>3. faults' \in 0 .. MaxFaults /\ power_losses' \in 0 .. MaxPowerLosses
  BY <1>2 DEF boundVars, LInv, LTypeOK
<1> QED BY <1>1, <1>2, <1>3, PcStep, BackgroundInv

LEMMA LNextInv == LInv /\ [LNext]_lazyVars => LInv'
<1> SUFFICES ASSUME LInv, LNext PROVE LInv'
  BY LStutterInv
<1>1. 0 \in Stripes
  BY StripeAssumption DEF Stripes
<1> QED BY <1>1, IssueInv, PollInv, GuestIoStepInv, WorkerStepInv, StopWorkerInv, DeviceStepInv,
           PowerLossInv DEF LNext

\* LInv is an invariant of the whole device, whatever its threads, its worker,
\* its devices and power losses do.
THEOREM LazyInvariant == LSpec => []LInv
<1>1. LInit => LInv
  BY LInitInv
<1>2. LInv /\ [LNext]_lazyVars => LInv'
  BY LNextInv
<1> QED BY <1>1, <1>2, PTL DEF LSpec

\* The device's type invariant.
THEOREM LazyTypeCorrect == LSpec => []LTypeOK
<1>1. LInv => LTypeOK
  BY DEF LInv
<1> QED BY <1>1, LazyInvariant, PTL

\* What the flusher and the fetcher promise on their own they promise inside the
\* device too, where the guest, the worker's loop and power losses drive them:
\* what the I/O threads are told is durable, a finished fetch is on the medium,
\* and the source is let go only when no stripe needs it.
THEOREM ComponentsStaySound ==
    LSpec => [](PublishedIsDurable /\ FinishedIsDurable /\ DisconnectedMeansFetched)
<1>1. LInv => PublishedIsDurable /\ FinishedIsDurable /\ DisconnectedMeansFetched
  BY DEF LInv, MFInv, FInv, FinishedIsDurable, FetchDataSound
<1> QED BY <1>1, LazyInvariant, PTL

\* The comment at metadata_flags::FETCHED holds on the media at every moment, and
\* the fetcher's write of a stripe never meets one of the guest.
THEOREM CopiedStaysSafe == LSpec => []CopiedSafely
<1>1. LInv => FetchedMeansPresent
  <2> SUFFICES ASSUME LInv, NEW s \in SourceStripes, FETCHED \in meta_durable[s]
               PROVE  disk_durable[s] # BlankData
    BY DEF FetchedMeansPresent
  <2>1. s \in Stripes
    BY StripeAssumption
  <2>2. Secured(s)
    BY <2>1 DEF LInv, MarksSecured
  <2> QED BY <2>1, <2>2, SecuredData, DataDistinct DEF LInv, CopiesPresent
<1>2. LInv => FetchExcludesGuestWrites
  <2> SUFFICES ASSUME LInv, NEW s \in DOMAIN target_io, NEW r \in DOMAIN base_io,
                      req[r].kind = Out, s \in Covered(r)
               PROVE  FALSE
    BY DEF FetchExcludesGuestWrites
  <2>1. ~stripe_fetched_if_needed(s)
    BY DEF LInv, FInv, IoMatchesState, TrackedUnfetched
  <2>2. stripe_fetched_if_needed(s)
    BY DEF LInv, LTypeOK, ChannelTypeOK, RequestsSound, RequestSound, Out, Flush
  <2> QED BY <2>1, <2>2
<1> QED BY <1>1, <1>2, LazyInvariant, PTL DEF CopiedSafely

\* Every open request is in exactly one place, once, and with its own thread:
\* none is answered twice, none is forgotten.
THEOREM RequestsStayPlaced == LSpec => []OnePlace
<1>1. LInv => OnePlace
  BY DEF LInv
<1> QED BY <1>1, LazyInvariant, PTL

\* With track_written, the archive command that reads the media of the stopped
\* device takes what the device itself would show after a restart.
THEOREM ArchiverStaysRight == LSpec => []ArchiverSeesTheDevice
<1>1. LInv => ArchiverSeesTheDevice
  <2> SUFFICES ASSUME LInv, TrackWritten, NEW s \in Stripes
               PROVE  IF ArchiverSkips(s) THEN Medium(s) = BlankData
                      ELSE meta_durable[s] # {HAS_SOURCE, WRITTEN} => ArchiverReads(s) = Medium(s)
    BY DEF ArchiverSeesTheDevice
  <2>1. meta_durable[s] \subseteq {FETCHED, WRITTEN, HAS_SOURCE}
    BY DEF LInv, MFInv, MFTypeOK, Headers, Header, Flags
  <2>2. HAS_SOURCE \in meta_durable[s] <=> s \in SourceStripes
    BY DEF LInv, MFInv, SourceFlagsKept
  <2>3. CASE ArchiverSkips(s)
    <3>1. WRITTEN \notin meta_durable[s] /\ HAS_SOURCE \notin meta_durable[s]
      BY <2>3 DEF ArchiverSkips
    <3>2. ~stripe_written(s)
      BY <3>1 DEF LInv, MFInv, PublishedIsDurable, Published
    <3>3. disk_durable[s] \notin Requests
      BY <3>2 DEF LInv, WritesPublished
    <3>4. disk_durable[s] # SourceData
      BY <2>2, <3>1 DEF LInv, CopiesPresent
    <3>5. disk_durable[s] \in Datum
      BY DEF LInv, LTypeOK, ChannelTypeOK
    <3> QED BY <2>3, <3>1, <3>3, <3>4, <3>5 DEF Datum, Medium
  <2>4. CASE ~ArchiverSkips(s)
    <3>1. WRITTEN \in meta_durable[s] \/ HAS_SOURCE \in meta_durable[s]
      BY <2>4 DEF ArchiverSkips
    <3>2. ASSUME meta_durable[s] # {HAS_SOURCE, WRITTEN} PROVE ArchiverReads(s) = Medium(s)
      <4>1. ~(/\ WRITTEN \in meta_durable[s] /\ HAS_SOURCE \in meta_durable[s]
              /\ FETCHED \notin meta_durable[s])
        BY <2>1, <3>2
      <4> QED BY <3>1, <4>1 DEF ArchiverReads, Medium
    <3> QED BY <2>4, <3>2
  <2> QED BY <2>3, <2>4
<1> QED BY <1>1, LazyInvariant, PTL

\* With track_written, the base device never holds a guest's write in a stripe
\* whose WRITTEN bit is not durable, and the archive command sees the device.
THEOREM WritesStayMarked == LSpec => []TrackedWritesAreMarked
<1>1. LInv => MarkedBeforeWritten
  BY DEF LInv, WritesPublished, MFInv, PublishedIsDurable, Published, MarkedBeforeWritten
<1> QED BY <1>1, LazyInvariant, ArchiverStaysRight, PTL DEF TrackedWritesAreMarked

-----------------------------------------------------------------------------
(* The lazy device implements GuestDisk.  The refinement mapping shows a    *)
(* stripe as the I/O threads would read it (Content) and as a restart would *)
(* find it (Medium).                                                        *)
(*                                                                          *)
(* Every step of the background maps to a destage of some stripes, often    *)
(* of none: publishing FETCHED, or writing it to the metadata device,       *)
(* changes neither view because the stripe is Secured by then.  Every step  *)
(* of an I/O thread or of a device on a guest's request maps to the step    *)
(* of GuestDisk with the same meaning, and a power loss to a power loss.    *)

\* The two views of a stripe, by what LInv says of the metadata.
LEMMA MediumView ==
    ASSUME LInv, NEW s \in Stripes
    PROVE  Medium(s) = IF s \in SourceStripes /\ FETCHED \notin meta_durable[s]
                       THEN SourceData ELSE disk_durable[s]
BY DEF Medium, LInv, MFInv, SourceFlagsKept

LEMMA ContentView ==
    ASSUME LInv, NEW s \in Stripes
    PROVE  /\ s \notin SourceStripes => stripe_fetched_if_needed(s)
           /\ s \in SourceStripes /\ FETCHED \notin meta_durable[s] => ~stripe_fetched_if_needed(s)
           /\ FETCHED \in meta_durable[s] => Secured(s)
BY DEF LInv, FInv, NoSourceExact, MarksSecured, MFInv, PublishedIsDurable, Published,
       stripe_fetched_if_needed

\* A flush of the base device brings the medium to what reads return.
LEMMA FlushedView ==
    ASSUME LInv, NEW s \in Stripes
    PROVE  Content(s) = IF s \in SourceStripes /\ FETCHED \notin meta_durable[s]
                        THEN SourceData ELSE disk_cache[s]
<1>1. CASE stripe_fetched_if_needed(s)
  BY <1>1, ContentView DEF Content
<1>2. CASE ~stripe_fetched_if_needed(s) /\ FETCHED \in meta_durable[s]
  <2>1. disk_cache[s] = SourceData
    BY <1>2, ContentView, SecuredData DEF LInv
  <2> QED BY <1>2, <2>1 DEF Content
<1>3. CASE ~stripe_fetched_if_needed(s) /\ FETCHED \notin meta_durable[s]
  BY <1>3, ContentView DEF Content
<1> QED BY <1>1, <1>2, <1>3

\* A step of the background leaves the medium of a stripe as it was, or brings
\* it to what reads return.
LEMMA BackgroundMedium ==
    ASSUME LInv, BackgroundStep, LInv', NEW s \in Stripes
    PROVE  Medium(s)' \in {Medium(s), Content(s)}
<1>1. /\ KeepsStripe(s) /\ disk_durable'[s] \in {disk_durable[s], disk_cache[s]}
      /\ FETCHED \in meta_durable'[s] => Secured(s)
  BY DEF BackgroundStep, DiskStep, MarksKept
<1>2. Medium(s)' = IF s \in SourceStripes /\ FETCHED \notin meta_durable'[s]
                   THEN SourceData ELSE disk_durable'[s]
  BY DEF Medium, LInv, MFInv, SourceFlagsKept
<1>3. /\ Medium(s) = IF s \in SourceStripes /\ FETCHED \notin meta_durable[s]
                     THEN SourceData ELSE disk_durable[s]
      /\ Content(s) = IF s \in SourceStripes /\ FETCHED \notin meta_durable[s]
                      THEN SourceData ELSE disk_cache[s]
  BY MediumView, FlushedView
<1>4. CASE FETCHED \in meta_durable[s] <=> FETCHED \in meta_durable'[s]
  BY <1>1, <1>2, <1>3, <1>4
<1>5. CASE s \in SourceStripes /\ FETCHED \notin meta_durable[s] /\ FETCHED \in meta_durable'[s]
  <2>1. disk_cache[s] = SourceData /\ disk_durable[s] = SourceData
    BY <1>1, <1>5, ContentView, SecuredData DEF LInv
  <2> QED BY <1>1, <1>2, <1>3, <1>5, <2>1
<1>6. CASE s \in SourceStripes /\ FETCHED \in meta_durable[s] /\ FETCHED \notin meta_durable'[s]
  <2>1. ~stripe_fetched_if_needed(s)'
    BY <1>6 DEF LInv, FInv, NoSourceExact, MFInv, PublishedIsDurable, Published,
                stripe_fetched_if_needed
  <2>2. disk_cache[s] = SourceData /\ disk_durable[s] = SourceData
    BY <1>1, <1>6, <2>1, ContentView, SecuredData DEF LInv, KeepsStripe
  <2> QED BY <1>2, <1>3, <1>6, <2>2
<1>7. CASE s \notin SourceStripes
  BY <1>1, <1>2, <1>3, <1>7
<1> QED BY <1>4, <1>5, <1>6, <1>7

-----------------------------------------------------------------------------
(* The steps.                                                              *)

\* The worker, the shutdown request and the devices work in the background.
LEMMA WorkerInBackground ==
    ASSUME LInv, WorkerStep
    PROVE  BackgroundStep
<1>1. CASE ProcessRequest
  BY <1>1, ProcessRequestStep
<1>2. CASE ReceiveDone \/ AutofetchStep \/ FetcherLoopDone \/ TakeFinishedFetches \/ DisconnectStep
  BY <1>2, LoopStep, AutofetchUpdateStep, TakeFinishedStep, DisconnectUpdateStep
<1>3. ASSUME NEW ok \in BOOLEAN,
             \/ StartFetchStep(ok) \/ StartWritesStep(ok) \/ PollChannelStep(ok)
             \/ \E s \in Stripes : PollSourceStep(s, ok) \/ PollTargetStep(s, ok)
      PROVE  BackgroundStep
  BY <1>3, FetchUpdateStep, StartWritesUpdateStep, PollChannelUpdateStep
<1> QED BY <1>1, <1>2, <1>3 DEF WorkerStep

LEMMA StopInBackground ==
    ASSUME LInv, StopWorker
    PROVE  BackgroundStep
<1>1. FetcherIdle /\ UNCHANGED <<flusherVars, metaDevVars>>
  BY DEF StopWorker, FetcherIdle, fetcherVars, metaDevVars, allIoVars, mediaVars
<1> QED BY <1>1, PcStep

LEMMA DeviceInBackground ==
    ASSUME LInv, NEW s \in Stripes,
           SourceStep(s) \/ TargetStep(s) \/ MetaStep(s) \/ WriteBackStep
    PROVE  BackgroundStep
BY SourceDeviceStep, TargetDeviceStep, MetaDeviceStep, WriteBackDeviceStep

LEMMA BackgroundRefines ==
    ASSUME LInv, BackgroundStep, LInv', UNCHANGED req
    PROVE  Disk!GNext
<1> DEFINE S == {s \in Stripes : Medium(s)' # Medium(s)}
<1>1. \A s \in Stripes : Content(s)' = Content(s)
  BY BackgroundCore
<1>2. \A s \in Stripes : Medium(s)' = IF s \in S THEN Content(s) ELSE Medium(s)
  BY BackgroundMedium
<1>3. S \in SUBSET Stripes
  OBVIOUS
<1> HIDE DEF S
<1>4. Disk!Destage(S)
  BY <1>1, <1>2, <1>3 DEF Disk!Destage
<1> QED BY <1>3, <1>4 DEF Disk!GNext

\* A step of an I/O thread: the data of the device stays as it is.
LEMMA ViewKept ==
    ASSUME UNCHANGED <<sharedVars, meta_durable, disk_cache, disk_durable>>
    PROVE  \A s : Content(s)' = Content(s) /\ Medium(s)' = Medium(s)
BY DEF Content, Medium, stripe_fetched_if_needed, sharedVars

LEMMA IssueRefines ==
    ASSUME LInv, NEW c \in Channels, NEW r \in Requests, Issue(c, r)
    PROVE  Disk!GNext
<1>1. PICK kind \in {In, Out, Flush}, first \in Stripes, last \in Stripes :
          Open(c, r, kind, first, last)
  BY IssueFacts
<1>2. \A s \in Stripes : Content(s)' = Content(s) /\ Medium(s)' = Medium(s)
  BY ViewKept DEF Issue, WorkerUnchangedButChannel, mediaVars, diskVars
<1>3. Disk!Issue(r, kind, first, last)
  <2>1. [s \in Stripes |-> IF kind = "In" /\ s \in first .. last
                           THEN {[t \in Stripes |-> Content(t)][s]} ELSE {}]
        = [s \in Stripes |-> IF kind = In /\ s \in first .. last
                             THEN {Content(s)} ELSE {}]
    BY DEF In
  <2>2. req[r].st = "new"
    BY DEF Issue
  <2> QED BY <1>1, <1>2, <2>1, <2>2 DEF Open, Disk!Issue
<1> QED BY <1>1, <1>3 DEF Disk!GNext, In, Out, Flush

LEMMA PollRefines ==
    ASSUME LInv, NEW c \in Channels, PollStep(c)
    PROVE  Disk!GNext
<1>1. PICK n \in 0 .. Len(queued_rw_requests[c]), submitted \in BOOLEAN : Poll(c, n, submitted)
  BY DEF PollStep
<1>2. \A s \in Stripes : Content(s)' = Content(s) /\ Medium(s)' = Medium(s)
  BY ViewKept DEF PollStep, WorkerUnchangedButChannel, mediaVars, diskVars
<1> DEFINE good == PolledOk(c)
           bad  == PolledErr(c, n, submitted)
<1>3. good \subseteq Requests /\ bad \subseteq Requests
  <2>1. /\ DOMAIN base_io \subseteq Requests /\ DOMAIN image_io \subseteq Requests
        /\ finished_requests[c] \subseteq Requests
    BY DEF LInv, LTypeOK, ChannelTypeOK
  <2>2. Taken(c, n) \subseteq Requests
    BY <1>1, PollTakes DEF Poll
  <2> QED BY <2>1, <2>2 DEF PolledOk, PolledErr, Ended, Mine, ToSubmit
<1>4. \A r \in good \cup bad : req[r].st = "open"
  BY <1>1, <1>3, PollFacts DEF Answered
<1>5. \A r \in good : req[r].done
  BY <1>3 DEF PolledOk, Ended, Mine, LInv, RequestsSound, RequestSound
<1>6. req' = [r \in Requests |->
                 IF r \in good THEN [req[r] EXCEPT !.st = "ok"]
                 ELSE IF r \in bad THEN [req[r] EXCEPT !.st = "err"] ELSE req[r]]
  <2>1. req' = [r \in Requests |->
                   IF r \in good THEN [req[r] EXCEPT !.st = "ok"]
                   ELSE IF r \in good \cup bad THEN [req[r] EXCEPT !.st = "err"] ELSE req[r]]
    BY <1>1 DEF Poll
  <2> HIDE DEF good, bad
  <2> QED BY <2>1
<1> HIDE DEF good, bad
<1>7. Disk!Answer(good, bad)
  BY <1>2, <1>4, <1>5, <1>6 DEF Disk!Answer, Disk!Open
<1> QED BY <1>3, <1>7 DEF Disk!GNext

\* Every value a read returns is one its stripe had while the read was open.
LEMMA ReadRefines ==
    ASSUME LInv, NEW r \in Requests, req[r].st = "open", req[r].kind = In, ~req[r].done,
           NEW at, \A s \in Covered(r) : at[s] \in req[r].seen[s],
           req' = [req EXCEPT ![r].done = TRUE,
                              ![r].val = [s \in Stripes |-> IF s \in Covered(r) THEN at[s]
                                                            ELSE req[r].val[s]]],
           \A s \in Stripes : Content(s)' = Content(s) /\ Medium(s)' = Medium(s)
    PROVE  Disk!GNext
<1>1. PICK val : val = [s \in Covered(r) |-> at[s]]
  OBVIOUS
<1>2. /\ val \in [Covered(r) -> UNION {req[r].seen[s] : s \in Covered(r)}]
      /\ \A s \in Covered(r) : val[s] \in req[r].seen[s]
  BY <1>1
<1>3. [s \in Stripes |-> IF s \in Covered(r) THEN val[s] ELSE req[r].val[s]]
      = [s \in Stripes |-> IF s \in Covered(r) THEN at[s] ELSE req[r].val[s]]
  BY <1>1
<1>4. req' = [req EXCEPT ![r].done = TRUE,
                         ![r].val = [s \in Stripes |-> IF s \in Covered(r) THEN val[s] ELSE @[s]]]
  BY <1>3
<1>5. Disk!ServeRead(r)
  <2>1. \E v \in [Covered(r) -> UNION {req[r].seen[s] : s \in Covered(r)}] :
            /\ \A s \in Covered(r) : v[s] \in req[r].seen[s]
            /\ req' = [req EXCEPT ![r].done = TRUE,
                                  ![r].val = [s \in Stripes |-> IF s \in Covered(r) THEN v[s]
                                                                ELSE @[s]]]
    BY <1>2, <1>4
  <2>2. UNCHANGED <<[s \in Stripes |-> Content(s)], [s \in Stripes |-> Medium(s)]>>
    OBVIOUS
  <2> QED BY <2>1, <2>2 DEF Disk!ServeRead, Disk!Open, Disk!Range, Covered, In
<1> QED BY <1>5 DEF Disk!GNext

\* A write takes effect in the stripes it reached, and every open read of them
\* may see it.
LEMMA WriteRefines ==
    ASSUME LInv, NEW r \in Requests, req[r].st = "open", req[r].kind = Out, ~req[r].done,
           NEW S, S \subseteq Covered(r),
           req' = [Witnessed(S, r) EXCEPT ![r].done = (S = Covered(r))],
           \A s \in Stripes : /\ Content(s)' = IF s \in S THEN r ELSE Content(s)
                              /\ Medium(s)' = Medium(s)
    PROVE  Disk!GNext
<1>1. ChannelTypeOK
  BY DEF LInv, LTypeOK
<1>2. /\ \A q \in Requests : Covered(q) \subseteq Stripes /\ Disk!Range(q) = Covered(q)
      /\ S \subseteq Stripes
  BY <1>1, CoveredStripes DEF Covered, Disk!Range
<1>3. PICK view : view = [s \in Stripes |-> IF s \in S THEN r ELSE Content(s)]
  OBVIOUS
<1>4. [s \in Stripes |-> Content(s)'] = view
  BY <1>3
<1>5. ASSUME NEW q \in Requests, req[q].st = "open", req[q].kind = In
      PROVE  [s \in Stripes |-> IF s \in Covered(q) THEN req[q].seen[s] \cup {view[s]}
                                ELSE req[q].seen[s]]
             = [s \in Stripes |-> IF s \in S /\ s \in Covered(q) THEN req[q].seen[s] \cup {r}
                                  ELSE req[q].seen[s]]
  <2>1. \A s \in Covered(q) : Content(s) \in req[q].seen[s]
    BY <1>5 DEF LInv, RequestsSound, RequestSound
  <2>2. ASSUME NEW s \in Stripes
        PROVE  (IF s \in Covered(q) THEN req[q].seen[s] \cup {view[s]} ELSE req[q].seen[s])
               = (IF s \in S /\ s \in Covered(q) THEN req[q].seen[s] \cup {r}
                  ELSE req[q].seen[s])
    <3>1. view[s] = IF s \in S THEN r ELSE Content(s)
      BY <1>3
    <3>2. CASE s \in Covered(q) /\ s \notin S
      BY <2>1, <3>1, <3>2
    <3>3. CASE s \notin Covered(q) \/ s \in S
      BY <3>1, <3>3
    <3> QED BY <3>2, <3>3
  <2> QED BY <2>2
<1>6. Disk!SeenAfter(view) = Witnessed(S, r)
  <2> DEFINE A(q) == IF req[q].st = "open" /\ req[q].kind = "In"
                     THEN [req[q] EXCEPT !.seen =
                             [s \in Stripes |-> IF s \in Covered(q)
                                                THEN req[q].seen[s] \cup {view[s]}
                                                ELSE req[q].seen[s]]]
                     ELSE req[q]
             B(q) == IF req[q].st = "open" /\ req[q].kind = In
                     THEN [req[q] EXCEPT !.seen =
                             [s \in Stripes |-> IF s \in S /\ s \in Covered(q)
                                                THEN req[q].seen[s] \cup {r}
                                                ELSE req[q].seen[s]]]
                     ELSE req[q]
  <2>1. Disk!SeenAfter(view) = [q \in Requests |-> A(q)]
    BY <1>2 DEF Disk!SeenAfter, Disk!Open
  <2>2. Witnessed(S, r) = [q \in Requests |-> B(q)]
    BY DEF Witnessed
  <2>3. \A q \in Requests : A(q) = B(q)
    BY <1>5 DEF In
  <2> HIDE DEF A, B
  <2> QED BY <2>1, <2>2, <2>3
<1>7. Disk!ServeWrite(r, S)
  <2>1. [s \in Stripes |-> Content(s)'] =
           [s \in Stripes |-> IF s \in S THEN r ELSE [t \in Stripes |-> Content(t)][s]]
    BY <1>3, <1>4
  <2>2. req' = [Disk!SeenAfter([s \in Stripes |-> Content(s)']) EXCEPT ![r].done = (S = Covered(r))]
    BY <1>4, <1>6
  <2>3. Disk!Range(r) = Covered(r)
    BY <1>2
  <2>4. [s \in Stripes |-> Medium(s)'] = [s \in Stripes |-> Medium(s)]
    OBVIOUS
  <2> QED BY <2>1, <2>2, <2>3, <2>4 DEF Disk!ServeWrite, Disk!Open, Out
<1> QED BY <1>2, <1>7 DEF Disk!GNext

LEMMA BaseIoRefines ==
    ASSUME LInv, NEW r \in Requests, NEW result \in {"ok", "err"}, NEW S \in SUBSET Stripes,
           BaseIoDone(r, result, S), UNCHANGED <<sharedVars, meta_durable>>
    PROVE  Disk!GNext \/ UNCHANGED Disk!diskSpecVars
<1>1. r \in DOMAIN base_io /\ base_io[r] = "none"
  BY DEF BaseIoDone
<1>2. req[r].st = "open" /\ ~req[r].done
  BY <1>1 DEF LInv, OnePlace, PlacedOnce, RequestsSound, RequestSound
<1>3. req \in [Requests -> RequestState]
  BY DEF LInv, LTypeOK, ChannelTypeOK
<1>4. CASE req[r].kind = In /\ req' = Filled(r, LAMBDA s : disk_cache[s]) /\ UNCHANGED diskVars
  <2>1. \A s \in Stripes : Content(s)' = Content(s) /\ Medium(s)' = Medium(s)
    BY <1>4, ViewKept DEF diskVars
  <2>2. \A s \in Covered(r) : disk_cache[s] \in req[r].seen[s]
    BY <1>1, <1>2, <1>4 DEF LInv, RequestsSound, RequestSound, Content, In, Flush
  <2>3. req' = [req EXCEPT ![r].done = TRUE,
                           ![r].val = [s \in Stripes |-> IF s \in Covered(r) THEN disk_cache[s]
                                                         ELSE req[r].val[s]]]
    <3>1. PICK rec \in RequestState : rec = req[r]
      BY <1>3
    <3> QED BY <1>3, <1>4, <3>1 DEF Filled, RequestState
  <2> QED BY <1>2, <1>4, <2>1, <2>2, <2>3, ReadRefines
<1>5. CASE /\ req[r].kind = Out /\ S \subseteq Covered(r)
           /\ disk_cache' = [s \in Stripes |-> IF s \in S THEN r ELSE disk_cache[s]]
           /\ req' = [Witnessed(S, r) EXCEPT ![r].done = (S = Covered(r))]
           /\ UNCHANGED disk_durable
  <2>1. \A s \in S : stripe_fetched_if_needed(s)
    BY <1>1, <1>5 DEF LInv, RequestsSound, RequestSound, Out, Flush
  <2>2. \A s \in Stripes : /\ Content(s)' = IF s \in S THEN r ELSE Content(s)
                           /\ Medium(s)' = Medium(s)
    BY <1>5, <2>1 DEF Content, Medium, stripe_fetched_if_needed, sharedVars
  <2> QED BY <1>2, <1>5, <2>2, WriteRefines
<1>6. CASE /\ req[r].kind = Flush /\ disk_durable' = disk_cache
           /\ req' = [req EXCEPT ![r].done = TRUE] /\ UNCHANGED disk_cache
  <2>1. \A s \in Stripes : Content(s)' = Content(s)
    BY <1>6 DEF Content, stripe_fetched_if_needed, sharedVars
  <2>2. ASSUME NEW s \in Stripes PROVE Medium(s)' = Content(s)
    <3>1. HAS_SOURCE \in meta_durable[s] <=> s \in SourceStripes
      BY DEF LInv, MFInv, SourceFlagsKept
    <3> QED BY <1>6, <3>1, FlushedView DEF Medium
  <2>3. Disk!ServeFlush(r)
    BY <1>2, <1>6, <2>1, <2>2 DEF Disk!ServeFlush, Disk!Open, Flush
  <2> QED BY <2>3 DEF Disk!GNext
<1>7. CASE UNCHANGED <<req, diskVars>>
  <2>1. \A s \in Stripes : Content(s)' = Content(s) /\ Medium(s)' = Medium(s)
    BY <1>7, ViewKept DEF diskVars
  <2> QED BY <1>7, <2>1 DEF Disk!diskSpecVars
<1> QED BY <1>4, <1>5, <1>6, <1>7 DEF BaseIoDone

LEMMA ImageIoRefines ==
    ASSUME LInv, NEW r \in Requests, NEW result \in {"ok", "err"}, ImageIoDone(r, result),
           UNCHANGED <<sharedVars, meta_durable, diskVars>>
    PROVE  Disk!GNext \/ UNCHANGED Disk!diskSpecVars
<1>1. r \in DOMAIN image_io /\ image_io[r] = "none"
  BY DEF ImageIoDone
<1>2. /\ req[r].st = "open" /\ req[r].kind = In /\ ~req[r].done
      /\ \A s \in Covered(r) : SourceData \in req[r].seen[s]
  BY <1>1 DEF LInv, OnePlace, PlacedOnce, RequestsSound, RequestSound
<1>3. \A s \in Stripes : Content(s)' = Content(s) /\ Medium(s)' = Medium(s)
  BY ViewKept DEF diskVars
<1>4. CASE result = "ok"
  <2>1. PICK at : at = [s \in Stripes |-> SourceData]
    OBVIOUS
  <2>2. Covered(r) \subseteq Stripes /\ req \in [Requests -> RequestState]
    BY CoveredStripes DEF LInv, LTypeOK, ChannelTypeOK
  <2>3. \A s \in Covered(r) : at[s] \in req[r].seen[s]
    BY <1>2, <2>1, <2>2
  <2>4. PICK rec \in RequestState : rec = req[r]
    BY <2>2
  <2>5. [s \in Stripes |-> IF s \in Covered(r) THEN at[s] ELSE req[r].val[s]]
        = [s \in Stripes |-> IF s \in Covered(r) THEN SourceData ELSE req[r].val[s]]
    BY <2>1
  <2>6. req' = [req EXCEPT ![r].done = TRUE,
                           ![r].val = [s \in Stripes |-> IF s \in Covered(r) THEN at[s]
                                                         ELSE req[r].val[s]]]
    <3>1. req' = [req EXCEPT ![r].done = TRUE,
                             ![r].val = [s \in Stripes |-> IF s \in Covered(r) THEN SourceData
                                                           ELSE req[r].val[s]]]
      BY <1>4, <2>2, <2>4 DEF ImageIoDone, Filled, RequestState
    <3> QED BY <2>5, <3>1
  <2> QED BY <1>2, <1>3, <2>3, <2>6, ReadRefines
<1>5. CASE result = "err"
  BY <1>3, <1>5 DEF ImageIoDone, Disk!diskSpecVars
<1> QED BY <1>4, <1>5

\* A restart shows the medium, published or not.
LEMMA PowerLossRefines ==
    ASSUME LInv, PowerLoss
    PROVE  Disk!GNext
<1>1. PICK h : h = meta_durable
  OBVIOUS
<1>2. /\ SharedLoad(h) /\ meta_durable' = h
      /\ disk_cache' = disk_durable /\ disk_durable' = disk_durable
  BY <1>1 DEF PowerLoss, WorkerReload, MetaReload
<1>3. ASSUME NEW s \in Stripes PROVE Content(s)' = Medium(s) /\ Medium(s)' = Medium(s)
  <2>1. HAS_SOURCE \in h[s] <=> s \in SourceStripes
    BY <1>1 DEF LInv, MFInv, SourceFlagsKept
  <2>2. stripe_fetched_if_needed(s)' <=> s \notin SourceStripes \/ FETCHED \in h[s]
    BY <1>2, <2>1, LoadedStripe
  <2> QED BY <1>1, <1>2, <2>1, <2>2 DEF Content, Medium
<1>4. Disk!LosePower
  BY <1>3 DEF Disk!LosePower, Disk!Open, PowerLoss
<1> QED BY <1>4 DEF Disk!GNext

-----------------------------------------------------------------------------
(* The theorem.                                                            *)

LEMMA InitRefines == LInit => Disk!GInit
<1> SUFFICES ASSUME LInit PROVE Disk!GInit
  OBVIOUS
<1>1. ASSUME NEW s \in Stripes
      PROVE  /\ Content(s) = IF s \in SourceStripes THEN SourceData ELSE BlankData
             /\ Medium(s) = IF s \in SourceStripes THEN SourceData ELSE BlankData
  <2>1. /\ stripe_fetched_if_needed(s) <=> s \notin SourceStripes
        /\ disk_cache[s] = BlankData /\ disk_durable[s] = BlankData
        /\ meta_durable = FreshHeaders
    BY FlagsDistinct DEF LInit, WorkerInit, DiskInit, SharedInit, LoadedFetchStates, FreshHeaders,
                         stripe_fetched_if_needed, NotFetched, Fetched, NoSource
  <2>2. FETCHED \notin FreshHeaders[s] /\ (HAS_SOURCE \in FreshHeaders[s] <=> s \in SourceStripes)
    BY FlagsDistinct DEF FreshHeaders
  <2> QED BY <2>1, <2>2 DEF Content, Medium
<1>2. \A r \in Requests : req[r].st = "new"
  BY DEF LInit, ChannelsInit, NewRequest
<1> QED BY <1>1, <1>2 DEF Disk!GInit

LEMMA NextRefines ==
    ASSUME LInv, LInv', [LNext]_lazyVars
    PROVE  Disk!GNext \/ UNCHANGED Disk!diskSpecVars
<1>1. CASE UNCHANGED lazyVars
  <2>1. \A s : Content(s)' = Content(s) /\ Medium(s)' = Medium(s)
    BY <1>1, ViewKept DEF lazyVars, allWorker, mediaVars, diskVars
  <2> QED BY <1>1, <2>1 DEF Disk!diskSpecVars, lazyVars, allGuest
<1>2. CASE \E c \in Channels : (\E r \in Requests : Issue(c, r)) \/ PollStep(c)
  BY <1>2, IssueRefines, PollRefines
<1>3. ASSUME NEW r \in Requests, GuestIoStep(r)
      PROVE  Disk!GNext \/ UNCHANGED Disk!diskSpecVars
  <2>1. UNCHANGED <<sharedVars, meta_durable>>
    BY <1>3 DEF GuestIoStep, allWorker
  <2>2. PICK result \in {"ok", "err"} :
            \/ \E S \in SUBSET Stripes : BaseIoDone(r, result, S)
            \/ ImageIoDone(r, result) /\ UNCHANGED diskVars
    BY <1>3 DEF GuestIoStep
  <2> QED BY <2>1, <2>2, BaseIoRefines, ImageIoRefines
<1>4. CASE \/ WorkerStep \/ StopWorker \/ WriteBackStep
           \/ \E s \in Stripes : SourceStep(s) \/ TargetStep(s) \/ MetaStep(s)
  <2>1. UNCHANGED req
    BY <1>4 DEF WorkerStep, StopWorker, WriteBackStep, SourceStep, TargetStep, MetaStep, allGuest
  <2>2. BackgroundStep
    <3>1. 0 \in Stripes
      BY StripeAssumption DEF Stripes
    <3> QED BY <1>4, <3>1, WorkerInBackground, StopInBackground, DeviceInBackground
  <2> QED BY <2>1, <2>2, BackgroundRefines
<1>5. CASE PowerLoss
  BY <1>5, PowerLossRefines
<1> QED BY <1>1, <1>2, <1>3, <1>4, <1>5 DEF LNext

\* With all its background copying, failures and restarts, the lazy device
\* behaves towards the guest as a plain disk that held the source's data from
\* the start.
THEOREM LazyRefinesGuestDisk == LSpec => ImplementsGuestDisk
<1>1. LInit => Disk!GInit
  BY InitRefines
<1>2. LInv /\ LInv' /\ [LNext]_lazyVars => [Disk!GNext]_(Disk!diskSpecVars)
  BY NextRefines
<1> QED BY <1>1, <1>2, LazyInvariant, PTL DEF LSpec, ImplementsGuestDisk, Disk!GSpec
=============================================================================
