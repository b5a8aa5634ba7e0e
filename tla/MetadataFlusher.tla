------------------------------ MODULE MetadataFlusher ------------------------------
(***************************************************************************)
(* The metadata flusher of the background worker (metadata_flusher.rs): it *)
(* sets the FETCHED and WRITTEN bits of stripe headers on the metadata     *)
(* device, each with a sector write followed by a flush, and publishes the *)
(* new header in the shared state only after the flush.                    *)
(*                                                                         *)
(* The metadata device is a disk with a volatile cache: a write changes    *)
(* the cache, a flush makes the whole cache durable, the disk may write a  *)
(* dirty sector back at any time, a power loss drops the cache.  A failed  *)
(* request may or may not have taken effect.  A sector is atomic.          *)
(*                                                                         *)
(* A handler is one action.  Its loop handles requests that touch disjoint *)
(* sectors, so its effect is given for all of them at once.  A submit that *)
(* fails is taken to have sent nothing, as the handler's comments say.     *)
(***************************************************************************)
EXTENDS SharedMetadataState, Sequences

CONSTANTS
    MaxConcurrentChanges,   \* MAX_CONCURRENT_CHANGES, the size of the pool
    MaxQueue                \* bound on queued_requests, for model checking

ASSUME FlusherAssumption ==
    MaxConcurrentChanges \in Nat \ {0} /\ MaxQueue \in Nat \ {0}

VARIABLES
    headers,                \* metadata.stripe_headers, the worker's own copy
    queued_requests,        \* requests [stripe_id, bit] not yet started
    header_updates,         \* stripe -> status of the update in progress
    sectors_being_updated,
    free_buffers,           \* buffers left in buffer_pool
    meta_io,                \* stripe -> its request on the metadata channel
    meta_cache,             \* headers as the metadata device returns them
    meta_durable            \* headers that survive a power loss

flusherVars == <<headers, queued_requests, header_updates,
                 sectors_being_updated, free_buffers>>
metaDevVars == <<meta_io, meta_cache, meta_durable>>
mfVars      == <<flusherVars, metaDevVars, sharedVars>>

Writing  == "Writing"
Flushing == "Flushing"

Header   == SUBSET Flags
Headers  == [Stripes -> Header]
Request  == [stripe_id : Stripes, bit : {FETCHED, WRITTEN}]
Update   == [stage : {Writing, Flushing}, header : Header,
             bit : {FETCHED, WRITTEN}, sector : Sectors, buffer : Headers]
IoState  == [op : {"write", "flush"}, result : {"none", "ok", "err"}]

FlusherFresh(h) ==
    /\ headers = h
    /\ queued_requests = <<>>
    /\ header_updates = <<>>
    /\ sectors_being_updated = {}
    /\ free_buffers = MaxConcurrentChanges
    /\ meta_io = <<>>

MFInit ==
    /\ FlusherFresh(FreshHeaders)
    /\ meta_cache = FreshHeaders
    /\ meta_durable = FreshHeaders
    /\ SharedInit(FreshHeaders)

flusher_busy == sectors_being_updated # {} \/ queued_requests # <<>>

-----------------------------------------------------------------------------
(* set_stripe_fetched and set_stripe_written.                              *)

EnqueueAll(requests) ==
    /\ queued_requests' = queued_requests \o requests
    /\ UNCHANGED <<headers, header_updates, sectors_being_updated, free_buffers>>

SetStripeFetched(s) ==
    EnqueueAll(<<[stripe_id |-> s, bit |-> FETCHED]>>)

SetStripeWritten(s) ==
    EnqueueAll(<<[stripe_id |-> s, bit |-> WRITTEN]>>)

-----------------------------------------------------------------------------
(* start_writes.                                                           *)

\* The requested bit is not set yet: the request needs a write.
Fresh(i) == queued_requests[i].bit \notin headers[queued_requests[i].stripe_id]

QueuedSector(i) == SectorOf(queued_requests[i].stripe_id)

\* What the loop tests before it pops request i: its sector is not being
\* updated, not even for a request started earlier in the same loop, and a
\* buffer is left.
CanPop(i) ==
    LET earlier == {j \in 1 .. (i - 1) : Fresh(j)} IN
    /\ QueuedSector(i) \notin sectors_being_updated
    /\ \A j \in earlier : QueuedSector(j) # QueuedSector(i)
    /\ Cardinality(earlier) < free_buffers

\* The loop pops the first n requests: it stops at the first it cannot pop.
StopsAfter(n) ==
    /\ \A i \in 1 .. n : CanPop(i)
    /\ n < Len(queued_requests) => ~CanPop(n + 1)

Started(n)           == {i \in 1 .. n : Fresh(i)}
StartedStripes(n)    == {queued_requests[i].stripe_id : i \in Started(n)}
StartedRequest(n, s) == CHOOSE i \in Started(n) : queued_requests[i].stripe_id = s
StartedBit(n, s)     == queued_requests[StartedRequest(n, s)].bit

HeadersAfterStart(n) ==
    [s \in Stripes |-> IF s \in StartedStripes(n)
                       THEN headers[s] \cup {StartedBit(n, s)} ELSE headers[s]]

\* Mutants of NewUpdate: the buffer is filled, or the header taken, before the
\* bit is set.
NewUpdateStaleBuffer(n, s) ==
    [stage |-> Writing, header |-> HeadersAfterStart(n)[s], bit |-> StartedBit(n, s),
     sector |-> SectorOf(s), buffer |-> headers]
NewUpdateStaleHeader(n, s) ==
    [stage |-> Writing, header |-> headers[s], bit |-> StartedBit(n, s),
     sector |-> SectorOf(s), buffer |-> HeadersAfterStart(n)]

NewUpdate(n, s) ==
    [stage |-> Writing, header |-> HeadersAfterStart(n)[s], bit |-> StartedBit(n, s),
     sector |-> SectorOf(s), buffer |-> HeadersAfterStart(n)]

PopRequests(n) ==
    queued_requests' = SubSeq(queued_requests, n + 1, Len(queued_requests))

StartWrites(n) ==
    /\ StopsAfter(n)
    /\ PopRequests(n)
    /\ headers' = HeadersAfterStart(n)
    /\ header_updates' =
         [s \in DOMAIN header_updates \cup StartedStripes(n) |->
            IF s \in StartedStripes(n) THEN NewUpdate(n, s) ELSE header_updates[s]]
    /\ sectors_being_updated' =
         sectors_being_updated \cup {SectorOf(s) : s \in StartedStripes(n)}
    /\ free_buffers' = free_buffers - Cardinality(Started(n))
    /\ meta_io' =
         [s \in DOMAIN meta_io \cup StartedStripes(n) |->
            IF s \in StartedStripes(n)
            THEN [op |-> "write", result |-> "none"] ELSE meta_io[s]]
    /\ UNCHANGED <<meta_cache, meta_durable>>
    /\ UNCHANGED sharedVars

\* The submit fails: cleanup_failed_submission takes back what the loop did,
\* except that the requests are gone from the queue.
StartWritesSubmitFails(n) ==
    /\ StopsAfter(n) /\ Started(n) # {}
    /\ PopRequests(n)
    /\ UNCHANGED <<headers, header_updates, sectors_being_updated, free_buffers>>
    /\ UNCHANGED metaDevVars
    /\ UNCHANGED sharedVars

-----------------------------------------------------------------------------
(* poll_channel.                                                           *)

Completed == {s \in DOMAIN meta_io : meta_io[s].result # "none"}
Succeeded(stage) ==
    {s \in Completed \cap DOMAIN header_updates :
        meta_io[s].result = "ok" /\ header_updates[s].stage = stage}
FailedUpdates ==
    {s \in Completed \cap DOMAIN header_updates : meta_io[s].result = "err"}

\* Mutant of ReturnedBuffers: every failure returns one.
ReturnedBuffersTwice == Succeeded(Writing) \cup FailedUpdates

\* The buffers that go back to the pool: a flush no longer holds one.
ReturnedBuffers ==
    Succeeded(Writing) \cup {s \in FailedUpdates : header_updates[s].stage = Writing}

\* The updates that end without success, when the submit of the flushes has
\* the given outcome.
Reverted(submitted) ==
    FailedUpdates \cup (IF submitted THEN {} ELSE Succeeded(Writing))

Gone(submitted) == Succeeded(Flushing) \cup Reverted(submitted)

\* Only the bit that the update added is taken back.
RevertedHeaders(submitted) ==
    [s \in Stripes |-> IF s \in Reverted(submitted)
                       THEN headers[s] \ {header_updates[s].bit} ELSE headers[s]]

\* Mutant of ReleasedSectors: a failed update keeps its sector.
ReleasedSectorsOnSuccess(submitted) ==
    {header_updates[s].sector : s \in Succeeded(Flushing)}

ReleasedSectors(submitted) == {header_updates[s].sector : s \in Gone(submitted)}

PollChannel(submitted) ==
    /\ submitted \/ Succeeded(Writing) # {}
    /\ headers' = RevertedHeaders(submitted)
    /\ header_updates' =
         [s \in DOMAIN header_updates \ Gone(submitted) |->
            IF s \in Succeeded(Writing)
            THEN [header_updates[s] EXCEPT !.stage = Flushing] ELSE header_updates[s]]
    /\ sectors_being_updated' =
         sectors_being_updated \ ReleasedSectors(submitted)
    /\ free_buffers' = free_buffers + Cardinality(ReturnedBuffers)
    /\ meta_io' =
         [s \in DOMAIN meta_io \ Gone(submitted) |->
            IF s \in Succeeded(Writing)
            THEN [op |-> "flush", result |-> "none"] ELSE meta_io[s]]
    /\ SetStripeHeaders(Succeeded(Flushing),
                        [s \in Succeeded(Flushing) |-> header_updates[s].header])
    /\ UNCHANGED <<queued_requests, meta_cache, meta_durable>>

-----------------------------------------------------------------------------
(* The metadata device (external).                                         *)

SectorWritten(s) ==
    [t \in Stripes |-> IF SectorOf(t) = header_updates[s].sector
                       THEN header_updates[s].buffer[t] ELSE meta_cache[t]]

\* The device finishes the request of stripe s.  A request that succeeds has
\* taken effect; one that fails may have.
MetaIoDone(s, result) ==
    /\ s \in DOMAIN meta_io /\ meta_io[s].result = "none"
    /\ meta_io' = [meta_io EXCEPT ![s].result = result]
    /\ \/ /\ meta_io[s].op = "write"
          /\ meta_cache' = SectorWritten(s)
          /\ UNCHANGED meta_durable
       \/ /\ meta_io[s].op = "flush"
          /\ meta_durable' = meta_cache
          /\ UNCHANGED meta_cache
       \/ /\ result = "err"
          /\ UNCHANGED <<meta_cache, meta_durable>>
    /\ UNCHANGED <<flusherVars, sharedVars>>

MetaWriteBack(sector) ==
    /\ meta_durable' = [t \in Stripes |-> IF SectorOf(t) = sector
                                          THEN meta_cache[t] ELSE meta_durable[t]]
    /\ UNCHANGED <<meta_io, meta_cache, flusherVars, sharedVars>>

\* Power is lost and the process starts again: MetadataFlusher::new and
\* SharedMetadataState::new load what the device kept.
MetaReload ==
    /\ headers' = meta_durable
    /\ queued_requests' = <<>>
    /\ header_updates' = <<>>
    /\ sectors_being_updated' = {}
    /\ free_buffers' = MaxConcurrentChanges
    /\ meta_io' = <<>>
    /\ meta_cache' = meta_durable
    /\ UNCHANGED meta_durable
    /\ SharedLoad(meta_durable)

-----------------------------------------------------------------------------
(* The worker asks for the FETCHED bit only of a stripe it fetched, so one *)
(* that has a source; any stripe may be written.                           *)

Enqueue(s, bit) ==
    /\ Len(queued_requests) < MaxQueue
    /\ \/ bit = FETCHED /\ s \in SourceStripes /\ SetStripeFetched(s)
       \/ bit = WRITTEN /\ SetStripeWritten(s)
    /\ UNCHANGED <<metaDevVars, sharedVars>>

FlusherUpdate ==
    \/ \E n \in 0 .. Len(queued_requests) : StartWrites(n) \/ StartWritesSubmitFails(n)
    \/ \E submitted \in BOOLEAN : PollChannel(submitted)

MFNext ==
    \/ \E s \in Stripes, bit \in {FETCHED, WRITTEN} : Enqueue(s, bit)
    \/ FlusherUpdate
    \/ \E s \in Stripes, result \in {"ok", "err"} : MetaIoDone(s, result)
    \/ \E sector \in Sectors : MetaWriteBack(sector)
    \/ MetaReload

MFSpec == MFInit /\ [][MFNext]_mfVars

\* The worker's loop calls update() again and again while the flusher is
\* busy, and the device answers every request it was given.
MFFairSpec ==
    /\ MFSpec
    /\ WF_mfVars(FlusherUpdate)
    /\ \A s \in Stripes : WF_mfVars(\E result \in {"ok", "err"} : MetaIoDone(s, result))

-----------------------------------------------------------------------------
MFTypeOK ==
    /\ SharedTypeOK
    /\ headers \in Headers
    /\ queued_requests \in Seq(Request)
    /\ DOMAIN header_updates \subseteq Stripes
    /\ \A s \in DOMAIN header_updates : header_updates[s] \in Update
    /\ sectors_being_updated \subseteq Sectors
    /\ free_buffers \in Nat
    /\ DOMAIN meta_io = DOMAIN header_updates
    /\ \A s \in DOMAIN meta_io : meta_io[s] \in IoState
    /\ meta_cache \in Headers
    /\ meta_durable \in Headers

\* The I/O threads see the bit of stripe s as set.
Published(s, bit) ==
    \/ bit = FETCHED /\ stripe_fetch_states[s] = Fetched
    \/ bit = WRITTEN /\ stripe_written(s)

\* What the I/O threads are told survives a power loss: a stripe they see as
\* Fetched or Written (poll_channel publishes it after the flush) has the bit
\* on the durable medium, and keeps it whatever fails later.
PublishedIsDurable ==
    \A s \in Stripes, bit \in {FETCHED, WRITTEN} :
        Published(s, bit) => bit \in meta_durable[s]

\* Updates to each sector are serialized (the comment in start_writes), and a
\* sector stays blocked exactly as long as an update of it is in progress.
SectorsSerialized ==
    /\ sectors_being_updated = {header_updates[s].sector : s \in DOMAIN header_updates}
    /\ \A s, t \in DOMAIN header_updates :
          header_updates[s].sector = header_updates[t].sector => s = t

\* No buffer is lost or returned twice, whichever step of an update fails.
BuffersConserved ==
    free_buffers + Cardinality({s \in DOMAIN header_updates :
                                  header_updates[s].stage = Writing})
        = MaxConcurrentChanges

\* The worker's copy is exactly what is published plus the bits being set: a
\* failed update leaves no bit behind that would make start_writes skip a
\* later request, and loses none.
CopyMatchesPublished ==
    \A s \in Stripes, bit \in {FETCHED, WRITTEN} :
        bit \in headers[s] <=>
            \/ Published(s, bit)
            \/ s \in DOMAIN header_updates /\ header_updates[s].bit = bit

-----------------------------------------------------------------------------
(* The inductive invariant behind PublishedIsDurable.                      *)

\* A later write of the same sector would make the bit durable again, or lose
\* it: the device's cache never lacks a published bit.
CacheKeepsPublished ==
    \A s \in Stripes, bit \in {FETCHED, WRITTEN} :
        Published(s, bit) => bit \in meta_cache[s]

\* Rewriting a whole sector never changes which stripes have a source, and
\* only such a stripe is ever marked as fetched.
SourceFlagsKept ==
    /\ \A s \in Stripes : \A h \in {headers, meta_cache, meta_durable} :
          /\ HAS_SOURCE \in h[s] <=> s \in SourceStripes
          /\ FETCHED \in h[s] => s \in SourceStripes
    /\ \A i \in DOMAIN queued_requests :
          queued_requests[i].bit = FETCHED => queued_requests[i].stripe_id \in SourceStripes

\* An update in progress: its buffer is the sector as the worker's copy has
\* it, its bit is not published yet, and it is in the device's cache once the
\* write succeeded, on the medium once the flush did.
UpdateSound(s, u, io) ==
    /\ u.sector = SectorOf(s)
    /\ u.header = headers[s]
    /\ u.bit \in headers[s]
    /\ ~Published(s, u.bit)
    /\ \A t \in Stripes : SectorOf(t) = u.sector => u.buffer[t] = headers[t]
    /\ u.stage = Writing <=> io.op = "write"
    /\ io.op = "flush" \/ io.result = "ok" => u.bit \in meta_cache[s]
    /\ io.op = "flush" /\ io.result = "ok" => u.bit \in meta_durable[s]

UpdatesSound ==
    \A s \in DOMAIN header_updates : UpdateSound(s, header_updates[s], meta_io[s])

MFInv ==
    /\ MFTypeOK
    /\ SectorsSerialized
    /\ UpdatesSound
    /\ CopyMatchesPublished
    /\ PublishedIsDurable
    /\ CacheKeepsPublished
    /\ SourceFlagsKept

=============================================================================
