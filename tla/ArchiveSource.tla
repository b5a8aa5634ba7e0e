---------------------------- MODULE ArchiveSource ----------------------------
(***************************************************************************)
(* ArchiveStripeSource (stripe_source/archive.rs) and its user             *)
(* export_archive: the stripes of an archive are fetched through an        *)
(* ArchiveStore, several at a time and in any order, stripes with equal    *)
(* contents by one request.                                                *)
(*                                                                         *)
(* Objects are symbolic as in Archiver; a name stands for a hash, so a     *)
(* damaged object is one that is not the object of its name.  A stripe has *)
(* a content and a length; data shorter than a buffer is padded.           *)
(***************************************************************************)
EXTENDS ArchiveStore

SX == INSTANCE SequencesExt

CONSTANTS
    StripeCount,    \* bound on the stripes of an archive
    MAX_FETCHES,    \* 16 in the code
    Encrypt

VARIABLES
    stripe_hashes,          \* the mapping: stripe -> <<"zero">> or <<"some", object>>
    pending_requests,       \* object name -> sequence of stripes
    buffers,                \* stripe -> its buffer's content, Old before the fetch
    finished_requests,      \* the stripes to report: <<stripe, success>>
    next_submit, written, in_flight, file, pc   \* export_archive

sourceVars == <<stripe_hashes, pending_requests, buffers, finished_requests>>
exportVars == <<next_submit, written, in_flight, file, pc>>
vars       == <<storeVars, bucket, sourceVars, exportVars>>

Stripes == 0 .. StripeCount - 1
Zeros   == 0
Old     == 8
Noise   == 9
Object(s, content) == [content |-> content, enc |-> IF Encrypt THEN s ELSE 0]
object_key(o) == <<"data", o>>

\* Archives of the archiver, of which objects may be lost or damaged since.
SInit ==
    /\ stripe_hashes \in UNION {
          [S -> {<<"zero">>} \cup {<<"some", c>> : c \in 1 .. 2}] : S \in SUBSET Stripes}
    /\ \E bad \in SUBSET Stripes, gone \in SUBSET Stripes :
         bucket = [n \in {object_key(Object(s, stripe_hashes[s][2])) :
                            s \in {t \in DOMAIN stripe_hashes \ gone : stripe_hashes[t][1] = "some"}}
                     |-> IF n[2].enc \in bad THEN [content |-> 3, enc |-> 0] ELSE n[2]]
    /\ StoreFresh /\ pending_requests = <<>> /\ finished_requests = <<>>
    /\ buffers = [s \in Stripes |-> Old]
    /\ next_submit = 0 /\ written = 0 /\ in_flight = {} /\ file = <<>> /\ pc = "opened"

NameOf(s) == object_key(Object(s, stripe_hashes[s][2]))

-----------------------------------------------------------------------------
(* request and poll of the stripe source.                                  *)

has_stripe(s) == s \in DOMAIN stripe_hashes

\* sector_count, in stripes.
sector_count == IF stripe_hashes = <<>> THEN 0
                ELSE (CHOOSE m \in DOMAIN stripe_hashes :
                        \A s \in DOMAIN stripe_hashes : s <= m) + 1

\* start_fetch_stripe: stripes of one object wait for one request.
StartFetch(s, ok) ==
    IF NameOf(s) \in DOMAIN pending_requests
    THEN /\ pending_requests' = [pending_requests EXCEPT ![NameOf(s)] = Append(@, s)]
         /\ ok /\ UNCHANGED <<storeVars, bucket>>
    ELSE /\ StartGet(NameOf(s), ok)
         /\ pending_requests' = (NameOf(s) :> <<s>>) @@ pending_requests

\* Zero stripes, and stripes the archive does not have, are done at once.
Request(s, ok) ==
    IF has_stripe(s) /\ stripe_hashes[s][1] = "some"
    THEN StartFetch(s, ok) /\ UNCHANGED <<stripe_hashes, buffers, finished_requests>>
    ELSE /\ buffers' = [buffers EXCEPT ![s] = Zeros]
         /\ finished_requests' = Append(finished_requests, <<s, TRUE>>)
         /\ ok /\ UNCHANGED <<stripe_hashes, pending_requests, storeVars, bucket>>

\* Mutant of Finish: the data is trusted without its hash.
FinishUnverified(s, a) == a.ok

\* finish_stripe_fetch: verify_stripe_data, maybe_decrypt with the stripe's own
\* sectors, decompress.
Finish(s, a) == a.ok /\ object_key(a.data[1]) = a.name

Plain(s, a) == IF a.data[1].enc = (IF Encrypt THEN s ELSE 0) THEN a.data[1].content ELSE Noise

\* The stripes an answer is for, all at once.
Waiting(a) == IF a.name \in DOMAIN pending_requests THEN pending_requests[a.name] ELSE <<>>
Completed(a) == [i \in DOMAIN Waiting(a) |-> <<Waiting(a)[i], Finish(Waiting(a)[i], a)>>]

\* poll: the answers of the store, then everything that has finished.
PollResult == finished_requests \o SX!FlattenSeq([i \in DOMAIN AllGets |-> Completed(AllGets[i])])

Poll ==
    /\ PollGets /\ UNCHANGED <<bucket, stripe_hashes>>
    /\ buffers' = [s \in Stripes |->
         LET mine == {i \in DOMAIN AllGets : \E j \in DOMAIN Waiting(AllGets[i]) :
                          Waiting(AllGets[i])[j] = s /\ Finish(s, AllGets[i])}
         IN  IF mine = {} THEN buffers[s]
             ELSE LET a == AllGets[CHOOSE i \in mine : TRUE] IN Plain(s, a)]
    /\ pending_requests' = Restrict(pending_requests,
                             DOMAIN pending_requests \ {AllGets[i].name : i \in DOMAIN AllGets})
    /\ finished_requests' = <<>>

-----------------------------------------------------------------------------
(* export_archive.                                                         *)

\* The target is made with its whole length, in zeroes.
CreateTarget ==
    /\ pc = "opened"
    /\ pc' = IF sector_count = 0 THEN "done" ELSE "fill"
    /\ file' = [s \in 0 .. sector_count - 1 |-> Zeros]
    /\ UNCHANGED <<storeVars, bucket, sourceVars, next_submit, written, in_flight>>

FillHole ==
    /\ ~has_stripe(next_submit) /\ written' = written + 1
    /\ UNCHANGED <<in_flight, storeVars, bucket, sourceVars>>

Submit ==
    /\ pc = "fill" /\ Cardinality(in_flight) < MAX_FETCHES /\ next_submit < sector_count
    /\ next_submit' = next_submit + 1
    /\ \/ FillHole
       \/ /\ has_stripe(next_submit) /\ in_flight' = in_flight \cup {next_submit}
          /\ Request(next_submit, TRUE) /\ UNCHANGED written
    /\ UNCHANGED <<file, pc>>

FillDone ==
    /\ pc = "fill" /\ pc' = "poll"
    /\ Cardinality(in_flight) = MAX_FETCHES \/ next_submit = sector_count
    /\ UNCHANGED <<storeVars, bucket, sourceVars, next_submit, written, in_flight, file>>

\* The completions of a poll are written at their offsets, or end the export.
Export ==
    /\ pc = "poll" /\ Poll
    /\ LET done == {i \in DOMAIN PollResult : PollResult[i][1] \in in_flight}
           ids  == {PollResult[i][1] : i \in done}
       IN  IF \E i \in DOMAIN PollResult : ~PollResult[i][2]
           THEN pc' = "failed" /\ UNCHANGED <<written, in_flight, file>>
           ELSE /\ file' = [s \in DOMAIN file |-> IF s \in ids THEN buffers'[s] ELSE file[s]]
                /\ written' = written + Cardinality(ids)
                /\ in_flight' = in_flight \ ids
                /\ pc' = IF written' < sector_count THEN "fill" ELSE "done"
    /\ UNCHANGED next_submit

StoreStep ==
    /\ \E w \in Workers : WorkerStarts(w, TRUE) \/ WorkerTakes(w)
                          \/ \E ok \in BOOLEAN : WorkerAnswers(w, ok, FALSE)
    /\ UNCHANGED <<sourceVars, exportVars>>

ExportStep == CreateTarget \/ Submit \/ FillDone \/ Export
SNext == ExportStep \/ StoreStep

-----------------------------------------------------------------------------
Wanted(s) == IF has_stripe(s) /\ stripe_hashes[s][1] = "some" THEN stripe_hashes[s][2] ELSE Zeros

\* A finished export is the archived device, holes and zero stripes included;
\* lost or damaged objects end it in an error instead.
ExportIsArchive == pc = "done" => file = [s \in 0 .. sector_count - 1 |-> Wanted(s)]

\* A buffer that is written to the file has the stripe's own data, when stripes
\* share an object and are answered together too.
BuffersRight == \A s \in Stripes : buffers[s] \in {Old, Wanted(s)}

\* Each stripe in flight is reported by exactly one later poll: it waits for an
\* object that is under way, or is among the finished ones.
InFlightAwaited ==
    pc # "failed" => \A s \in in_flight :
        Cardinality({n \in DOMAIN pending_requests :
                       \E i \in DOMAIN pending_requests[n] : pending_requests[n][i] = s})
        + Cardinality({i \in DOMAIN finished_requests : finished_requests[i][1] = s}) = 1
=============================================================================
