------------------------------- MODULE LazyIoChannel -------------------------------
(***************************************************************************)
(* The lazy block device as the I/O threads use it (device.rs): every I/O  *)
(* thread has a LazyIoChannel on top of a channel of the base device and,  *)
(* with copy_on_read off, one of the raw image.  A request that touches an *)
(* unfetched stripe waits in the channel's queue for the background        *)
(* worker, in order.                                                       *)
(*                                                                         *)
(* A request names the stripes it covers.  A write stores its own name in  *)
(* each of them, so that every datum tells who wrote it.  The frontends    *)
(* call submit right after they added their requests, so an add includes   *)
(* its submit; poll makes a submit of its own, which may fail.             *)
(***************************************************************************)
EXTENDS BgWorker

CONSTANTS
    Channels,       \* the I/O threads
    Requests,       \* the guest's requests; each is issued once
    HasImage,       \* copy_on_read = false: reads may go to the raw image
    TrackWritten,   \* device.track_written
    MaxSpan         \* bound on the number of stripes of a request

ASSUME ChannelAssumption ==
    /\ Channels # {}
    /\ SourceData \notin Requests /\ BlankData \notin Requests
    /\ HasImage \in BOOLEAN /\ TrackWritten \in BOOLEAN
    /\ MaxSpan \in Nat \ {0}

VARIABLES
    queued_rw_requests,         \* channel -> requests waiting, in order
    finished_requests,          \* channel -> requests to be reported as failed
    stripe_fetches_requested,   \* channel -> stripes it asked the worker for
    base_io,                    \* request -> result on the base channel
    image_io,                   \* request -> result on the image channel
    owner,                      \* request -> the channel it was issued on
    req                         \* request -> what the guest asked and got

channelVars == <<queued_rw_requests, finished_requests, stripe_fetches_requested>>
guestIoVars == <<base_io, image_io>>

In    == "In"
Out   == "Out"
Flush == "Flush"
NoVal == "none"

NewRequest ==
    [st |-> "new", kind |-> Flush,
     first |-> 0, last |-> 0, done |-> FALSE,
     seen |-> [s \in Stripes |-> {}], val |-> [s \in Stripes |-> NoVal]]

ChannelsInit ==
    /\ queued_rw_requests = [c \in Channels |-> <<>>]
    /\ finished_requests = [c \in Channels |-> {}]
    /\ stripe_fetches_requested = [c \in Channels |-> {}]
    /\ base_io = <<>>
    /\ image_io = <<>>
    /\ owner = [r \in Requests |-> CHOOSE c \in Channels : TRUE]
    /\ req = [r \in Requests |-> NewRequest]

Covered(r) == req[r].first .. req[r].last

\* What the guest should find in a stripe: the base device's datum once the
\* stripe is published as fetched, the source's before.
Content(s) == IF stripe_fetched_if_needed(s) THEN disk_cache[s] ELSE SourceData

-----------------------------------------------------------------------------
(* request_stripes_fetch_status and request_stripes_written.               *)

NotReady(S) == {s \in S : ~stripe_fetched_if_needed(s)}

\* The loop stops at the first stripe that is not ready.
FetchStatus(S) ==
    IF NotReady(S) = {} THEN "Complete"
    ELSE LET s == CHOOSE s \in NotReady(S) : \A t \in NotReady(S) : s <= t
         IN  IF stripe_fetch_states[s] = NotFetched THEN "Pending" ELSE "Failed"

\* Mutant of AllWritten: the loop returns at the first written stripe.
AnyWritten(S) == \E s \in S : stripe_written(s)

AllWritten(S) == \A s \in S : stripe_written(s)

Each(Message(_), seq) == [i \in DOMAIN seq |-> Message(seq[i])]

\* The receiver is gone once the worker has stopped: send returns an error.
CanSend == worker_pc # "stopped"

-----------------------------------------------------------------------------
(* add_read, add_write and add_flush, each followed by submit.             *)

Open(c, r, kind, first, last) ==
    /\ owner' = [owner EXCEPT ![r] = c]
    /\ req' = [req EXCEPT ![r].st = "open", ![r].kind = kind,
                          ![r].first = first, ![r].last = last,
                          ![r].seen = [s \in Stripes |->
                              IF kind = In /\ s \in first .. last
                              THEN {Content(s)} ELSE {}]]

ToBase(r) ==
    /\ base_io' = With(base_io, r, "none")
    /\ UNCHANGED <<channelVars, image_io, bgworker_ch>>

ToImage(r) ==
    /\ image_io' = With(image_io, r, "none")
    /\ UNCHANGED <<channelVars, base_io, bgworker_ch>>

ToFinished(c, r) ==
    /\ finished_requests' = [finished_requests EXCEPT ![c] = @ \cup {r}]
    /\ UNCHANGED <<queued_rw_requests, stripe_fetches_requested, guestIoVars,
                   bgworker_ch>>

\* start_stripe_fetches, for a write start_stripe_set_written as well, and the
\* push to the queue.
ToQueue(c, r, first, last, kind) ==
    LET fetch   == {s \in first .. last : ~stripe_fetched_if_needed(s)}
                        \ stripe_fetches_requested[c]
        written == {s \in first .. last :
                        kind = Out /\ TrackWritten /\ ~stripe_written(s)}
    IN  \/ /\ CanSend \/ fetch \cup written = {}
           /\ \E f \in Ascending(fetch), w \in Ascending(written) :
                 bgworker_ch' = bgworker_ch \o Each(Fetch, f) \o Each(SetWritten, w)
           /\ stripe_fetches_requested' =
                [stripe_fetches_requested EXCEPT ![c] = @ \cup fetch]
           /\ queued_rw_requests' = [queued_rw_requests EXCEPT ![c] = Append(@, r)]
           /\ UNCHANGED <<finished_requests, guestIoVars>>
        \/ /\ ~CanSend /\ fetch \cup written # {}
           /\ ToFinished(c, r)

\* Mutant of AddRead: the image is tried before the fetch status.
AddReadImageFirst(c, r, first, last) ==
    /\ Open(c, r, In, first, last)
    /\ \/ first = last /\ HasImage /\ ToImage(r)
       \/ /\ ~(first = last /\ HasImage) /\ FetchStatus(first .. last) = "Complete"
          /\ ToBase(r)
       \/ /\ ~(first = last /\ HasImage) /\ FetchStatus(first .. last) # "Complete"
          /\ ToQueue(c, r, first, last, In)

AddRead(c, r, first, last) ==
    LET S == first .. last IN
    /\ Open(c, r, In, first, last)
    /\ \/ FetchStatus(S) = "Complete" /\ ToBase(r)
       \/ FetchStatus(S) = "Failed" /\ ToFinished(c, r)
       \/ FetchStatus(S) = "Pending" /\ first = last /\ HasImage /\ ToImage(r)
       \/ /\ FetchStatus(S) = "Pending" /\ ~(first = last /\ HasImage)
          /\ ToQueue(c, r, first, last, In)

AddWrite(c, r, first, last) ==
    LET S == first .. last
        canStart == ~TrackWritten \/ AllWritten(S)
    IN  /\ Open(c, r, Out, first, last)
        /\ \/ FetchStatus(S) = "Complete" /\ canStart /\ ToBase(r)
           \/ FetchStatus(S) = "Failed" /\ ToFinished(c, r)
           \/ /\ FetchStatus(S) = "Pending" \/ (FetchStatus(S) = "Complete" /\ ~canStart)
              /\ ToQueue(c, r, first, last, Out)

AddFlush(c, r) ==
    /\ Open(c, r, Flush, 0, 0)
    /\ ToBase(r)

-----------------------------------------------------------------------------
(* poll: process_queued_rw_requests, then every completion is reported.    *)

\* Mutant of Passes: without the pop of a failed request.
PassesUnlessFailed(r) ==
    /\ FetchStatus(Covered(r)) = "Complete"
    /\ TrackWritten /\ req[r].kind = Out => AllWritten(Covered(r))

\* The loop does not stop at this request.
Passes(r) ==
    \/ FetchStatus(Covered(r)) = "Failed"
    \/ /\ FetchStatus(Covered(r)) = "Complete"
       /\ TrackWritten /\ req[r].kind = Out => AllWritten(Covered(r))

\* The loop pops the first n requests of the queue.
PollsUpTo(c, n) ==
    LET q == queued_rw_requests[c]
    IN  /\ \A i \in 1 .. n : Passes(q[i])
        /\ n < Len(q) => ~Passes(q[n + 1])

\* Mutant of Taken: the request the loop stops at is taken as well.
TakenAndNext(c, n) ==
    {queued_rw_requests[c][i] : i \in (1 .. n + 1) \cap DOMAIN queued_rw_requests[c]}

Taken(c, n)    == {queued_rw_requests[c][i] : i \in 1 .. n}
ToSubmit(c, n) == {r \in Taken(c, n) : FetchStatus(Covered(r)) = "Complete"}

Mine(io, c)         == {r \in DOMAIN io : owner[r] = c}
Ended(io, c, result) == {r \in Mine(io, c) : io[r] = result}

\* Mutant of PolledErr: the error path of submit is forgotten.
PolledErrSubmitIgnored(c, n, submitted) ==
    finished_requests[c] \cup (Taken(c, n) \ ToSubmit(c, n))
        \cup Ended(base_io, c, "err") \cup Ended(image_io, c, "err")

\* The answers of poll when the submit of the queued requests has the given
\* outcome.
PolledOk(c) == Ended(base_io, c, "ok") \cup Ended(image_io, c, "ok")
PolledErr(c, n, submitted) ==
    finished_requests[c] \cup (Taken(c, n) \ ToSubmit(c, n))
        \cup (IF submitted THEN {} ELSE ToSubmit(c, n))
        \cup Ended(base_io, c, "err") \cup Ended(image_io, c, "err")

Poll(c, n, submitted) ==
    LET ended == PolledOk(c) \cup PolledErr(c, n, submitted)
        sent  == IF submitted THEN ToSubmit(c, n) ELSE {}
    IN  /\ PollsUpTo(c, n)
        /\ submitted \/ ToSubmit(c, n) # {}
        /\ queued_rw_requests' =
             [queued_rw_requests EXCEPT ![c] =
                SubSeq(@, n + 1, Len(@))]
        /\ stripe_fetches_requested' =
             [stripe_fetches_requested EXCEPT ![c] =
                @ \ UNION {Covered(r) : r \in ToSubmit(c, n)}]
        /\ finished_requests' = [finished_requests EXCEPT ![c] = {}]
        /\ base_io' = [r \in (DOMAIN base_io \ ended) \cup sent |->
                         IF r \in sent THEN "none" ELSE base_io[r]]
        /\ image_io' = Without(image_io, ended)
        /\ req' = [r \in Requests |->
                     IF r \in PolledOk(c) THEN [req[r] EXCEPT !.st = "ok"]
                     ELSE IF r \in ended THEN [req[r] EXCEPT !.st = "err"] ELSE req[r]]
        /\ UNCHANGED <<owner, bgworker_ch>>

-----------------------------------------------------------------------------
(* The base device and the image as the guest's requests use them          *)
(* (external).                                                             *)

\* Open reads learn the new datum of the stripes they cover.
Witnessed(S, r) ==
    [q \in Requests |->
        IF req[q].st = "open" /\ req[q].kind = In
        THEN [req[q] EXCEPT !.seen = [s \in Stripes |->
                 IF s \in S /\ s \in Covered(q) THEN @[s] \cup {r} ELSE @[s]]]
        ELSE req[q]]

Filled(r, At(_)) ==
    [req EXCEPT ![r].done = TRUE,
                ![r].val = [s \in Stripes |-> IF s \in Covered(r) THEN At(s) ELSE @[s]]]

\* A request that fails may have been carried out on some stripes.
BaseIoDone(r, result, S) ==
    /\ r \in DOMAIN base_io /\ base_io[r] = "none"
    /\ base_io' = [base_io EXCEPT ![r] = result]
    /\ \/ /\ req[r].kind = In /\ result = "ok" /\ S = {}
          /\ req' = Filled(r, LAMBDA s : disk_cache[s])
          /\ UNCHANGED diskVars
       \/ /\ req[r].kind = Out
          /\ S \subseteq Covered(r) /\ (result = "ok" => S = Covered(r))
          /\ disk_cache' = [s \in Stripes |-> IF s \in S THEN r ELSE disk_cache[s]]
          /\ req' = [Witnessed(S, r) EXCEPT ![r].done = (S = Covered(r))]
          /\ UNCHANGED disk_durable
       \/ /\ req[r].kind = Flush /\ result = "ok" /\ S = {}
          /\ disk_durable' = disk_cache
          /\ req' = [req EXCEPT ![r].done = TRUE]
          /\ UNCHANGED disk_cache
       \/ /\ req[r].kind # Out /\ result = "err" /\ S = {}
          /\ UNCHANGED <<req, diskVars>>

ImageIoDone(r, result) ==
    /\ r \in DOMAIN image_io /\ image_io[r] = "none"
    /\ image_io' = [image_io EXCEPT ![r] = result]
    /\ \/ result = "ok" /\ req' = Filled(r, LAMBDA s : SourceData)
       \/ result = "err" /\ UNCHANGED req

-----------------------------------------------------------------------------
Datum == Requests \cup {SourceData, BlankData}

RequestState ==
    [st : {"new", "open", "ok", "err", "lost"}, kind : {In, Out, Flush},
     first : Stripes, last : Stripes, done : BOOLEAN,
     seen : [Stripes -> SUBSET Datum], val : [Stripes -> Datum \cup {NoVal}]]

ChannelTypeOK ==
    /\ DOMAIN queued_rw_requests = Channels
    /\ \A c \in Channels : queued_rw_requests[c] \in Seq(Requests)
    /\ finished_requests \in [Channels -> SUBSET Requests]
    /\ stripe_fetches_requested \in [Channels -> SUBSET Stripes]
    /\ DOMAIN base_io \subseteq Requests /\ DOMAIN image_io \subseteq Requests
    /\ \A r \in DOMAIN base_io : base_io[r] \in {"none", "ok", "err"}
    /\ \A r \in DOMAIN image_io : image_io[r] \in {"none", "ok", "err"}
    /\ owner \in [Requests -> Channels]
    /\ req \in [Requests -> RequestState]
    /\ disk_cache \in [Stripes -> Datum] /\ disk_durable \in [Stripes -> Datum]

=============================================================================
