---------------------------- MODULE RemoteSource ----------------------------
(***************************************************************************)
(* RemoteStripeSource (stripe_source/remote.rs), its pool of workers and   *)
(* their connections to remote-stripe-server.  The stripe fetcher asks for *)
(* stripes; a worker takes one at a time, asks over its own connection,    *)
(* and dials again after a transport error.                                *)
(*                                                                         *)
(* A connection is two streams of whole messages, and ends in either       *)
(* direction.  The client's end outlives the session's: what the session   *)
(* had sent can still be read.  A message of the server is kept with the   *)
(* request it answers, which the client does not see.                      *)
(*                                                                         *)
(* Faults (a timeout or reset on the client's side, a refused connect, a   *)
(* server restart, a failed read of the disk) are counted, so that what    *)
(* must happen once they stop can be stated.                               *)
(***************************************************************************)
EXTENDS StripeVolume

CONSTANTS
    Workers,
    Volumes,        \* name -> volume; the address may serve any of them in turn
    First,          \* the one at the start
    Shift,          \* stripe size of the fetcher's own device
    Stripes,        \* the stripes of that device
    MAX_ATTEMPTS,   \* RECONNECT_MAX_ATTEMPTS, 10 in the code
    MaxFaults, MaxRepoints,
    LateReplies,    \* a connection the client has given up on may still deliver
    RepointInBuild  \* the address may be repointed while the pool is being built

VARIABLES
    servers,        \* name -> the running server of that volume
    served,         \* the volume at the address
    phase,          \* "build", "run", "failed"
    conn,           \* worker -> its client
    dialled,        \* worker -> the connection it is dialling
    worker,         \* worker -> [pc, stripe, attempt]
    expected,       \* the fingerprint; the metadata of the first client
    requests, results,      \* the two channels
    pending,        \* stripes with a buffer of the fetcher's
    buffer,         \* stripe -> what the last completion left: <<>>, <<"failed">> or the data
    faults, repoints

world    == <<servers, served>>
netVars  == <<world, conn, dialled, faults, repoints>>
srcVars  == <<phase, expected, requests, results, pending, buffer>>
vars     == <<netVars, worker, srcVars>>

Closed == [vol |-> First, alive |-> FALSE, up |-> <<>>, down |-> <<>>, md |-> NoMetadata]
Open(v, up) == [vol |-> v, alive |-> TRUE, up |-> up, down |-> <<>>, md |-> NoMetadata]
Idle   == [pc |-> "idle", stripe |-> 0, attempt |-> 0]

RInit ==
    /\ servers = [v \in DOMAIN Volumes |-> Prepare(Volumes[v])] /\ served = First
    /\ phase = "build" /\ conn = [w \in Workers |-> Closed]
    /\ dialled = [w \in Workers |-> Closed] /\ worker = [w \in Workers |-> Idle]
    /\ expected = NoMetadata /\ requests = <<>> /\ results = <<>> /\ pending = {}
    /\ buffer = [s \in Stripes |-> <<>>] /\ faults = 0 /\ repoints = 0

-----------------------------------------------------------------------------
(* StripeSourceBuilder::build and RemoteStripeSource::new.                 *)

\* connect_to_stripe_server while the pool is built.
BuildConnect(w) ==
    /\ phase = "build" /\ conn[w] = Closed
    /\ conn' = [conn EXCEPT ![w] = [Open(served, <<>>) EXCEPT !.md =
                  MetadataOf(Reply(Volumes[served], servers[served], <<"METADATA">>, TRUE))]]
    \* the metadata of the first client is the source's
    /\ expected' = IF \A x \in Workers : conn[x] = Closed THEN conn'[w].md ELSE expected
    /\ UNCHANGED <<world, dialled, faults, repoints, worker, phase, requests, results, pending, buffer>>

BuildFails ==
    /\ phase = "build" /\ faults < MaxFaults /\ faults' = faults + 1 /\ phase' = "failed"
    /\ UNCHANGED <<world, conn, dialled, repoints, worker, expected, requests, results, pending, buffer>>

\* new: the stripe size must be the device's.
New ==
    /\ phase = "build" /\ \A w \in Workers : conn[w] # Closed
    /\ phase' = IF expected.ok /\ expected.shift = Shift THEN "run" ELSE "failed"
    /\ UNCHANGED <<netVars, worker, expected, requests, results, pending, buffer>>

-----------------------------------------------------------------------------
(* The fetcher's side.                                                     *)

\* request of a stripe that has_stripe, for the first time or again.
Request(s) ==
    /\ phase = "run" /\ s \notin pending /\ HasStripe(expected, s) /\ s <= SourceStripes(expected)
    /\ buffer[s] \in {<<>>, <<"failed">>}
    /\ requests' = Append(requests, s) /\ pending' = pending \cup {s}
    /\ UNCHANGED <<netVars, worker, phase, expected, results, buffer>>

\* poll: every result there is; each takes its buffer out of pending.
Poll ==
    /\ results # <<>> /\ results' = <<>>
    /\ LET got(s) == {i \in DOMAIN results : results[i][1] = s}
           mine   == {s \in pending : got(s) # {}}
       IN  /\ pending' = pending \ mine
           /\ buffer' = [s \in Stripes |-> IF s \in mine
                           THEN results[CHOOSE i \in got(s) : TRUE][2] ELSE buffer[s]]
    /\ UNCHANGED <<netVars, worker, phase, expected, requests>>

-----------------------------------------------------------------------------
(* The workers: fetch_with_reconnect.                                      *)

\* The worker's loop sends the outcome and takes the next stripe.
Finish(w, outcome) ==
    /\ results' = Append(results, <<worker[w].stripe, outcome>>)
    /\ worker' = [worker EXCEPT ![w] = Idle]

Goto(w, pc) == worker' = [worker EXCEPT ![w].pc = pc] /\ UNCHANGED results

\* The next attempt dials; after the last one the stripe fails, and the worker
\* keeps the client it has.
NextAttempt(w) ==
    IF worker[w].attempt < MAX_ATTEMPTS
    THEN /\ worker' = [worker EXCEPT ![w].pc = "dial", ![w].attempt = @ + 1]
         /\ UNCHANGED results
    ELSE Finish(w, <<"failed">>)

\* Mutant of TransportError: it fails the stripe like any other error.
TransportErrorFails(w) == Finish(w, <<"failed">>)

\* is_connection_error: only an error of the transport leads to another attempt.
TransportError(w) == NextAttempt(w)

Take(w) ==
    /\ phase = "run" /\ worker[w].pc = "idle" /\ requests # <<>>
    /\ worker' = [worker EXCEPT ![w] = [pc |-> "send", stripe |-> Head(requests), attempt |-> 0]]
    /\ requests' = Tail(requests)
    /\ UNCHANGED <<netVars, phase, expected, results, pending, buffer>>

Push(c, request) == IF c.alive THEN [c EXCEPT !.up = Append(@, request)] ELSE c

Send(w) ==
    /\ worker[w].pc = "send" /\ Goto(w, "wait")
    /\ conn' = [conn EXCEPT ![w] = Push(@, <<"READ_STRIPE", worker[w].stripe>>)]
    /\ UNCHANGED <<world, dialled, faults, repoints, phase, expected, requests, pending, buffer>>

\* fetch_stripe reads the next reply of the stream.  A status other than OK fails
\* the stripe without dialling.
Receive(w) ==
    /\ worker[w].pc = "wait" /\ conn[w].down # <<>>
    /\ LET m == Head(conn[w].down)
       IN  Finish(w, IF StripeAccepted(m.reply, conn[w].md)
                     THEN <<"data", conn[w].vol, m.to[2], m.reply.data>> ELSE <<"failed">>)
    /\ conn' = [conn EXCEPT ![w].down = Tail(@)]
    /\ UNCHANGED <<world, dialled, faults, repoints, phase, expected, requests, pending, buffer>>

\* What is left of a connection the client has given up on.
Abandoned(c) == IF LateReplies THEN c ELSE Closed

\* The stream has ended, or the read times out.
ReadFails(w) ==
    /\ worker[w].pc = "wait"
    /\ \/ ~conn[w].alive /\ conn[w].down = <<>> /\ UNCHANGED faults
       \/ faults < MaxFaults /\ faults' = faults + 1
    /\ TransportError(w)
    /\ conn' = [conn EXCEPT ![w] = Abandoned(@)]
    /\ UNCHANGED <<world, dialled, repoints, phase, expected, requests, pending, buffer>>

\* connect(): TCP connect and the hello request.
Dial(w) ==
    /\ worker[w].pc = "dial" /\ Goto(w, "hello")
    /\ dialled' = [dialled EXCEPT ![w] = Open(served, <<<<"HELLO">>>>)]
    /\ UNCHANGED <<world, conn, faults, repoints, phase, expected, requests, pending, buffer>>

\* connect() fails at any of its steps; the connection is dropped.
DialFails(w) ==
    /\ worker[w].pc \in {"dial", "hello", "metadata"}
    /\ \/ worker[w].pc # "dial" /\ ~dialled[w].alive /\ dialled[w].down = <<>> /\ UNCHANGED faults
       \/ faults < MaxFaults /\ faults' = faults + 1
    /\ NextAttempt(w) /\ dialled' = [dialled EXCEPT ![w] = Closed]
    /\ UNCHANGED <<world, conn, repoints, phase, expected, requests, pending, buffer>>

HelloReply(w) ==
    /\ worker[w].pc = "hello" /\ dialled[w].down # <<>> /\ HelloAccepted(Head(dialled[w].down).reply)
    /\ Goto(w, "metadata")
    /\ dialled' = [dialled EXCEPT ![w] = Push([@ EXCEPT !.down = <<>>], <<"METADATA">>)]
    /\ UNCHANGED <<world, conn, faults, repoints, phase, expected, requests, pending, buffer>>

\* Mutant of SameGeometry: the stripe size alone is compared.
SameStripeSize(md) == md.shift = expected.shift

SameGeometry(md) == Fingerprint(md) = Fingerprint(expected)

\* The fresh client replaces the old one if it serves the same geometry; another
\* geometry fails the stripe for good.
MetadataReply(w) ==
    /\ worker[w].pc = "metadata" /\ dialled[w].down # <<>>
    /\ LET md == MetadataOf(Head(dialled[w].down).reply)
       IN  IF md.ok /\ SameGeometry(md)
           THEN /\ conn' = [conn EXCEPT ![w] = [dialled[w] EXCEPT !.down = <<>>, !.md = md]]
                /\ Goto(w, "send")
           ELSE Finish(w, <<"failed">>) /\ UNCHANGED conn
    /\ dialled' = [dialled EXCEPT ![w] = Closed]
    /\ UNCHANGED <<world, faults, repoints, phase, expected, requests, pending, buffer>>

-----------------------------------------------------------------------------
(* The server.                                                             *)

Handled(c, reply) ==
    [c EXCEPT !.up = IF EndsSession(reply) THEN <<>> ELSE Tail(@),
              !.alive = ~EndsSession(reply),
              !.down = Append(@, [to |-> Head(c.up), reply |-> reply])]

\* A session handles one request of its connection.
SessionStep(w) ==
    /\ \/ /\ conn[w].alive /\ conn[w].up # <<>>
          /\ \E ok \in BOOLEAN :
               /\ faults' = faults + (IF ok THEN 0 ELSE 1) /\ faults' <= MaxFaults
               /\ conn' = [conn EXCEPT ![w] = Handled(@, Reply(Volumes[@.vol], servers[@.vol], Head(@.up), ok))]
          /\ UNCHANGED dialled
       \/ /\ dialled[w].alive /\ dialled[w].up # <<>>
          /\ dialled' = [dialled EXCEPT ![w] = Handled(@, Reply(Volumes[@.vol], servers[@.vol], Head(@.up), TRUE))]
          /\ UNCHANGED <<conn, faults>>
    /\ UNCHANGED <<world, repoints, worker, srcVars>>

EndSession(c) == [c EXCEPT !.alive = FALSE, !.up = <<>>]

\* The session of an idle connection times out.
SessionIdle(w) ==
    /\ phase = "run" /\ conn[w].alive /\ conn[w].up = <<>> /\ faults < MaxFaults
    /\ conn' = [conn EXCEPT ![w] = EndSession(@)] /\ faults' = faults + 1
    /\ UNCHANGED <<world, dialled, repoints, worker, srcVars>>

\* The server is killed and started again.
Restart ==
    /\ phase = "run" /\ faults < MaxFaults /\ faults' = faults + 1
    /\ conn' = [w \in Workers |-> EndSession(conn[w])]
    /\ dialled' = [w \in Workers |-> EndSession(dialled[w])]
    /\ UNCHANGED <<world, repoints, worker, srcVars>>

\* The address is repointed; sessions that are open stay with their server.
Repoint(v) ==
    /\ phase = "run" \/ (RepointInBuild /\ phase = "build")
    /\ repoints < MaxRepoints /\ repoints' = repoints + 1 /\ v # served /\ served' = v
    /\ UNCHANGED <<servers, conn, dialled, faults, worker, srcVars>>

-----------------------------------------------------------------------------
WorkerStep(w) == Take(w) \/ Send(w) \/ Receive(w) \/ ReadFails(w) \/ Dial(w) \/ DialFails(w)
                 \/ HelloReply(w) \/ MetadataReply(w)

RNext ==
    \/ BuildFails \/ New \/ Poll \/ Restart
    \/ \E s \in Stripes : Request(s)
    \/ \E w \in Workers : BuildConnect(w) \/ WorkerStep(w) \/ SessionStep(w) \/ SessionIdle(w)
    \/ \E v \in DOMAIN Volumes : Repoint(v)

-----------------------------------------------------------------------------
\* A request is in one place: the channel, a worker, or the results; and nothing
\* else is.  So each is completed once, by a result that is not dropped.
RequestsOnce ==
    \A s \in Stripes :
      Cardinality({i \in DOMAIN requests : requests[i] = s})
      + Cardinality({w \in Workers : worker[w].pc # "idle" /\ worker[w].stripe = s})
      + Cardinality({i \in DOMAIN results : results[i][1] = s}) = (IF s \in pending THEN 1 ELSE 0)

Data == {s \in Stripes : buffer[s] # <<>> /\ buffer[s][1] = "data"}

\* The bytes in a buffer are those of the stripe it was for, as a guest of the
\* volume they came from reads it: never an answer to an earlier request.
DeliveredIsRequested ==
    \A s \in Data : buffer[s][3] = s /\ buffer[s][4] = Visible(Volumes[buffer[s][2]], s)

\* They come from a server of the geometry the source was built with, also when
\* the address has been repointed since.
DeliveredFromExpected ==
    \A s \in Data : Fingerprint(servers[buffer[s][2]].md) = Fingerprint(expected)
=============================================================================
