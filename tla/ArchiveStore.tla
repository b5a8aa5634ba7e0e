---------------------------- MODULE ArchiveStore ----------------------------
(***************************************************************************)
(* The object stores behind the ArchiveStore trait, as one caller uses     *)
(* them: S3Store hands its requests to worker threads through a shared     *)
(* channel and takes their answers from another; FileSystemStore does each *)
(* request at once.  The bucket outlives the store and its process.        *)
(***************************************************************************)
EXTENDS Naturals, Sequences, FiniteSets, Functions, TLC

CONSTANTS
    Workers,        \* the threads of an S3Store
    FileSystem      \* TRUE: a FileSystemStore, which has no threads

VARIABLES
    request_tx,     \* "open", or "gone" once the store is dropped
    requests,       \* the request channel
    worker,         \* thread -> <<state>> or <<"busy", request>>
    results,        \* the result channel
    finished_puts, finished_gets,
    bucket          \* object name -> data

storeVars  == <<request_tx, requests, worker, results, finished_puts, finished_gets>>
threadVars == <<request_tx, requests, worker, results>>

StoreFresh ==
    /\ request_tx = "open" /\ requests = <<>> /\ results = <<>>
    /\ worker = [w \in Workers |-> <<"starting">>]
    /\ finished_puts = <<>> /\ finished_gets = <<>>

\* S3Store::new in a new process.
StoreReopen ==
    /\ request_tx' = "open" /\ requests' = <<>> /\ results' = <<>>
    /\ worker' = [w \in Workers |-> <<"starting">>]
    /\ finished_puts' = <<>> /\ finished_gets' = <<>>

\* An object cut short by a crash in the middle of fs::write.
Torn == [torn |-> TRUE]

\* A request or an answer has the data of an object, <<data>>, or none.
Put(name, data) == [op |-> "put", name |-> name, data |-> <<data>>]
Get(name)       == [op |-> "get", name |-> name, data |-> <<>>]
Answer(q, ok, data) == [op |-> q.op, name |-> q.name, ok |-> ok, data |-> data]

\* The receiver of the request channel lives as long as one worker does.
Connected == request_tx = "open" /\ \E w \in Workers : worker[w] # <<"ended">>

Store(name, data) == bucket' = (name :> data) @@ bucket

\* start_put_object and start_get_object of S3Store.
StartRequest(q) ==
    /\ requests' = IF Connected THEN Append(requests, q) ELSE requests
    /\ finished_puts' = IF ~Connected /\ q.op = "put"
                        THEN Append(finished_puts, Answer(q, FALSE, <<>>)) ELSE finished_puts
    /\ finished_gets' = IF ~Connected /\ q.op = "get"
                        THEN Append(finished_gets, Answer(q, FALSE, <<>>)) ELSE finished_gets
    /\ UNCHANGED <<request_tx, worker, results, bucket>>

\* start_put_object: `ok` is whether the write of a file works.
StartPut(name, data, ok) ==
    IF FileSystem
    THEN /\ IF ok THEN Store(name, data) ELSE UNCHANGED bucket
         /\ finished_puts' = Append(finished_puts, Answer(Put(name, data), ok, <<>>))
         /\ UNCHANGED <<threadVars, finished_gets>>
    ELSE ok /\ StartRequest(Put(name, data))

Fetched(name, ok) == ok /\ name \in DOMAIN bucket
DataOf(name, ok) == IF Fetched(name, ok) THEN <<bucket[name]>> ELSE <<>>

StartGet(name, ok) ==
    IF FileSystem
    THEN /\ finished_gets' = Append(finished_gets,
                               Answer(Get(name), Fetched(name, ok), DataOf(name, ok)))
         /\ UNCHANGED <<threadVars, finished_puts, bucket>>
    ELSE ok /\ StartRequest(Get(name))

-----------------------------------------------------------------------------
(* drain_results, poll_puts and poll_gets.                                 *)

OfOp(seq, op) == SelectSeq(seq, LAMBDA a : a.op = op)
AllPuts == finished_puts \o OfOp(results, "put")
AllGets == finished_gets \o OfOp(results, "get")

\* Mutant of PollPuts: the answers to gets are thrown away.
PollPutsForgets ==
    /\ results' = <<>> /\ finished_puts' = <<>> /\ UNCHANGED finished_gets
    /\ UNCHANGED <<request_tx, requests, worker>>

PollPuts ==
    /\ results' = <<>> /\ finished_puts' = <<>> /\ finished_gets' = AllGets
    /\ UNCHANGED <<request_tx, requests, worker>>

PollGets ==
    /\ results' = <<>> /\ finished_gets' = <<>> /\ finished_puts' = AllPuts
    /\ UNCHANGED <<request_tx, requests, worker>>

-----------------------------------------------------------------------------
(* run_worker_loop.  A worker that cannot build its runtime ends at once;  *)
(* with the last receiver the requests in the channel are lost.            *)

WorkerStarts(w, ok) ==
    /\ worker[w] = <<"starting">>
    /\ worker' = [worker EXCEPT ![w] = <<IF ok THEN "idle" ELSE "ended">>]
    /\ requests' = IF \A v \in Workers : worker'[v] = <<"ended">> THEN <<>> ELSE requests
    /\ UNCHANGED <<request_tx, results, finished_puts, finished_gets, bucket>>

WorkerTakes(w) ==
    /\ worker[w] = <<"idle">> /\ requests # <<>>
    /\ worker' = [worker EXCEPT ![w] = <<"busy", Head(requests)>>]
    /\ requests' = Tail(requests)
    /\ UNCHANGED <<request_tx, results, finished_puts, finished_gets, bucket>>

\* process_request.  A put that is answered with an error may be stored all
\* the same: the answer of the service was lost.
WorkerAnswers(w, ok, stored) ==
    /\ worker[w][1] = "busy"
    /\ worker' = [worker EXCEPT ![w] = <<"idle">>]
    /\ LET q == worker[w][2]
       IN  \/ /\ q.op = "put" /\ (ok => stored)
              /\ IF stored THEN Store(q.name, q.data[1]) ELSE UNCHANGED bucket
              /\ results' = Append(results, Answer(q, ok, <<>>))
           \/ /\ q.op = "get" /\ ~stored
              /\ results' = Append(results,
                              Answer(q, Fetched(q.name, ok), DataOf(q.name, ok)))
              /\ UNCHANGED bucket
    /\ UNCHANGED <<request_tx, requests, finished_puts, finished_gets>>

\* recv fails once the sender is gone and the channel is empty.
WorkerEnds(w) ==
    /\ worker[w] = <<"idle">> /\ requests = <<>> /\ request_tx = "gone"
    /\ worker' = [worker EXCEPT ![w] = <<"ended">>]
    /\ UNCHANGED <<request_tx, requests, results, finished_puts, finished_gets, bucket>>

\* Drop takes the sender; it returns (Joined) when every worker has ended.
DropStore ==
    /\ request_tx' = "gone"
    /\ UNCHANGED <<requests, worker, results, finished_puts, finished_gets, bucket>>
Joined == \A w \in Workers : worker[w] = <<"ended">>
=============================================================================
