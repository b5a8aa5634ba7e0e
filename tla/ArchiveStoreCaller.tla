------------------------ MODULE ArchiveStoreCaller ------------------------
(*****************************************************************************)
(* An ArchiveStore with a caller that starts puts and gets, polls for both   *)
(* and drops the store at any moment.                                        *)
(*****************************************************************************)
EXTENDS ArchiveStore

CONSTANTS
    Names,          \* object names
    MaxRequests,    \* bound on the requests of the caller
    Unstartable     \* the workers whose runtime may fail to build

VARIABLES
    started,        \* the requests so far; the n-th put writes n
    answered,       \* the answers that polls returned
    dropped         \* Drop has returned

callerVars == <<storeVars, bucket, started, answered, dropped>>

CInit == StoreFresh /\ bucket = <<>> /\ started = <<>> /\ answered = <<>> /\ dropped = FALSE

Start ==
    /\ request_tx = "open" /\ Len(started) < MaxRequests
    /\ \E name \in Names, ok \in BOOLEAN :
          \/ /\ StartPut(name, Len(started) + 1, ok)
             /\ started' = Append(started, Put(name, Len(started) + 1))
          \/ StartGet(name, ok) /\ started' = Append(started, Get(name))
    /\ UNCHANGED <<answered, dropped>>

PollStep ==
    /\ request_tx = "open"
    /\ \/ PollPuts /\ AllPuts # <<>> /\ answered' = answered \o AllPuts
       \/ PollGets /\ AllGets # <<>> /\ answered' = answered \o AllGets
    /\ UNCHANGED <<started, dropped, bucket>>

ThreadStep(w) ==
    /\ \/ \E ok \in BOOLEAN : (ok \/ w \in Unstartable) /\ WorkerStarts(w, ok)
       \/ WorkerTakes(w)
       \/ \E ok, stored \in BOOLEAN : WorkerAnswers(w, ok, stored)
       \/ WorkerEnds(w)
    /\ UNCHANGED <<started, answered, dropped>>

DropBegins == request_tx = "open" /\ DropStore /\ UNCHANGED <<started, answered, dropped>>
DropReturns ==
    /\ request_tx = "gone" /\ Joined /\ ~dropped /\ dropped' = TRUE
    /\ UNCHANGED <<storeVars, bucket, started, answered>>

CNext == Start \/ PollStep \/ DropBegins \/ DropReturns
         \/ \E w \in Workers : ThreadStep(w)

-----------------------------------------------------------------------------
Count(seq, name) == Cardinality({i \in DOMAIN seq : seq[i].name = name})
Busy(name) == Cardinality({w \in Workers : worker[w][1] = "busy"
                                           /\ worker[w][2].name = name})

\* Unless no worker could start, every request is in one place, in the
\* channel, with a worker, or answered, and is answered once: polling for one
\* kind of request loses none of the other kind.
RequestsConserved ==
    (\E w \in Workers : w \notin Unstartable) =>
        \A name \in Names :
            Count(started, name) =
                Count(requests, name) + Busy(name) + Count(results, name)
                + Count(finished_puts, name) + Count(finished_gets, name)
                + Count(answered, name)

\* An object reads as what some put wrote, and a put that was reported as done
\* has been stored: the name exists ever after.
DoneIsStored ==
    /\ \A i \in DOMAIN answered :
          answered[i].op = "put" /\ answered[i].ok => answered[i].name \in DOMAIN bucket
    /\ \A i \in DOMAIN answered :
          answered[i].op = "get" /\ answered[i].ok =>
            \E j \in DOMAIN started : /\ started[j].op = "put"
                                       /\ started[j].name = answered[i].name
                                       /\ started[j].data = answered[i].data

\* Drop waits for the uploads in the channel: when it returns, a store that had
\* a live worker leaves no queued put undone.
DropFlushes == dropped /\ (\E w \in Workers : w \notin Unstartable) => requests = <<>>

=============================================================================
