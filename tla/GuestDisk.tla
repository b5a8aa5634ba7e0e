--------------------------------- MODULE GuestDisk ---------------------------------
(***************************************************************************)
(* What a guest may rely on: a disk with a volatile write cache.           *)
(*                                                                         *)
(* A request is served at some point between its issue and its answer.  A  *)
(* read returns, stripe by stripe, a value the disk held while the read    *)
(* was open; a write that is answered with success has taken effect; a     *)
(* flush answered with success has put everything the disk held at some    *)
(* moment of the flush on the medium.  A request that fails may have taken *)
(* effect on some of its stripes.  A power loss leaves the medium.         *)
(*                                                                         *)
(* The disk starts with the content of the stripe source.                  *)
(***************************************************************************)
EXTENDS Naturals

CONSTANTS Stripes, Requests, InitialContent

VARIABLES
    content,    \* stripe -> what a read returns now
    media,      \* stripe -> what survives a power loss
    req         \* request -> its kind, stripes and progress

diskSpecVars == <<content, media, req>>

Range(r) == req[r].first .. req[r].last
Open(r)  == req[r].st = "open"

GInit ==
    /\ content = InitialContent
    /\ media = InitialContent
    /\ \A r \in Requests : req[r].st = "new"

\* An open read may return every value its stripes take while it is open.
SeenAfter(newContent) ==
    [r \in Requests |->
        IF Open(r) /\ req[r].kind = "In"
        THEN [req[r] EXCEPT !.seen =
                [s \in Stripes |-> IF s \in Range(r)
                                   THEN @[s] \cup {newContent[s]} ELSE @[s]]]
        ELSE req[r]]

Issue(r, kind, first, last) ==
    /\ req[r].st = "new"
    /\ req' = [req EXCEPT ![r].st = "open", ![r].kind = kind,
                          ![r].first = first, ![r].last = last,
                          ![r].seen = [s \in Stripes |->
                              IF kind = "In" /\ s \in first .. last
                              THEN {content[s]} ELSE {}]]
    /\ UNCHANGED <<content, media>>

ServeRead(r) ==
    /\ Open(r) /\ req[r].kind = "In" /\ ~req[r].done
    /\ \E val \in [Range(r) -> UNION {req[r].seen[s] : s \in Range(r)}] :
          /\ \A s \in Range(r) : val[s] \in req[r].seen[s]
          /\ req' = [req EXCEPT ![r].done = TRUE,
                                ![r].val = [s \in Stripes |->
                                   IF s \in Range(r) THEN val[s] ELSE @[s]]]
    /\ UNCHANGED <<content, media>>

ServeWrite(r, S) ==
    /\ Open(r) /\ req[r].kind = "Out" /\ ~req[r].done /\ S \subseteq Range(r)
    /\ content' = [s \in Stripes |-> IF s \in S THEN r ELSE content[s]]
    /\ req' = [SeenAfter(content') EXCEPT ![r].done = (S = Range(r))]
    /\ UNCHANGED media

ServeFlush(r) ==
    /\ Open(r) /\ req[r].kind = "Flush" /\ ~req[r].done
    /\ media' = content
    /\ req' = [req EXCEPT ![r].done = TRUE]
    /\ UNCHANGED content

\* Requests are answered, with success only if they have been served.
Answer(good, bad) ==
    /\ \A r \in good : Open(r) /\ req[r].done
    /\ \A r \in bad : Open(r)
    /\ req' = [r \in Requests |->
                 IF r \in good THEN [req[r] EXCEPT !.st = "ok"]
                 ELSE IF r \in bad THEN [req[r] EXCEPT !.st = "err"] ELSE req[r]]
    /\ UNCHANGED <<content, media>>

\* Any part of the cache may reach the medium at any time.
Destage(S) ==
    /\ media' = [s \in Stripes |-> IF s \in S THEN content[s] ELSE media[s]]
    /\ UNCHANGED <<content, req>>

LosePower ==
    /\ content' = media
    /\ req' = [r \in Requests |-> IF Open(r) THEN [req[r] EXCEPT !.st = "lost"]
                                  ELSE req[r]]
    /\ UNCHANGED media

GNext ==
    \/ \E r \in Requests :
          \/ \E kind \in {"In", "Out", "Flush"}, first, last \in Stripes :
                Issue(r, kind, first, last)
          \/ ServeRead(r)
          \/ \E S \in SUBSET Stripes : ServeWrite(r, S)
          \/ ServeFlush(r)
    \/ \E good, bad \in SUBSET Requests : Answer(good, bad)
    \/ \E S \in SUBSET Stripes : Destage(S)
    \/ LosePower

GSpec == GInit /\ [][GNext]_diskSpecVars
=============================================================================
