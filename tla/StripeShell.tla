----------------------------- MODULE StripeShell -----------------------------
(***************************************************************************)
(* remote-stripe-server on any volume, and one client of it,               *)
(* remote-stripe-shell (bin/): start of the server, one session, and the   *)
(* shell's commands with its cache of fetched stripes.                     *)
(***************************************************************************)
EXTENDS StripeVolume

CONSTANTS
    Volumes,        \* the volumes the server may be started on
    MaxStripe       \* commands name stripes up to this one

VARIABLES
    vol,
    srv,            \* what prepare_stripe_server returned
    pc,             \* "start", "listen", "shell"; "refused" and "exit" are ends
    alive,          \* the server's session is alive
    metadata,       \* of the client
    fetched_stripes,
    shown           \* the last command and what it printed

vars == <<vol, srv, pc, alive, metadata, fetched_stripes, shown>>

Named == 1 .. MaxStripe
Nothing == <<"nothing">>

HInit ==
    /\ vol \in Volumes /\ srv = Refused /\ pc = "start" /\ alive = FALSE
    /\ metadata = NoMetadata /\ fetched_stripes = [s \in Named |-> Nothing]
    /\ shown = Nothing

Start ==
    /\ pc = "start" /\ srv' = Prepare(vol)
    /\ pc' = IF srv'.ok THEN "listen" ELSE "refused"
    /\ UNCHANGED <<vol, alive, metadata, fetched_stripes, shown>>

\* accept and start_session, which builds the session's source, and the client's
\* hello and metadata requests.  A source that cannot be built, or metadata that
\* the client cannot use, ends the client.
Connect(built) ==
    /\ pc = "listen" /\ (built \/ srv.source = "source")
    /\ LET hello == Reply(vol, srv, <<"HELLO">>, TRUE)
           md    == MetadataOf(Reply(vol, srv, <<"METADATA">>, TRUE))
           up    == built /\ HelloAccepted(hello) /\ md.ok
       IN  /\ pc' = IF up THEN "shell" ELSE "exit"
           /\ alive' = up /\ metadata' = IF up THEN md ELSE NoMetadata
    /\ UNCHANGED <<vol, srv, fetched_stripes, shown>>

Known(s) == s \in DOMAIN metadata.headers

\* stripe_header: the raw byte.
ShowHeader(s) ==
    /\ pc = "shell"
    /\ shown' = <<"header", s, IF Known(s) THEN metadata.headers[s] ELSE {"INVALID_STRIPE"}>>
    /\ UNCHANGED <<vol, srv, pc, alive, metadata, fetched_stripes>>

\* fetch_stripe; after a server error the session is gone and only errors follow.
FetchStripe(s, ok) ==
    /\ pc = "shell" /\ Known(s)
    /\ LET reply == IF alive THEN Reply(vol, srv, <<"READ_STRIPE", s>>, ok)
                    ELSE StatusOnly("closed")
       IN  /\ alive' = (alive /\ ~EndsSession(reply))
           /\ shown' = <<"fetch", s, reply.status>>
           /\ fetched_stripes' = IF reply.status = "OK" /\ StripeAccepted(reply, metadata)
                                 THEN [fetched_stripes EXCEPT ![s] = <<reply.data>>]
                                 ELSE fetched_stripes
    /\ UNCHANGED <<vol, srv, pc, metadata>>

\* dump_stripe of a range inside the stripe.
DumpStripe(s) ==
    /\ pc = "shell"
    /\ shown' = <<"dump", s,
                  IF ~Known(s) THEN "INVALID_STRIPE"
                  ELSE IF "WRITTEN" \notin metadata.headers[s] THEN "zero"
                  ELSE IF fetched_stripes[s] = Nothing THEN "NOT_FETCHED_FROM_REMOTE"
                  ELSE fetched_stripes[s][1]>>
    /\ UNCHANGED <<vol, srv, pc, alive, metadata, fetched_stripes>>

\* An idle session is closed by the server.
SessionEnds ==
    /\ pc = "shell" /\ alive /\ alive' = FALSE
    /\ UNCHANGED <<vol, srv, pc, metadata, fetched_stripes, shown>>

Exit ==
    /\ pc = "shell" /\ pc' = "exit" /\ alive' = FALSE
    /\ UNCHANGED <<vol, srv, metadata, fetched_stripes, shown>>

HNext ==
    \/ Start \/ SessionEnds \/ Exit
    \/ \E b \in BOOLEAN : Connect(b)
    \/ \E s \in Named : ShowHeader(s) \/ DumpStripe(s) \/ \E ok \in BOOLEAN : FetchStripe(s, ok)

-----------------------------------------------------------------------------
\* A fetched stripe is what a guest of the volume reads, whatever the format of
\* its metadata and whether or not it tracks writes: in particular a stripe that
\* is marked written and not fetched comes from the source.
ServedIsVisible ==
    \A s \in Named : fetched_stripes[s] # Nothing => fetched_stripes[s] = <<Visible(vol, s)>>

\* A remote source built from the metadata knows of every stripe with contents:
\* it has the stripe, and its sector count reaches it.
NothingHidden ==
    pc = "shell" => \A s \in DOMAIN vol.stripes :
        Visible(vol, s) # "zero" => HasStripe(metadata, s) /\ s <= SourceStripes(metadata)

\* What the metadata announces is never refused: the source's has_stripe and the
\* session's two predicates agree on every header.
AnnouncedIsServed ==
    (shown[1] = "fetch" /\ HasStripe(metadata, shown[2]))
      => shown[3] \in {"OK", "SERVER_ERROR", "closed"}

\* A volume with all its contents at hand is not refused.
StartsWhenComplete ==
    pc = "refused" => \/ ~vol.source /\ \E s \in DOMAIN vol.stripes :
                            Visible(vol, s) = "image" /\ vol.stripes[s].hdr \cap {"FETCHED", "bit0"} = {}
                      \/ vol.shift > MAX_LEGACY_SHIFT
=============================================================================
