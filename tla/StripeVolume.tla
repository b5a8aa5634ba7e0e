---------------------------- MODULE StripeVolume ----------------------------
(***************************************************************************)
(* What remote-stripe-server serves (stripe_server/): the volumes it can   *)
(* be started on, prepare_stripe_server with the translation of v0.2.x     *)
(* metadata, and a session's answer to each request.                       *)
(*                                                                         *)
(* A volume is its metadata format, its configuration and, for each stripe *)
(* of the data disk, its header and where its contents are: "zero",        *)
(* "image" (the bytes of the source) or "guest".  Metadata travels as the  *)
(* sectors of MetadataLayout.                                              *)
(***************************************************************************)
EXTENDS Naturals, Sequences, FiniteSets

CONSTANTS
    DEFAULT_SHIFT,          \* stripe shift of a volume without metadata, 11 in the code
    MAX_LEGACY_SHIFT,       \* 16 in the code
    MaxMetadataSectors      \* MAX_REMOTE_METADATA_SIZE, in sectors

ML == INSTANCE MetadataLayout WITH HeadersPerSector <- 2, MaxShift <- MAX_LEGACY_SHIFT + 1

\* A stripe of a volume that the lazy device has left: a header, the disk, and
\* whether the source has it.  WRITTEN is only kept by a tracked device, and may
\* be durable before FETCHED.
V2Stripe(tracked) ==
    LET w == IF tracked THEN {"WRITTEN"} ELSE {}
    IN  {[hdr |-> {}, disk |-> "zero"], [hdr |-> w, disk |-> "guest"],
         [hdr |-> {"HAS_SOURCE"} \cup w, disk |-> "zero"], [hdr |-> {"HAS_SOURCE"}, disk |-> "image"],
         [hdr |-> {"HAS_SOURCE", "FETCHED"}, disk |-> "image"],
         [hdr |-> {"HAS_SOURCE", "FETCHED"} \cup w, disk |-> "guest"]}
\* v0.2.x: bit 0 fetched, bit 1 written (if it is tracked).
LegacyStripe ==
    {[hdr |-> {}, disk |-> "zero"], [hdr |-> {"bit0"}, disk |-> "image"],
     [hdr |-> {"bit0"}, disk |-> "guest"],
     [hdr |-> {"bit1"}, disk |-> "guest"], [hdr |-> {"bit0", "bit1"}, disk |-> "guest"]}

Volume(format, tracked, source, shift, stripes) ==
    [format |-> format, tracked |-> tracked, source |-> source, shift |-> shift, stripes |-> stripes]

\* What a guest of the volume reads.
Visible(v, s) ==
    LET t == v.stripes[s] IN
    CASE v.format = "v2"   -> IF "HAS_SOURCE" \in t.hdr /\ "FETCHED" \notin t.hdr THEN "image" ELSE t.disk
      [] v.format = "v0_2" -> IF t.hdr = {} THEN "image" ELSE t.disk
      [] v.format = "none" -> t.disk

Headers(v) == [s \in DOMAIN v.stripes |-> v.stripes[s].hdr]
Metadata(shift, headers) == [version |-> "2.0", shift |-> shift, headers |-> headers]

-----------------------------------------------------------------------------
(* prepare_stripe_server.                                                  *)

\* translate_v0_2_metadata: a zero header is a stripe that is still in the source.
TranslateHeader(legacy) == IF legacy = {} THEN {"HAS_SOURCE"} ELSE {"WRITTEN"}

Translate(v) ==
    IF v.shift > MAX_LEGACY_SHIFT THEN ML!Failure("shift")
    ELSE [ok |-> TRUE, shift |-> v.shift,
          headers |-> [s \in DOMAIN v.stripes |-> TranslateHeader(v.stripes[s].hdr)]]

\* load_metadata_for_serving.
LoadForServing(v) ==
    IF v.format = "v0_2" THEN Translate(v)
    ELSE ML!FromBytes(ML!WriteToBuf(Metadata(v.shift, Headers(v))))

\* mark_no_source_stripes_written.
MarkNoSourceWritten(h) == IF "HAS_SOURCE" \in h THEN h ELSE h \cup {"WRITTEN"}

\* has_fetched_all_stripes.
AllFetched(headers) ==
    \A s \in DOMAIN headers : "HAS_SOURCE" \in headers[s] => "FETCHED" \in headers[s]

Refused == [ok |-> FALSE]

\* A prepared server: the source a session builds (none for a volume without
\* metadata, "null" when nothing is left to fetch), its metadata, and the bytes
\* handle_metadata_request makes of them: they do not change while it runs.
Server(source, md) == [ok |-> TRUE, source |-> source, md |-> md, image |-> ML!WriteToBuf(md)]

Prepare(v) ==
    IF v.format = "none"
    THEN Server("none", Metadata(DEFAULT_SHIFT,
                          [s \in DOMAIN v.stripes |-> {"HAS_SOURCE", "WRITTEN", "FETCHED"}]))
    ELSE LET md == LoadForServing(v) IN
         IF ~md.ok THEN Refused
         ELSE IF ~AllFetched(md.headers) /\ ~v.source THEN Refused
         ELSE Server(IF AllFetched(md.headers) THEN "null" ELSE "source",
                     Metadata(md.shift, [s \in DOMAIN md.headers |->
                       IF v.tracked THEN md.headers[s] ELSE MarkNoSourceWritten(md.headers[s])]))

-----------------------------------------------------------------------------
(* A session: requests and replies.  ok says whether the read of the disk  *)
(* or of the source succeeds within its 30 seconds.                        *)

StripeNotFetched(h) == "HAS_SOURCE" \in h /\ "FETCHED" \notin h
StripeHasData(h)    == "WRITTEN" \in h \/ ("HAS_SOURCE" \in h /\ "FETCHED" \in h)

StatusOnly(status) == [status |-> status]

\* Mutant of ReadStripe: a stripe that is marked written is read from the disk.
ReadStripeWrittenFirst(v, srv, s, ok) ==
    LET h == srv.md.headers[s] IN
    IF StripeHasData(h)
    THEN IF ok THEN [status |-> "OK", shift |-> srv.md.shift, data |-> v.stripes[s].disk]
         ELSE StatusOnly("SERVER_ERROR")
    ELSE IF StripeNotFetched(h) /\ ok
         THEN [status |-> "OK", shift |-> srv.md.shift, data |-> "image"]
         ELSE StatusOnly("NO_DATA")

\* handle_read_stripe_request.
ReadStripe(v, srv, s, ok) ==
    LET h == srv.md.headers[s]
        Served(data) == IF ok THEN [status |-> "OK", shift |-> srv.md.shift, data |-> data]
                        ELSE StatusOnly("SERVER_ERROR")
    IN  CASE s \notin DOMAIN srv.md.headers -> StatusOnly("INVALID_STRIPE")
          [] OTHER ->
               IF StripeNotFetched(h)
               THEN IF srv.source = "none" THEN StatusOnly("NOT_FETCHED") ELSE Served("image")
               ELSE IF ~StripeHasData(h) THEN StatusOnly("NO_DATA")
               ELSE Served(v.stripes[s].disk)

\* handle_single_request.  A request is <<opcode>> or <<"READ_STRIPE", stripe>>.
Reply(v, srv, request, ok) ==
    CASE request[1] = "HELLO"       -> [status |-> "OK", version |-> 1]
      [] request[1] = "METADATA"    -> [status |-> "OK", image |-> srv.image]
      [] request[1] = "READ_STRIPE" -> ReadStripe(v, srv, request[2], ok)
      [] OTHER                      -> StatusOnly("INVALID_COMMAND")

\* The session ends after an error of the disk or the source.
EndsSession(reply) == reply.status = "SERVER_ERROR"

-----------------------------------------------------------------------------
(* The client's side of connect_to_stripe_server.                          *)

NoMetadata == [ok |-> FALSE]

HelloAccepted(reply) == reply.status = "OK" /\ reply.version = 1

\* fetch_metadata: the size is at least one sector and at most the maximum.
MetadataOf(reply) ==
    IF reply.status # "OK" \/ Len(reply.image) \notin 1 .. MaxMetadataSectors THEN NoMetadata
    ELSE ML!FromBytes(reply.image)

\* fetch_stripe: a stripe of the connection's stripe size.
StripeAccepted(reply, md) == reply.status = "OK" /\ reply.shift = md.shift

-----------------------------------------------------------------------------
(* What a RemoteStripeSource takes from the metadata (stripe_source/       *)
(* remote.rs).                                                             *)

HasStripe(md, s) == s \in DOMAIN md.headers /\ md.headers[s] \cap {"WRITTEN", "HAS_SOURCE"} # {}

\* source_sector_count, in stripes: up to the last stripe with data.
SourceStripes(md) ==
    Cardinality({s \in DOMAIN md.headers : \E t \in DOMAIN md.headers : t >= s /\ HasStripe(md, t)})

Fingerprint(md) == <<md.shift, Len(md.headers)>>
=============================================================================
