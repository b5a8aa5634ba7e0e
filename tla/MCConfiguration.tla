-------------------------- MODULE MCConfiguration --------------------------
(*****************************************************************************)
(* Configuration, keys, the metadata file and the tools, side by side: part  *)
(* says which component this behaviour is about, the variables it does not   *)
(* have are 0.                                                               *)
(*   includes    load_config of a root file with up to two includes;         *)
(*   secrets     resolve_secrets over up to three secrets;                   *)
(*   load        a configuration is loaded and everything is built from it;  *)
(*   keys        a volume's keys, stored under a KEK and opened with another; *)
(*   metadata    init-metadata, power failures and the backend's load;       *)
(*   xts         the xts tool encodes a range and decodes it again;          *)
(*   retry       the retries of an S3 operation.                             *)
(*****************************************************************************)
EXTENDS Integers, Sequences, TLC

CONSTANT Parts

VARIABLES
    part,
    root, entries, files, next, table,
    phase,
    defs, danger_zone, pass, updated, resolved, reads,
    remaining,
    raw, conf, used, all_fetched,
    form, keys, writer, reader, stored, opened,
    pc, result, now, durable, created, request, loaded, crashes, inits, fresh, lone,
    input, range, middle, output, current_sector,
    tuning, attempt, answer, waited, outcome

-----------------------------------------------------------------------------
KW == INSTANCE KeyWrap
ML == INSTANCE MetadataLayout WITH HeadersPerSector <- 2, MaxShift <- 17

(* Trees and include arrays.                                               *)
Leaf(n) == <<"leaf", n>>
Tab(f)  == <<"table", f>>

Tables ==
    {<<>>, "secrets" :> Leaf(1), "secrets" :> Tab("a" :> Leaf(1)), "secrets" :> Tab("a" :> Leaf(2)),
     "secrets" :> Tab("b" :> Leaf(1)), "secrets" :> Tab("a" :> Tab("b" :> Leaf(1))),
     "secrets" :> Tab("a" :> Tab("c" :> Leaf(1))), "device" :> Tab("a" :> Leaf(1)),
     "include" :> Leaf(1), "other" :> Leaf(1)}

Entry(file, optional) == [file |-> file, optional |-> optional, form |-> "relative"]
Entries == {Entry(f, o) : f \in {"f", "g"}, o \in BOOLEAN}
IncludeArrays ==
    {<<>>} \union {<<e>> : e \in Entries} \union {<<e, g>> : e \in Entries, g \in Entries}
    \union {<<Entry("f", FALSE), [Entry("g", TRUE) EXCEPT !.form = p]>> : p \in {"empty", "absolute", "parent"}}

(* Secrets.                                                                *)
Def(source, encoding, data, by) ==
    [source |-> source, present |-> TRUE, readable |-> TRUE, encoding |-> encoding,
     trailing |-> 1, data |-> data, encrypted_by |-> by]

Kek  == KW!Plain("k", 32)
Kek2 == KW!Plain("k2", 32)
Secret64  == KW!Plain("x", 64)

Definitions ==
    {Def(source, "plaintext", Kek, "") : source \in {"pipe", "regular", "inline", "env"}}
    \union {Def("pipe", "base64", KW!Plain("big", len), "") : len \in {8192, 9000}}
    \union {Def("pipe", "plaintext", KW!Plain("k", 16), ""),
            Def("inline", "base64", KW!aes256gcm_encrypt(Kek, <<"a">>, Secret64), "c"),
            Def("inline", "base64", KW!aes256gcm_encrypt(Kek, <<"b">>, Kek2), "c"),
            Def("pipe", "base64", KW!aes256gcm_encrypt(Kek2, <<"a">>, Secret64), "b"),
            Def("inline", "base64", KW!aes256gcm_encrypt(Kek, <<"b">>, Kek2), "a"),
            Def("inline", "plaintext", Secret64, "missing"),
            [Def("pipe", "plaintext", Kek, "") EXCEPT !.present = FALSE],
            [Def("env", "base64", Kek, "") EXCEPT !.readable = FALSE]}

AllFlags == [enabled |-> TRUE, allow_secret_over_regular_file |-> TRUE,
          allow_inline_plaintext_secrets |-> TRUE, allow_env_secrets |-> TRUE]
DangerZones ==
    {AllFlags, [AllFlags EXCEPT !.enabled = FALSE], [AllFlags EXCEPT !.allow_env_secrets = FALSE]}

(* Configurations.                                                         *)
Secret(len) == [bytes |-> KW!Plain("s", len), utf8 |-> TRUE]
Lengths == {0, 15, 16, 31, 32, 64}

DefaultTuning == [num_queues |-> 1, queue_size |-> 64, seg_size_max |-> 65536, seg_count_max |-> 4,
           poll_timeout_us |-> 1000, cpus |-> 0, io_engine |-> "IoUring"]
Tunings ==
    {[DefaultTuning EXCEPT !.num_queues = n, !.cpus = c] : n \in {0, 1, 63, 64}, c \in {0, 1}}
    \union {[DefaultTuning EXCEPT !.queue_size = q, !.io_engine = e] :
            q \in {0, 1, 96, 65536, 131072}, e \in {"IoUring", "Sync"}}
    \union {[DefaultTuning EXCEPT !.seg_size_max = n] : n \in {0, 1, 1048577}}
    \union {[DefaultTuning EXCEPT !.seg_count_max = n] : n \in {0, 256, 257}}
    \union {[DefaultTuning EXCEPT !.poll_timeout_us = n] : n \in {0, 10000001}}

NoSource == [type |-> "none", path |-> <<"abs", "i">>, copy_on_read |-> FALSE, archive_kek |-> "",
           access_key_id |-> "t", secret_access_key |-> "t", session_token |-> "", plain_prefix |-> TRUE,
           connections |-> 1, connect_timeout_ms |-> 1, operation_attempt_timeout_ms |-> 1,
           max_attempts |-> 1, rate_limited_retry |-> FALSE, min_delay_ms |-> 0,
           psk |-> [identity |-> "none", secret |-> ""], address_parses |-> TRUE]
Of(type) == [NoSource EXCEPT !.type = type]
Sources ==
    {NoSource}
    \union {[Of("raw") EXCEPT !.path = p, !.copy_on_read = r] : p \in {<<"abs", "i">>, <<"rel", "i">>}, r \in BOOLEAN}
    \union {[Of("filesystem") EXCEPT !.path = <<"rel", "i">>, !.archive_kek = k] : k \in {"", "s", "dangling"}}
    \union {[Of("s3") EXCEPT !.archive_kek = k, !.session_token = t, !.access_key_id = a, !.secret_access_key = b] :
            k \in {"", "s"}, t \in {"", "s"}, a \in {"s", "t"}, b \in {"t", "dangling"}}
    \union {[Of(type) EXCEPT !.connections = n] : type \in {"s3", "remote"}, n \in {0, 1}}
    \union {[Of(type) EXCEPT !.connect_timeout_ms = n, !.operation_attempt_timeout_ms = 1 - n] :
            type \in {"s3", "remote"}, n \in {0, 1}}
    \union {[Of("s3") EXCEPT !.max_attempts = 0], [Of("s3") EXCEPT !.plain_prefix = FALSE],
            [Of("s3") EXCEPT !.rate_limited_retry = TRUE]}
    \union {[Of("remote") EXCEPT !.psk = [identity |-> "client", secret |-> s]] : s \in {"s", "dangling"}}

Zone(e, f) == [enabled |-> e, allow_unencrypted_disk |-> f, allow_unencrypted_connection |-> f]
Zones == {Zone(TRUE, TRUE), Zone(FALSE, TRUE), Zone(TRUE, FALSE)}

Conf(kind, zone, len, encryption, source, t) ==
    [kind |-> kind, danger_zone |-> zone, data_path |-> <<"rel", "d">>, encryption |-> encryption,
     source |-> source, tuning |-> t,
     secrets |-> "s" :> Secret(len) @@ "t" :> Secret(16) @@ "x" :> Secret(64)]

Configs ==
    {Conf("device", z, len, e, src, DefaultTuning) :
        z \in Zones, len \in Lengths, e \in {"", "s", "x"}, src \in Sources}
    \union {Conf(k, z, len, "", src, DefaultTuning) :
        k \in {"target", "export", "server"}, z \in Zones, len \in Lengths, src \in Sources}
    \union {Conf("device", Zone(FALSE, FALSE), 64, "dangling", NoSource, DefaultTuning)}
    \union {Conf("device", Zone(FALSE, FALSE), 64, "s", NoSource, t) : t \in Tunings}

(* KEKs, and what may be at the metadata path before.                      *)
Keks ==
    [method : {"None", "Aes256Gcm"},
     key : {KW!Absent, KW!Plain("a", 32), KW!Plain("b", 32), KW!Plain("a", 16)},
     init_vector : {KW!Absent, KW!Plain("iv1", 12), KW!Plain("iv2", 12), KW!Plain("iv1", 8)},
     auth_data : {KW!Absent, KW!Plain("x", 1)}]
Earlier == ML!WriteToBuf([version |-> "2.0", shift |-> 6,
                       headers |-> << {"HAS_SOURCE", "FETCHED"}, {"HAS_SOURCE", "FETCHED"},
                                      {"WRITTEN"} >>])
OldImages == {<<>>, <<ML!Zero>>, <<ML!Zero, ML!Zero, ML!Zero, ML!Zero>>, Earlier,
                Earlier \o <<ML!Zero>>, <<ML!HeaderSector("1.0", 6, 3), ML!Torn, ML!Zero>>}

I == INSTANCE ConfigIncludes WITH
    Tables <- Tables, Files <- {"f", "g"}, Includes <- IncludeArrays,
    Allowed <- {"device", "secrets"}
S == INSTANCE SecretResolution WITH
    Names <- {"a", "b", "c"}, Definitions <- Definitions, DangerZones <- DangerZones
L == INSTANCE ConfigLoad WITH
    Configs <- Configs
K == INSTANCE KeyStore WITH
    Keks <- Keks
M == INSTANCE MetadataStore WITH
    HeadersPerSector <- 2, MaxShift <- 17, StripeCount <- 3, Source <- {0, 2},
    Shift <- 11, OldImages <- OldImages, MaxCrashes <- 2, MaxInits <- 2
X == INSTANCE XtsTool WITH
    MaxSectors <- 4, Chunk <- 2
R == INSTANCE S3Retry WITH
    DefaultMaxBackoff <- 4, Delays <- {0, 1, 3, 5}, MaxAttempts <- 3

IncludesVars ==
    <<root, entries, files, next, table>>
PhaseVars == <<phase>>
SecretsVars ==
    <<defs, danger_zone, pass, updated, resolved, reads>>
LeftVars == <<remaining>>
LoadVars ==
    <<raw, conf, used, all_fetched>>
KeysVars ==
    <<form, keys, writer, reader, stored, opened>>
StoreVars ==
    <<pc, result, now, durable, created, request, loaded, crashes, inits, fresh, lone>>
ToolVars ==
    <<input, range, middle, output, current_sector>>
RetryVars ==
    <<tuning, attempt, answer, waited, outcome>>

NoIncludes ==
    /\ root = 0 /\ entries = 0 /\ files = 0 /\ next = 0 /\ table = 0
NoPhase == phase = 0
NoSecrets ==
    /\ defs = 0 /\ danger_zone = 0 /\ pass = 0 /\ updated = 0 /\ resolved = 0
    /\ reads = 0
NoLeft == remaining = 0
NoLoad ==
    /\ raw = 0 /\ conf = 0 /\ used = 0 /\ all_fetched = 0
NoKeys ==
    /\ form = 0 /\ keys = 0 /\ writer = 0 /\ reader = 0 /\ stored = 0 /\ opened = 0
NoStore ==
    /\ pc = 0 /\ result = 0 /\ now = 0 /\ durable = 0 /\ created = 0 /\ request = 0
    /\ loaded = 0 /\ crashes = 0 /\ inits = 0 /\ fresh = 0 /\ lone = 0
NoTool ==
    /\ input = 0 /\ range = 0 /\ middle = 0 /\ output = 0 /\ current_sector = 0
NoRetry ==
    /\ tuning = 0 /\ attempt = 0 /\ answer = 0 /\ waited = 0 /\ outcome = 0

Init ==
    /\ part \in Parts
    /\ \/ part = "includes" /\ I!IInit
       \/ part = "secrets" /\ S!SInit
       \/ part = "load" /\ L!LInit
       \/ part = "keys" /\ K!KInit
       \/ part = "metadata" /\ M!SInit
       \/ part = "xts" /\ X!XInit
       \/ part = "retry" /\ R!RInit
    /\ IF part = "includes" THEN TRUE ELSE NoIncludes
    /\ IF part \in {"includes", "secrets", "load", "xts"} THEN TRUE ELSE NoPhase
    /\ IF part = "secrets" THEN TRUE ELSE NoSecrets
    /\ IF part \in {"secrets", "xts"} THEN TRUE ELSE NoLeft
    /\ IF part = "load" THEN TRUE ELSE NoLoad
    /\ IF part = "keys" THEN TRUE ELSE NoKeys
    /\ IF part = "metadata" THEN TRUE ELSE NoStore
    /\ IF part = "xts" THEN TRUE ELSE NoTool
    /\ IF part = "retry" THEN TRUE ELSE NoRetry

Next ==
    /\ UNCHANGED part
    /\ \/ part = "includes" /\ I!INext
       \/ part = "secrets" /\ S!SNext
       \/ part = "load" /\ L!LNext
       \/ part = "keys" /\ K!KNext
       \/ part = "metadata" /\ M!SNext
       \/ part = "xts" /\ X!XNext
       \/ part = "retry" /\ R!RNext
    /\ IF part = "includes" THEN TRUE ELSE UNCHANGED IncludesVars
    /\ IF part \in {"includes", "secrets", "load", "xts"} THEN TRUE ELSE UNCHANGED PhaseVars
    /\ IF part = "secrets" THEN TRUE ELSE UNCHANGED SecretsVars
    /\ IF part \in {"secrets", "xts"} THEN TRUE ELSE UNCHANGED LeftVars
    /\ IF part = "load" THEN TRUE ELSE UNCHANGED LoadVars
    /\ IF part = "keys" THEN TRUE ELSE UNCHANGED KeysVars
    /\ IF part = "metadata" THEN TRUE ELSE UNCHANGED StoreVars
    /\ IF part = "xts" THEN TRUE ELSE UNCHANGED ToolVars
    /\ IF part = "retry" THEN TRUE ELSE UNCHANGED RetryVars

vars ==
    <<part, IncludesVars, PhaseVars, SecretsVars, LeftVars, LoadVars, KeysVars,
    StoreVars, ToolVars, RetryVars>>
Spec == Init /\ [][Next]_vars

\* The loader is a sequential program that runs until it returns.
FairSpec == Spec /\ WF_(S!svars)(part = "secrets" /\ S!SNext)

-----------------------------------------------------------------------------
\* A configuration loads exactly when every file that must be there is, none
\* includes another, no two files give the same key path and no section is
\* unknown, in whatever order the files are listed; and the merged table is the
\* union of its files' tables: merge_tables loses, overwrites and invents no key.
IncludesMerged == part = "includes" => I!LoadsWhenAcceptable /\ I!MergedIsUnion

\* resolve_secrets succeeds exactly when every secret has a meaning, and then
\* yields it, in whatever order the hash map is scanned; it opens a source at
\* most once over all passes, as a named pipe delivers to its first reader only;
\* and a ciphertext resolves in one slot only, its secret's name being its AAD.
\* It ends, with cycles of KEKs too.
SecretsWellDefined ==
    /\ [](part = "secrets" => /\ S!OutcomeIndependentOfOrder
                              /\ S!ReadOnce
                              /\ S!BoundToSlot)
    /\ part = "secrets" ~> (part = "secrets" /\ phase \in {"done", "failed"})

\* No secret is a silently truncated one, and with danger_zone.enabled false
\* none came from the environment, a regular file or plaintext in the
\* configuration, whatever the flags say; a loaded device is then encrypted, and
\* every connection of it or of the server has a pre-shared key.
SafeByDefault ==
    /\ part = "secrets" => S!NeverTruncated /\ S!MasterSwitch
    /\ part = "load" => L!SafeByDefault

\* What loading accepts can be used: no reference dangles, no key has a length
\* its cipher rejects, no pool is empty, no timeout zero; paths do not depend on
\* the working directory, but for the archiver's target; stripes still to be
\* fetched come from the source the configuration names, and the image the lazy
\* device reads is the fetcher's.
LoadedIsUsable ==
    part = "load" => /\ L!LoadedIsUsable
                     /\ L!PathsFollowTheFile
                     /\ L!FetchesFromConfigured

\* A volume is never opened with keys that are not its own, whatever KEK, nonce
\* or authentication data is configured, and the KEK the keys were stored under
\* opens them, for the three forms.
OpensOwnKeys == part = "keys" => K!OpensOwnKeys /\ K!OwnKekOpens

\* Once init-metadata has returned without an error the backend finds the file
\* and loads exactly what was written, after a power failure too; and a load
\* that succeeds on a path that held no metadata returns all of the new
\* metadata: a save cut short at any sector is refused.
SavedIsDurable == part = "metadata" => M!SavedIsDurable /\ M!NoPartialMetadata

\* A range that encode accepts, other than an empty one, decode accepts, and
\* gives the range of the input back, for every start, length and size, whole
\* chunks or not.
RoundTrip == part = "xts" => X!RoundTrip /\ X!DecodeAccepts

\* An S3 operation throttled with 429 is given up only after max_attempts, and
\* after a transient or throttling status the next attempt comes no sooner than
\* min_delay, however large it is against the SDK's own cap.
ThrottlingObeyed ==
    /\ [](part = "retry" => R!ThrottledIsRetried)
    /\ [][part = "retry" =>
        (attempt > 0 /\ attempt' > attempt /\ R!RateLimited /\ answer \in R!Transient \union {429}
            => waited' \in tuning.min_delay .. tuning.min_delay + tuning.jitter)]_vars
=============================================================================
