------------------------------ MODULE ConfigLoad ------------------------------
(***************************************************************************)
(* config/v2: the four configurations (device, archive target, archive to  *)
(* export, stripe server) once their files are merged and their secrets    *)
(* resolved: the sections are parsed and validated (load.rs, tuning.rs,    *)
(* stripe_source.rs), and then used by other parts of the program          *)
(* (build_block_device, StripeSourceBuilder, serve_ublk, the server's      *)
(* listener).  A secret is KeyWrap bytes with a flag utf8; a reference is  *)
(* a name or NoRef; a path is <<"abs", p>>, <<"rel", p>> or, resolved,     *)
(* <<"under", p>> the directory of the configuration file.                 *)
(***************************************************************************)
EXTENDS KeyWrap, FiniteSets

CONSTANT Configs    \* the configurations a file may hold

VARIABLES
    raw,            \* the configuration as parsed
    conf,           \* as loaded: its paths resolved (data_path stands for all of [device])
    phase,          \* "parsed", "loaded" or "refused"
    used,           \* what was built from it: [what, ok, paths, source, depth]
    all_fetched     \* has_fetched_all_stripes of the device's metadata

lvars == <<raw, conf, phase, used, all_fetched>>

NoRef == ""
NoPsk == [identity |-> "none", secret |-> NoRef]
MAX_NUM_QUEUES == 63
U16 == 65536

IsPowerOfTwo(n) == \E k \in 0 .. 20 : n = 2 ^ k

-----------------------------------------------------------------------------
(* Validation.                                                             *)

\* Mutant of DangerAllows: the flag alone.
FlagAllows(dz, flag) == flag

DangerAllows(dz, flag) == dz.enabled /\ flag

\* get_resolved_secret and a check of its length.
Resolves(ref, secrets, lengths) == ref \in DOMAIN secrets /\ secrets[ref].bytes.len \in lengths

\* TuningSection::validate; cpus is the number of CPUs listed, or 0 for none.
validate_tuning(t) ==
    /\ t.num_queues \in 1 .. MAX_NUM_QUEUES
    /\ t.queue_size \in 1 .. U16 /\ IsPowerOfTwo(t.queue_size)
    /\ t.seg_size_max \in 1 .. 1048576 /\ t.seg_count_max \in 1 .. 256
    /\ t.cpus \in {0, t.num_queues}
    /\ t.poll_timeout_us <= 10000000

PskLengths == {n \in Nat : n >= 16}
KekLengths == {32}
XtsLengths == {64}
NonEmpty   == Nat \ {0}

\* Mutant of validate_remote: the number of connections is not checked.
validate_remote_unbounded(s, dz, secrets) ==
    /\ s.psk = NoPsk => DangerAllows(dz, dz.allow_unencrypted_connection)
    /\ s.psk # NoPsk => Resolves(s.psk.secret, secrets, PskLengths)
    /\ s.connect_timeout_ms > 0 /\ s.operation_attempt_timeout_ms > 0

\* RemoteStripeConfig::validate.
validate_remote(s, dz, secrets) ==
    /\ s.psk = NoPsk => DangerAllows(dz, dz.allow_unencrypted_connection)
    /\ s.psk # NoPsk => Resolves(s.psk.secret, secrets, PskLengths)
    /\ s.connect_timeout_ms > 0 /\ s.operation_attempt_timeout_ms > 0 /\ s.connections > 0

\* ArchiveStorageConfig::validate.
validate_archive(s, secrets) ==
    /\ s.archive_kek # NoRef => Resolves(s.archive_kek, secrets, KekLengths)
    /\ s.type = "s3" =>
        /\ Resolves(s.access_key_id, secrets, NonEmpty)
        /\ Resolves(s.secret_access_key, secrets, NonEmpty)
        /\ s.session_token # NoRef => Resolves(s.session_token, secrets, NonEmpty)
        /\ s.plain_prefix /\ s.connections > 0
        /\ s.connect_timeout_ms > 0 /\ s.operation_attempt_timeout_ms > 0 /\ s.max_attempts > 0
        /\ s.rate_limited_retry => s.min_delay_ms > 0

validate_source(s, dz, secrets) ==
    CASE s.type = "remote"           -> validate_remote(s, dz, secrets)
      [] s.type \in {"filesystem", "s3"} -> validate_archive(s, secrets)
      [] OTHER                       -> TRUE

\* EncryptionSection::validate_secrets, or none where the danger zone allows it.
validate_encryption(c) ==
    IF c.encryption # NoRef THEN Resolves(c.encryption, c.secrets, XtsLengths)
    ELSE DangerAllows(c.danger_zone, c.danger_zone.allow_unencrypted_disk)

resolve_path(path) == IF path[1] = "rel" THEN <<"under", path[2]>> ELSE path

\* resolve_device_paths, resolve_paths and the path of an archive to export.
resolve_paths(c) ==
    [c EXCEPT !.data_path = resolve_path(@),
              !.source.path = IF c.kind \in {"device", "export"} /\ c.source.type \in {"raw", "filesystem"}
                              THEN resolve_path(@) ELSE @]

\* load_from_value of each kind, after load_common.
Valid(c) ==
    CASE c.kind = "device" -> /\ validate_tuning(c.tuning) /\ validate_source(c.source, c.danger_zone, c.secrets)
                              /\ validate_encryption(c)
      [] c.kind \in {"target", "export"} ->
            c.source.type \in {"filesystem", "s3"} /\ validate_archive(c.source, c.secrets)
      [] c.kind = "server" -> c.source.type = "remote" /\ validate_remote(c.source, c.danger_zone, c.secrets)

LInit ==
    /\ raw \in Configs /\ conf = raw /\ phase = "parsed" /\ used = {} /\ all_fetched \in BOOLEAN

Load ==
    /\ phase = "parsed"
    /\ IF Valid(raw) THEN phase' = "loaded" /\ conf' = resolve_paths(raw) ELSE phase' = "refused" /\ UNCHANGED conf
    /\ UNCHANGED <<raw, used, all_fetched>>

-----------------------------------------------------------------------------
(* Uses.                                                                   *)

Uses(kind, what, ok, paths, source, depth) ==
    /\ phase = "loaded" /\ conf.kind = kind /\ \A u \in used : u.what # what
    /\ used' = used \union {[what |-> what, ok |-> ok, paths |-> paths, source |-> source, depth |-> depth]}
    /\ UNCHANGED <<raw, conf, phase, all_fetched>>

\* UringBlockDevice::new; a synchronous device takes no queue size.
create_io_engine_device(engine, queue_size) == engine = "Sync" \/ IsPowerOfTwo(queue_size)

\* The XTS key is split at byte 32, which panics on a shorter one.
BuildBlockDevice ==
    Uses("device", "disk",
         /\ create_io_engine_device(conf.tuning.io_engine, conf.tuning.queue_size)
         /\ conf.encryption # NoRef => /\ conf.encryption \in DOMAIN conf.secrets
                                       /\ conf.secrets[conf.encryption].bytes.len = 2 * KEY_LEN,
         {conf.data_path}, "disk", conf.tuning.queue_size)

\* PskCredentials::new.
PskCredentials(psk, secrets) ==
    psk.identity # "" /\ psk.secret \in DOMAIN secrets /\ secrets[psk.secret].bytes.len >= 16

\* connect_to_stripe_server; a zero timeout is refused by connect_timeout and set_read_timeout.
Connects(s, secrets) ==
    /\ s.address_parses
    /\ s.psk # NoPsk => PskCredentials(s.psk, secrets)
    /\ s.connect_timeout_ms > 0 /\ s.operation_attempt_timeout_ms > 0

build_archive_kek(s, secrets) ==
    IF s.archive_kek = NoRef THEN [method |-> "None", key |-> Absent, auth_data |-> Absent]
    ELSE [method |-> "Aes256Gcm", key |-> secrets[s.archive_kek].bytes, auth_data |-> Plain("ubiblk_archive", 14)]

\* The KEK wraps keys; the credentials of S3 are text; its client has workers and attempts.
ArchiveOpens(s, secrets) ==
    /\ encrypt_key_data(build_archive_kek(s, secrets), Plain("hmac", 32)) # Err
    /\ s.type = "s3" => /\ \A ref \in {s.access_key_id, s.secret_access_key, s.session_token} \ {NoRef} :
                              ref \in DOMAIN secrets /\ secrets[ref].utf8
                        /\ s.connections > 0 /\ s.max_attempts > 0

SourcePaths(s) == IF s.type \in {"raw", "filesystem"} THEN {s.path} ELSE {}

\* StripeSourceBuilder::build, build_raw_image_device.
SourceBuilt(s) == IF all_fetched \/ s.type = "none" THEN "null" ELSE s.type

BuildSource ==
    LET s == conf.source
        b == SourceBuilt(s)
    IN  Uses("device", "source",
             /\ b \in {"filesystem", "s3"} => ArchiveOpens(s, conf.secrets)
             /\ b = "remote" => Connects(s, conf.secrets) /\ s.connections > 0,
             SourcePaths(s), b, 0)

\* build_bdev_lazy: the image the lazy device reads itself, which copy_on_read leaves to the fetcher.
BuildLazy ==
    LET s == conf.source
        image == s.type = "raw" /\ ~s.copy_on_read
    IN  Uses("device", "lazy", TRUE, IF image THEN {s.path} ELSE {}, IF image THEN "raw" ELSE "null", 0)

\* serve_ublk: queue_size as u16.
ServeUblk == Uses("device", "ublk", TRUE, {}, "disk", conf.tuning.queue_size % U16)

\* The archiver under its target configuration, export-archive under its own.
OpenArchive ==
    \E kind \in {"target", "export"} :
        Uses(kind, "archive", ArchiveOpens(conf.source, conf.secrets), SourcePaths(conf.source), conf.source.type, 0)

Listen ==
    Uses("server", "listener", /\ conf.source.psk # NoPsk => PskCredentials(conf.source.psk, conf.secrets)
                               /\ conf.source.operation_attempt_timeout_ms > 0, {}, "remote", 0)

LNext == Load \/ BuildBlockDevice \/ BuildSource \/ BuildLazy \/ ServeUblk \/ OpenArchive \/ Listen
LSpec == LInit /\ [][LNext]_lvars

-----------------------------------------------------------------------------
(* What loading accepts can be used: no reference dangles, no key has a    *)
(* length its cipher rejects, no pool is empty and no timeout is zero when *)
(* the disk, the stripe source, an archive or the listener is built.       *)
LoadedIsUsable == \A u \in used : u.ok

(* With danger_zone.enabled false a loaded device is encrypted and every   *)
(* connection it or the server makes has a pre-shared key.                 *)
SafeByDefault ==
    phase = "loaded" /\ ~conf.danger_zone.enabled =>
        /\ conf.kind = "device" => conf.encryption # NoRef
        /\ conf.source.type = "remote" => conf.source.psk # NoPsk

(* The paths a loaded configuration is used with do not depend on the      *)
(* working directory of the process, but for the archiver's target, whose  *)
(* path load_from_value leaves as it is.                                   *)
PathsFollowTheFile ==
    conf.kind # "target" => \A u \in used : \A p \in u.paths : p[1] # "rel"

(* Stripes still to be fetched come from the source the configuration      *)
(* names, and the image the lazy device reads is the fetcher's.            *)
FetchesFromConfigured ==
    \A u \in used :
        /\ u.what = "source" /\ ~all_fetched /\ conf.source.type # "none" => u.source = conf.source.type
        /\ u.what = "lazy" /\ u.source = "raw" =>
               \A v \in used : v.what = "source" /\ ~all_fetched => v.source = "raw" /\ v.paths = u.paths
=============================================================================
