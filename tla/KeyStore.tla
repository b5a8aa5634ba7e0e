------------------------------- MODULE KeyStore ------------------------------
(***************************************************************************)
(* A pair of XTS keys wrapped under one key-encryption key and unwrapped,  *)
(* later and by another process, under the one its operator configured:    *)
(* an archive written under one configuration and opened under another     *)
(* (XtsBlockCipher::encrypted_key, encrypted_keys), or a v0.2.x volume     *)
(* served with --legacy-kek (load_legacy_config).                          *)
(***************************************************************************)
EXTENDS KeyWrap

CONSTANT Keks       \* the key-encryption keys an operator may configure

VARIABLES
    form,       \* "combined", "pair" or "legacy": how the keys are stored
    keys,       \* the keys of the volume
    writer,     \* the KEK they are stored under, reader: the one they are opened with
    reader,
    stored,     \* the wrapped keys, Absent before
    opened      \* the result of opening, Absent before

kvars == <<form, keys, writer, reader, stored, opened>>

Keys == [k1 |-> Plain("k1", KEY_LEN), k2 |-> Plain("k2", KEY_LEN)]

KInit ==
    /\ form \in {"combined", "pair", "legacy"} /\ keys = Keys
    /\ writer \in Keks /\ reader \in Keks
    /\ stored = Absent /\ opened = Absent

Store ==
    /\ stored = Absent
    /\ form = "legacy" /\ writer.method # "None" => LegacyUsable(writer)
    /\ stored' = CASE form = "combined" -> encrypt_key_data(writer, Combined(keys))
                   [] form = "pair"     -> encrypt_xts_keys(writer, keys.k1, keys.k2)
                   [] form = "legacy"   -> Both(legacy_wrap(writer, keys.k1), legacy_wrap(writer, keys.k2))
    /\ UNCHANGED <<form, keys, writer, reader, opened>>

\* load_legacy_config stores the unwrapped keys as one inline secret in base64
\* and resolves it, which gives the 64 bytes back; build_block_device splits them.
load_legacy_config(wrapped, kek) ==
    LET k == unwrap_xts_key(wrapped, kek) IN IF k = Err THEN Err ELSE from_combined_key(Combined(k))

Open ==
    /\ stored \notin {Absent, Err} /\ opened = Absent
    /\ opened' = CASE form = "combined" -> from_combined_key(decrypt_key_data(reader, stored))
                   [] form = "pair"     -> decrypt_xts_keys(reader, stored.k1, stored.k2)
                   [] form = "legacy"   -> load_legacy_config(stored, reader)
    /\ UNCHANGED <<form, keys, writer, reader, stored>>

KNext == Store \/ Open
KSpec == KInit /\ [][KNext]_kvars

(* A volume is never opened with keys that are not its own: under a KEK    *)
(* of another key, nonce, authentication data or method, or with no KEK at *)
(* all for wrapped keys, opening fails (decrypt_xts_keys, from_combined_key,*)
(* unwrap_xts_key).                                                        *)
OpensOwnKeys == opened \notin {Absent, Err} => opened = keys

(* The KEK the keys were stored under opens them, for the three forms.     *)
OwnKekOpens == opened # Absent /\ reader = writer => opened = keys
=============================================================================
