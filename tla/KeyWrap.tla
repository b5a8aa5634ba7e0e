------------------------------- MODULE KeyWrap -------------------------------
(***************************************************************************)
(* Keys encrypted under other keys: crypt/key.rs, the key forms of         *)
(* crypt/block.rs and the v0.2.x unwrapping of stripe_server/legacy.rs.    *)
(* Bytes are symbolic: [v |-> what they are, len |-> how many there are].  *)
(* AES-256-GCM is ideal: a sealed value opens under its own key, nonce and *)
(* authentication data and under no other; the current format carries its  *)
(* random nonce with it, v0.2.x keeps a fixed one in the KEK file.         *)
(***************************************************************************)
EXTENDS Naturals, Sequences

Err == [error |-> TRUE]
Absent == [absent |-> TRUE]
Bytes(v, len) == [v |-> v, len |-> len]
Plain(id, len) == Bytes(<<"plain", id>>, len)

GCM_TAG_SIZE == 16
GCM_NONCE_SIZE == 12
KEY_LEN == 32
InBand == <<"carried">>      \* the nonce in front of the ciphertext

new_cipher(key) == key.len = KEY_LEN      \* Aes256Gcm::new_from_slice
Seal(key, nonce, aad, plain) == <<"sealed", key.v, nonce, aad, plain.v>>
Opens(key, nonce, aad, c) ==
    Len(c.v) = 5 /\ c.v[2] = key.v /\ c.v[3] = nonce /\ c.v[4] = aad

aes256gcm_encrypt(key, aad, plain) ==
    IF ~new_cipher(key) THEN Err
    ELSE Bytes(Seal(key, InBand, aad, plain), GCM_NONCE_SIZE + plain.len + GCM_TAG_SIZE)

aes256gcm_decrypt(key, aad, c) ==
    IF new_cipher(key) /\ c.len >= GCM_NONCE_SIZE + GCM_TAG_SIZE /\ Opens(key, InBand, aad, c)
    THEN Bytes(c.v[5], c.len - GCM_NONCE_SIZE - GCM_TAG_SIZE) ELSE Err

ensure_32_bytes(data) == IF data # Err /\ data.len = KEY_LEN THEN data ELSE Err

Both(k1, k2) == IF Err \in {k1, k2} THEN Err ELSE [k1 |-> k1, k2 |-> k2]

-----------------------------------------------------------------------------
(* KeyEncryptionCipher: [method, key, auth_data].                          *)

init_context(kek) == kek.key # Absent /\ kek.auth_data # Absent

encrypt_key_data(kek, plaintext) ==
    IF kek.method = "None" THEN plaintext
    ELSE IF init_context(kek) THEN aes256gcm_encrypt(kek.key, kek.auth_data, plaintext) ELSE Err

decrypt_key_data(kek, ciphertext) ==
    IF kek.method = "None" THEN ciphertext
    ELSE IF init_context(kek) THEN aes256gcm_decrypt(kek.key, kek.auth_data, ciphertext) ELSE Err

encrypt_xts_keys(kek, key1, key2) == Both(encrypt_key_data(kek, key1), encrypt_key_data(kek, key2))

decrypt_xts_keys(kek, key1, key2) ==
    Both(ensure_32_bytes(decrypt_key_data(kek, key1)), ensure_32_bytes(decrypt_key_data(kek, key2)))

\* XtsBlockCipher::encrypted_key and from_encrypted_key: the two keys as one of
\* 64 bytes, split in the middle.
Combined(keys) == Bytes(<<"both", keys.k1.v, keys.k2.v>>, 2 * KEY_LEN)

Halves(data) ==
    IF data.v[1] = "both"
    THEN [k1 |-> Bytes(data.v[2], KEY_LEN), k2 |-> Bytes(data.v[3], KEY_LEN)]
    ELSE [k1 |-> Bytes(<<"half", data.v>>, KEY_LEN), k2 |-> Bytes(<<"rest", data.v>>, data.len - KEY_LEN)]

\* Mutant of from_combined_key: halves whatever it is given.
from_any_key(data) == IF data = Err THEN Err ELSE Halves(data)

from_combined_key(data) == IF data = Err \/ data.len # 2 * KEY_LEN THEN Err ELSE Halves(data)

-----------------------------------------------------------------------------
(* v0.2.x: the KEK file holds the nonce; auth_data defaults to nothing.    *)

NONCE_LEN == 12

\* required, Aes256Gcm::new_from_slice and the length of the nonce.
LegacyUsable(kek) ==
    Absent \notin {kek.key, kek.init_vector} /\ new_cipher(kek.key) /\ kek.init_vector.len = NONCE_LEN

LegacyAad(kek) == IF kek.auth_data = Absent THEN Plain("", 0) ELSE kek.auth_data

legacy_wrap(kek, key) ==
    IF kek.method = "None" THEN key
    ELSE Bytes(Seal(kek.key, kek.init_vector.v, LegacyAad(kek), key), key.len + GCM_TAG_SIZE)

into_key(bytes) == ensure_32_bytes(bytes)

decrypt_key(kek, wrapped) ==
    IF wrapped.len >= GCM_TAG_SIZE /\ Opens(kek.key, kek.init_vector.v, LegacyAad(kek), wrapped)
    THEN into_key(Bytes(wrapped.v[5], wrapped.len - GCM_TAG_SIZE)) ELSE Err

unwrap_xts_key(wrapped, kek) ==
    IF kek.method = "None" THEN Both(into_key(wrapped.k1), into_key(wrapped.k2))
    ELSE IF ~LegacyUsable(kek) THEN Err ELSE Both(decrypt_key(kek, wrapped.k1), decrypt_key(kek, wrapped.k2))
=============================================================================
