---------------------------- MODULE ArchiveFormat ----------------------------
(***************************************************************************)
(* The formats of an archive, at the level of fields and lengths:          *)
(* stripe-mapping (stripe_hashes.rs), metadata.json with its HMAC          *)
(* (hmac.rs, mod.rs) and the frame of a compressed stripe                  *)
(* (compression.rs).  Bytes are abstract: [value, len] with a value for    *)
(* what they decode to.  Cryptography is symbolic: a tag is the pair of    *)
(* its key and its input, a ciphertext carries its key and first sector.   *)
(***************************************************************************)
EXTENDS Naturals, XtsCipher

CONSTANTS
    SECTOR_SIZE,    \* 512 in the code
    MaxLen          \* bound on the lengths of plaintexts

Error == [error |-> TRUE]
NoKey == 0
BadKey == 99

compute_hmac_tag(key, input) == <<key, input>>
verify_hmac_tag(key, input, tag) == tag = <<key, input>>

Padding(len) == (SECTOR_SIZE - (len % SECTOR_SIZE)) % SECTOR_SIZE

-----------------------------------------------------------------------------
(* stripe-mapping                                                          *)

MAPPING_VERSION == 1
MAPPING_DOMAIN  == "ubiblk-archive-stripe-mapping"

\* The mapping is encrypted from a sector no stripe is at: XTS_SECTOR_START.
Encrypted(bytes, key) ==
    IF key = NoKey THEN bytes ELSE [bytes EXCEPT !.value = Enc(@, <<key, "mapping">>)]
Decrypted(bytes, key) ==
    IF key = NoKey THEN bytes ELSE [bytes EXCEPT !.value = Dec(@, <<key, "mapping">>)]

manifest_hmac_input(f) == <<f.domain, f.version, f.plaintext_len, f.ciphertext>>

serialize_stripe_mapping(map, hmac_key, cipher) ==
    LET padded == [map EXCEPT !.len = @ + Padding(@)]
        f == [domain |-> MAPPING_DOMAIN, version |-> MAPPING_VERSION,
              plaintext_len |-> map.len, ciphertext |-> Encrypted(padded, cipher)]
    IN  [f |-> f, hmac_tag |-> compute_hmac_tag(hmac_key, manifest_hmac_input(f))]

\* truncate, then the CBOR decoder, which needs every byte of the map.
Decode(bytes, len) ==
    IF len < bytes.plain THEN Error
    ELSE IF bytes.value.layers # <<>> THEN Error ELSE bytes.value

deserialize_stripe_mapping(file, hmac_key, cipher) ==
    LET f == file.f
        decrypted == Decrypted(f.ciphertext, cipher)
    IN  IF \/ f.version # MAPPING_VERSION \/ f.domain # MAPPING_DOMAIN
           \/ f.ciphertext.len % SECTOR_SIZE # 0
           \/ ~verify_hmac_tag(hmac_key, manifest_hmac_input(f), file.hmac_tag)
           \/ f.plaintext_len > decrypted.len
        THEN Error ELSE Decode(decrypted, f.plaintext_len)

-----------------------------------------------------------------------------
(* metadata.json                                                           *)

ARCHIVE_FORMAT_VERSION == 1
validate_format_version(v) == v = ARCHIVE_FORMAT_VERSION

\* The KEK: AES-256-GCM, or none, which leaves a key as it is.
encrypt_key_data(kek, key) == <<kek, key>>
decrypt_key_data(kek, wrapped) == IF wrapped[1] = kek THEN wrapped[2] ELSE BadKey

\* Mutant of metadata_hmac_input: without the stripe size.
metadata_hmac_input_sizeless(md) ==
    <<"ARCHIVE_METADATA_HMAC_V1", md.format_version, md.encryption_key, md.compression>>

metadata_hmac_input(md) ==
    <<"ARCHIVE_METADATA_HMAC_V1", md.format_version, md.stripe_sector_count,
      md.encryption_key, md.compression>>

\* archive_metadata of the archiver; cipher is the XTS key or NoKey.
ArchiveMetadata(stripe_sector_count, cipher, compression, hmac_key, kek) ==
    LET md == [format_version |-> ARCHIVE_FORMAT_VERSION,
               stripe_sector_count |-> stripe_sector_count,
               encryption_key |-> IF cipher = NoKey THEN <<>> ELSE encrypt_key_data(kek, cipher),
               compression |-> compression, hmac_key |-> encrypt_key_data(kek, hmac_key)]
    IN  [md |-> md, metadata_hmac |-> compute_hmac_tag(hmac_key, metadata_hmac_input(md))]

\* ArchiveStripeSource::new up to the mapping: the keys, or Error.
OpenMetadata(file, kek) ==
    LET md  == file.md
        key == decrypt_key_data(kek, md.hmac_key)
        xts == IF md.encryption_key = <<>> THEN NoKey
               ELSE decrypt_key_data(kek, md.encryption_key)
    IN  IF \/ ~validate_format_version(md.format_version)
           \/ key = BadKey \/ xts = BadKey
           \/ ~verify_hmac_tag(key, metadata_hmac_input(md), file.metadata_hmac)
        THEN Error
        ELSE [hmac_key |-> key, cipher |-> xts, compression |-> md.compression,
              stripe_sector_count |-> md.stripe_sector_count]

\* The whole of ArchiveStripeSource::new.
Open(meta, mapping, kek) ==
    LET keys == OpenMetadata(meta, kek)
    IN  IF keys = Error THEN Error
        ELSE LET map == deserialize_stripe_mapping(mapping, keys.hmac_key, keys.cipher)
             IN  IF map = Error THEN Error
                 ELSE [map |-> map, compression |-> keys.compression,
                       stripe_sector_count |-> keys.stripe_sector_count, cipher |-> keys.cipher]

-----------------------------------------------------------------------------
(* A stripe of raw_len bytes that zstd makes size bytes of.  The header    *)
(* holds the size; zstd decodes its bytes exactly, or fails.               *)

HEADER == 4

with_size_header_and_padding(size, raw_len) ==
    [header |-> size, len |-> size + HEADER + Padding(size + HEADER),
     size |-> size, raw_len |-> raw_len]

\* level 0 is no compression: the object is the stripe.
compress(size, raw_len, level) ==
    IF level = 0 THEN [header |-> 0, len |-> raw_len, size |-> raw_len, raw_len |-> raw_len]
    ELSE with_size_header_and_padding(size, raw_len)

\* The number of bytes that go to zstd.
compressed_payload(data) ==
    IF data.len < HEADER \/ data.header + HEADER > data.len THEN Error ELSE [len |-> data.header]

\* zstd needs exactly the bytes it made; ensure_sector_aligned.
decompress(data, level) ==
    IF level = 0 THEN [len |-> data.len]
    ELSE IF compressed_payload(data) # [len |-> data.size] \/ data.raw_len % SECTOR_SIZE # 0
    THEN Error ELSE [len |-> data.raw_len]

-----------------------------------------------------------------------------
(* An archive is written, one field of it is damaged or comes from another *)
(* archive of the same target, and it is opened.                           *)

VARIABLES
    archive,    \* [meta, mapping, frame, level], as the archiver made it
    damaged,    \* the same after the damage
    opened      \* "no", "mapping" or "frame" after the step

vars == <<archive, damaged, opened>>

Kek == 9
Map(n, len) == [value |-> Clear(n), len |-> len, plain |-> len]

\* An archive with number n for its random keys.
Made(n, len, encrypt, level) ==
    LET cipher == IF encrypt THEN n ELSE NoKey
    IN  [meta |-> ArchiveMetadata(2, cipher, level, n, Kek),
         mapping |-> serialize_stripe_mapping(Map(n, len), n, cipher),
         frame |-> compress(len, 2 * SECTOR_SIZE, level), level |-> level]

FInit ==
    /\ \E len \in 1 .. MaxLen, encrypt \in BOOLEAN, level \in 0 .. 1 :
          archive = Made(1, len, encrypt, level)
    /\ damaged = archive /\ opened = "no"

\* One field changes: a value no code wrote, or the field of another archive.
Damages(a) ==
    LET other == Made(2, MaxLen, TRUE, 1)
    IN  {a}
        \cup {[a EXCEPT !.meta.md[f] = other.meta.md[f]] : f \in DOMAIN a.meta.md}
        \cup {[a EXCEPT !.meta.md.format_version = 2],
              [a EXCEPT !.meta.md.stripe_sector_count = 4],
              [a EXCEPT !.meta.md.encryption_key = <<>>],
              [a EXCEPT !.meta.metadata_hmac = other.meta.metadata_hmac],
              [a EXCEPT !.meta = other.meta], [a EXCEPT !.mapping = other.mapping],
              [a EXCEPT !.mapping.hmac_tag = other.mapping.hmac_tag]}
        \cup {[a EXCEPT !.mapping.f[f] = other.mapping.f[f]] : f \in DOMAIN a.mapping.f}
        \cup {[a EXCEPT !.mapping.f.plaintext_len = n] : n \in 0 .. MaxLen + SECTOR_SIZE}
        \cup {[a EXCEPT !.mapping.f.ciphertext.len = n] : n \in 0 .. MaxLen}

Damage ==
    /\ opened = "no" /\ opened' = "mapping" /\ UNCHANGED archive
    /\ damaged' \in Damages(archive)

\* The object of a stripe loses its end.
Truncate ==
    /\ opened = "no" /\ opened' = "frame" /\ UNCHANGED archive
    /\ \E n \in 0 .. archive.frame.len : damaged' = [archive EXCEPT !.frame.len = n]

FNext == Damage \/ Truncate

-----------------------------------------------------------------------------
Contents(a) == Open(a.meta, a.mapping, Kek)

\* What the archiver wrote opens, with the stripe size, the compression and the
\* mapping it wrote; and any archive that opens has them, whatever single field
\* was damaged or belongs to another run: parts of two runs do not mix.
DamageDetected ==
    /\ opened = "no" => Contents(archive) # Error
    /\ Contents(damaged) \in {Error, Contents(archive)}

\* A compressed stripe comes back whole; its object is whole sectors, as the
\* cipher needs, and one that lost compressed bytes is refused.
FrameRoundTrip ==
    /\ archive.frame.len % SECTOR_SIZE = 0
    /\ decompress(archive.frame, archive.level) = [len |-> archive.frame.raw_len]
    /\ decompress(damaged.frame, archive.level) # Error /\ archive.level # 0
          => damaged.frame.len >= HEADER + archive.frame.size
=============================================================================
