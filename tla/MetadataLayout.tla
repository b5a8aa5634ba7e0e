--------------------------- MODULE MetadataLayout ---------------------------
(***************************************************************************)
(* The metadata device as sectors: UbiMetadata::write_to_buf, from_bytes   *)
(* and has_fetched_all_stripes (metadata/types.rs).                        *)
(*                                                                         *)
(* A sector is valid or not: its CRC32 matches its other 508 bytes.  The   *)
(* bytes of sector 0 are a record; those of a data sector are the headers  *)
(* of its stripes, padded with zero bytes.  A sector that was never        *)
(* written, all zero, is not valid.                                        *)
(***************************************************************************)
EXTENDS Naturals, Sequences

CONSTANTS
    HeadersPerSector,   \* STRIPE_HEADERS_PER_SECTOR, 508 in the code
    MaxShift            \* MAX_STRIPE_SECTOR_COUNT_SHIFT, 17 in the code

Zero    == [crc |-> FALSE]
Torn    == [crc |-> FALSE]
NoFlags == {}

\* write_sector_with_crc32.
HeaderSector(version, shift, count) ==
    [crc |-> TRUE, magic |-> TRUE, version |-> version, shift |-> shift, count |-> count]
DataSector(headers) == [crc |-> TRUE, magic |-> FALSE, headers |-> headers]

CeilDiv(a, b) == (a + b - 1) \div b

\* metadata_size, in sectors.
MetadataSectors(md) == 1 + CeilDiv(Len(md.headers), HeadersPerSector)

\* write_to_buf, over the whole of the metadata's sectors.
WriteToBuf(md) ==
    [i \in 1 .. MetadataSectors(md) |->
       IF i = 1 THEN HeaderSector(md.version, md.shift, Len(md.headers))
       ELSE DataSector([k \in 1 .. HeadersPerSector |->
              LET s == (i - 2) * HeadersPerSector + k
              IN  IF s <= Len(md.headers) THEN md.headers[s] ELSE NoFlags])]

Failure(why) == [ok |-> FALSE, why |-> why]

\* The CRC of every sector that holds headers.
GroupsValid(image, count) ==
    \A g \in 1 .. CeilDiv(count, HeadersPerSector) : image[g + 1].crc

\* The headers of the first `count` stripes.
HeadersOf(image, count) ==
    [s \in 1 .. count |->
       LET sector == image[((s - 1) \div HeadersPerSector) + 2]
       IN  IF ~sector.crc \/ sector.magic THEN NoFlags
           ELSE sector.headers[((s - 1) % HeadersPerSector) + 1]]

\* from_bytes of an image that is a whole number of sectors.
FromBytes(image) ==
    IF Len(image) < 1 THEN Failure("buffer too small")
    ELSE LET h == image[1] IN
      IF ~h.crc THEN Failure("header crc")
      ELSE IF ~h.magic THEN Failure("magic")
      ELSE IF h.version # "2.0" THEN Failure("version")
      ELSE IF h.shift > MaxShift THEN Failure("shift")
      ELSE IF h.count > (Len(image) - 1) * HeadersPerSector THEN Failure("stripe count")
      ELSE IF ~GroupsValid(image, h.count) THEN Failure("group crc")
      ELSE [ok |-> TRUE, version |-> h.version, shift |-> h.shift,
            headers |-> HeadersOf(image, h.count)]

\* UbiMetadata::new and new_from_stripe_source: a flag for the stripes that the
\* source has, nothing fetched and nothing written.
NewMetadata(shift, base_stripe_count, source) ==
    [version |-> "2.0", shift |-> shift,
     headers |-> [s \in 1 .. base_stripe_count |->
                    IF (s - 1) \in source THEN {"HAS_SOURCE"} ELSE NoFlags]]

Loaded(md) == [ok |-> TRUE, version |-> md.version, shift |-> md.shift,
               headers |-> md.headers]
=============================================================================
