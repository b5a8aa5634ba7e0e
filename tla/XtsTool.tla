------------------------------- MODULE XtsTool -------------------------------
(***************************************************************************)
(* The xts command (bin/xts.rs), run to encode a range of an image and     *)
(* then to decode the same range of its output.  A step is one round of    *)
(* the command's loop: a chunk read, written and waited for.               *)
(***************************************************************************)
EXTENDS Integers, XtsCipher

CONSTANTS
    MaxSectors,     \* bound on the size of an image
    Chunk           \* MAX_CHUNK_SECTORS, 1024 in the code

VARIABLES
    input,      \* the clear image, sector by sector
    range,      \* [start, len]: --start and --len, NoLen if not given
    phase,      \* encode, encoding, decode, decoding, done, failed
    middle,     \* the output file of the encoding
    output,     \* the output file of the decoding
    current_sector, remaining

vars  == <<input, range, phase, middle, output, current_sector, remaining>>
NoLen == MaxSectors + 2

XInit ==
    /\ input \in UNION {[1 .. n -> {Clear(1), Clear(2)}] : n \in 0 .. MaxSectors}
    /\ range \in [start : 0 .. MaxSectors, len : 0 .. NoLen]
    /\ phase = "encode" /\ middle = <<>> /\ output = <<>>
    /\ current_sector = 0 /\ remaining = 0

\* The checks of both actions on a file of `total` sectors: the sectors to
\* process, or -1 for an error.
SectorsToProcess(total) ==
    IF range.start >= total THEN -1
    ELSE IF range.len = NoLen THEN total - range.start
    ELSE IF range.len > total - range.start THEN -1
    ELSE range.len

Begin(from, total, next) ==
    /\ phase = from
    /\ IF SectorsToProcess(total) = -1
       THEN phase' = "failed" /\ UNCHANGED <<current_sector, remaining>>
       ELSE /\ phase' = next /\ current_sector' = range.start
            /\ remaining' = SectorsToProcess(total)
    /\ UNCHANGED <<input, range>>

\* The output is made and set to the length of the range.
BeginEncode ==
    /\ Begin("encode", Len(input), "encoding")
    /\ middle' = [i \in 1 .. remaining' |-> Clear(0)]
    /\ UNCHANGED output

BeginDecode ==
    /\ Begin("decode", Len(middle), "decoding")
    /\ UNCHANGED <<middle, output>>

Least(a, b) == IF a <= b THEN a ELSE b
ChunkSectors == Least(remaining, Chunk)

\* write_all_at: a file that is written behind its end grows.
WriteAt(file, at, data) ==
    [i \in 1 .. (IF at + Len(data) > Len(file) THEN at + Len(data) ELSE Len(file)) |->
       IF i > at /\ i <= at + Len(data) THEN data[i - at]
       ELSE IF i <= Len(file) THEN file[i] ELSE Clear(0)]

Advance == current_sector' = current_sector + ChunkSectors
           /\ remaining' = remaining - ChunkSectors /\ UNCHANGED <<input, range>>

\* Mutant of EncodeChunk: the output is addressed from the start of the range.
EncodeChunkPacked ==
    /\ phase = "encoding" /\ remaining > 0 /\ Advance
    /\ middle' = WriteAt(middle, current_sector - range.start,
         Encrypt(SubSeq(input, current_sector + 1, current_sector + ChunkSectors),
                 current_sector, ChunkSectors))
    /\ UNCHANGED <<phase, output>>

\* read_exact from the input, add_write on the encrypting device.
EncodeChunk ==
    /\ phase = "encoding" /\ remaining > 0 /\ Advance
    /\ middle' = WriteAt(middle, current_sector,
         Encrypt(SubSeq(input, current_sector + 1, current_sector + ChunkSectors),
                 current_sector, ChunkSectors))
    /\ UNCHANGED <<phase, output>>

\* add_read on the encrypting device, write_all to the output.
DecodeChunk ==
    /\ phase = "decoding" /\ remaining > 0 /\ Advance
    /\ output' = output \o Decrypt(SubSeq(middle, current_sector + 1,
                                          current_sector + ChunkSectors),
                                   current_sector, ChunkSectors)
    /\ UNCHANGED <<phase, middle>>

Finish(from, next) ==
    /\ phase = from /\ remaining = 0 /\ phase' = next
    /\ UNCHANGED <<input, range, middle, output, current_sector, remaining>>

XNext ==
    \/ BeginEncode \/ EncodeChunk \/ Finish("encoding", "decode")
    \/ BeginDecode \/ DecodeChunk \/ Finish("decoding", "done")

XSpec == XInit /\ [][XNext]_vars /\ WF_vars(XNext)

-----------------------------------------------------------------------------
\* Decoding the range that was encoded gives the range of the input back, for
\* every start, length and size, whole chunks or not.
RoundTrip ==
    phase = "done" =>
      output = SubSeq(input, range.start + 1,
                      IF range.len = NoLen THEN Len(input) ELSE range.start + range.len)

\* A range that encode accepts, other than an empty one, is accepted by decode.
DecodeAccepts ==
    phase = "failed" => middle = <<>>
=============================================================================
