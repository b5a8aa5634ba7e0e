------------------------------ MODULE XtsCipher ------------------------------
(***************************************************************************)
(* XtsBlockCipher (crypt/block.rs), symbolically: a sector holds a value   *)
(* under a stack of encryptions, each with the sector number that its      *)
(* tweak was made from.  Decrypting with the number on top takes one layer *)
(* off; with any other number it adds one, as the bytes are then garbage.  *)
(***************************************************************************)
EXTENDS Naturals, Sequences

Clear(v) == [value |-> v, layers |-> <<>>]

Enc(d, sector) == [d EXCEPT !.layers = Append(@, <<"enc", sector>>)]

Dec(d, sector) ==
    LET n == Len(d.layers)
    IN  IF n > 0 /\ d.layers[n] = <<"enc", sector>>
        THEN [d EXCEPT !.layers = SubSeq(@, 1, n - 1)]
        ELSE [d EXCEPT !.layers = Append(@, <<"dec", sector>>)]

\* Mutant of Tweak: every sector of a request gets the tweak of its first.
TweakOfFirst(sector_start, i) == sector_start

\* The sector whose number makes the tweak of the i-th sector of a request.
Tweak(sector_start, i) == sector_start + i - 1

\* encrypt and decrypt work in place on the first sector_count sectors.
Encrypt(buf, sector_start, sector_count) ==
    [i \in DOMAIN buf |-> IF i <= sector_count THEN Enc(buf[i], Tweak(sector_start, i))
                          ELSE buf[i]]
Decrypt(buf, sector_start, sector_count) ==
    [i \in DOMAIN buf |-> IF i <= sector_count THEN Dec(buf[i], Tweak(sector_start, i))
                          ELSE buf[i]]
=============================================================================
