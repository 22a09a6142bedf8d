------------------------------- MODULE SdCrc -------------------------------
(***************************************************************************)
(* The two checksums of the SD driver (sd.c), byte by byte, next to the    *)
(* bit-serial division by the polynomial each one's comment names.  A      *)
(* behaviour feeds one block of bytes to crc16, and a second, damaged copy *)
(* of the block to a second register.                                      *)
(*                                                                         *)
(* A word is the set of the positions of its ones: "^" is the symmetric    *)
(* difference, "&" the intersection and "|" the union.                     *)
(***************************************************************************)
EXTENDS Naturals, FiniteSetsExt

CONSTANTS Bytes,       \* byte values fed freely
          MaxFree,     \* how many of them
          BlockLen     \* bytes of a block: 512

ASSUME BytesAssumption == Bytes \subseteq SUBSET (0 .. 7)

VARIABLES fed,      \* bytes fed
          crc,      \* crc of sd_copy over the block
          rem,      \* remainder of the block by the polynomial
          crc2,     \* crc over the damaged copy
          hit,      \* "no" damaged byte yet, the last byte was the first "now", "past"
          ones      \* has every byte been 0xff?

crcvars == <<fed, crc, rem, crc2, hit, ones>>

(* s << k and s >> k in a word of w bits. *)
Left(w, s, k) == {j \in k .. w - 1 : j - k \in s}
Right(w, s, k) == {j \in 0 .. w - 1 : j + k \in s}

-----------------------------------------------------------------------------
(* A fault: the last term is left out. *)
crc16_short(c, data) ==
  LET s1 == Right(16, c, 8) \union Left(16, c, 8)
      s2 == SymDiff(s1, data)
      s3 == SymDiff(s2, Right(16, s2, 4) \intersect 0 .. 3)
  IN  SymDiff(s3, Left(16, s3, 12))

(* A fault: the bytes are only collected, without the polynomial's terms. *)
crc16_unmixed(c, data) == Right(16, c, 8) \union Left(16, c, 8) \union data

crc16(c, data) ==
  LET s1 == Right(16, c, 8) \union Left(16, c, 8)
      s2 == SymDiff(s1, data)
      s3 == SymDiff(s2, Right(16, s2, 4) \intersect 0 .. 3)
      s4 == SymDiff(s3, Left(16, s3, 12))
  IN  SymDiff(s4, Left(16, s4 \intersect 0 .. 7, 5))

(* With "&" where the checksum needs "^": from 0 it stays 0. *)
crc7(prev, in) ==
  LET s1 == prev \intersect in
      s2 == SymDiff(s1, SymDiff(Right(8, s1, 4), Right(8, s1, 7)))
      s3 == SymDiff(s2, Left(8, s2, 4))
  IN  s3 \intersect 0 .. 6

-----------------------------------------------------------------------------
(* One step of the division by a polynomial of degree w, most significant  *)
(* bit first, and the eight steps of a byte.                               *)
DivideBit(poly, w, reg, bit) ==
  IF (w - 1 \in reg) <=> bit THEN Left(w, reg, 1)
                             ELSE SymDiff(Left(w, reg, 1), poly \ {w})

Divide(poly, w, reg, byte) ==
  LET bit(r, k) == DivideBit(poly, w, r, k \in byte)
  IN  bit(bit(bit(bit(bit(bit(bit(bit(reg, 7), 6), 5), 4), 3), 2), 1), 0)

Poly16 == {16, 12, 5, 0}    \* 0x11021
Poly7 == {7, 3, 0}          \* 0x89

CrcInit == /\ fed = 0
           /\ crc = {} /\ rem = {} /\ crc2 = {}
           /\ hit = "no"
           /\ ones = TRUE

(* The loop of sd_copy takes the next byte; the copy's is damaged in at    *)
(* most two bytes of the block, next to each other.                        *)
Feed(d, d2) ==
  /\ fed < BlockLen
  /\ fed < MaxFree \/ (ones /\ d = 0 .. 7 /\ d2 = d)
  /\ d2 # d => hit # "past"
  /\ fed' = fed + 1
  /\ crc' = crc16(crc, d)
  /\ rem' = Divide(Poly16, 16, rem, d)
  /\ crc2' = crc16(crc2, d2)
  /\ hit' = CASE hit = "no" /\ d2 = d -> "no"
              [] hit = "no" /\ d2 # d -> "now"
              [] OTHER -> "past"
  /\ ones' = (ones /\ d = 0 .. 7)

CrcNext == \E d, d2 \in Bytes : Feed(d, d2)

CrcSpec == CrcInit /\ [][CrcNext]_crcvars

(* crc16 is the remainder by the polynomial 0x11021 that its comment names. *)
Crc16IsRemainder == crc = rem

(* Damage shows: damage to one byte or to two bytes in a row changes the   *)
(* checksum, however many bytes follow.                                    *)
DamageShows == hit # "no" => crc2 # crc

(* A card that stops driving the line is caught: a block of ones does not  *)
(* have the checksum 0xffff.                                               *)
OnesShow == ones /\ fed = BlockLen => crc # 0 .. 15

-----------------------------------------------------------------------------
(* The checksum of CMD18: the command byte and the four bytes of the block *)
(* number, through crc7.                                                   *)
FeedCommand(d) ==
  /\ fed < 5
  /\ fed = 0 => d = {6, 4, 1}               \* 0x40 | 18
  /\ fed' = fed + 1
  /\ crc' = crc7(crc, d)
  /\ rem' = Divide(Poly7, 7, rem, d)
  /\ UNCHANGED <<crc2, hit, ones>>

CommandSpec == CrcInit /\ [][\E d \in Bytes \cup {{6, 4, 1}} : FeedCommand(d)]_crcvars

(* sd.c: "CRC polynomial 0x89".  The checksum sd_copy sends with CMD18 is  *)
(* the remainder of the command by that polynomial.                        *)
Crc7IsRemainder == crc = rem
=============================================================================
