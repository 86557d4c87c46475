----------------------------- MODULE MgmLengths -----------------------------
(***************************************************************************)
(* mgm/mgm.go: the length limits of Seal and Open, in the word arithmetic  *)
(* of the code.  half is n/2 in bits, uint the width of the platform's     *)
(* int.  The lengths a and p, of the additional data and the payload, are  *)
(* values of that int.                                                     *)
(***************************************************************************)
EXTENDS Integers

CONSTANTS
  BitsPerByte, \* bitsPerByte, 8 in the code
  ShiftAdj,    \* lengthFieldShiftAdj, 3 in the code
  WordBits     \* uint64Bits

ASSUME LengthAssumption ==
  WordBits \in Nat \ {0} /\ ShiftAdj \in 1..WordBits /\ BitsPerByte = 2^ShiftAdj

\* Powers of two, as far as the word width reaches.
ASSUME PowerAssumption == \A n \in 0..WordBits : 2^n \in Nat \ {0} /\ 2^(n + 1) = 2 * 2^n

maxFieldLen(half, uint) ==
  LET shift == half - ShiftAdj
  IN  IF shift >= uint - 1 THEN 2^(uint - 1) - 1 ELSE 2^shift - 1

word(x) == x % 2^WordBits

\* Mutant: no check for overflow.
validateLensOverflowing(half, aLen, pLen) ==
  half < WordBits => word(word(aLen * BitsPerByte) + word(pLen * BitsPerByte)) < 2^half

validateLens(half, aLen, pLen) ==
  LET aBits == word(aLen * BitsPerByte)
      s     == word(aBits + word(pLen * BitsPerByte))
  IN  /\ aBits <= s
      /\ half < WordBits => s < 2^half

\* The guards of Seal and of Open.
ValidLens(half, uint, a, p) ==
  /\ p # 0 \/ a # 0
  /\ p <= maxFieldLen(half, uint) /\ a <= maxFieldLen(half, uint)
  /\ validateLens(half, a, p)

\* A length as the n/2-bit field of the length block keeps it.
LenField(half, len) == word(len * BitsPerByte) % 2^half

\* The lengths an int of that width can hold.
Lengths(uint) == 0..(2^(uint - 1) - 1)

\* The lengths RFC 9058 allows, 0 < |A| + |P| < 2^(n/2) in bits.
RFCLens(half, a, p) == a + p > 0 /\ (a + p) * BitsPerByte < 2^half
=============================================================================
