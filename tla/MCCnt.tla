------------------------------- MODULE MCCnt -------------------------------
(* Cnt with 2-byte blocks, meshing every 3 blocks and 3-bit words: both     *)
(* halves of the counter wrap within a generation.                          *)
EXTENDS Cnt

\* A bijection of the blocks for every cipher.
MCEncrypt(k, b) ==
  LET t == k[2] + (IF k[1] = "tc26z" THEN 2 ELSE 0)
  IN  <<(3 * b[2] + t) % Word, (b[1] + 5 * t + 1) % Word>>

MCIVs == Pairs
MCCallLens == {0, 1, 2, 3, 5, 7, 12}
=============================================================================
