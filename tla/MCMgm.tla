------------------------------- MODULE MCMgm -------------------------------
(* Mgm with blocks of four 2-bit bytes, so that a partial block can leave    *)
(* stale bytes in the padding buffer.  A field of the length block has 4     *)
(* bits: 7 bytes in all may be sealed and 8 may not.                         *)
EXTENDS Mgm

MCMessages == {<<>>, <<0>>, <<0, 1, 1>>, <<1, 0, 0, 0, 1>>}

\* Right, other, top bit set, too short.
MCNonces == {<<4, 0, 0>>, <<4, 0, 1>>, <<4, 1, 0>>, <<3, 0, 0>>}
=============================================================================
