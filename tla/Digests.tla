------------------------------ MODULE Digests ------------------------------
(***************************************************************************)
(* The three streaming digests of the library behind the one interface a   *)
(* caller sees, hash.Hash: OMAC, Streebog and GOST R 34.11-94.  An object  *)
(* is constructed for one of them; the variables are the fields of all     *)
(* three, and those that the algorithm in use does not have never change.  *)
(***************************************************************************)
EXTENDS Blocks

CONSTANTS
  OmacBlock, HashBlock,  \* block size of OMAC's cipher and of the hashes
  Base,                  \* number of byte values
  BitsPerByte,
  Sizes,                 \* output sizes of Streebog
  MaxMsg                 \* bound: message length a run looks at

ASSUME DigestsAssumption ==
  /\ OmacBlock \in Nat \ {0} /\ HashBlock \in Nat \ {0} /\ Base \in Nat \ {0, 1} /\ MaxMsg \in Nat
  /\ BitsPerByte \in Nat \ {0}

\* Powers of the base, as far as a block reaches.
ASSUME PowerAssumption ==
  \A i \in 0..HashBlock : Base^i \in Nat \ {0} /\ Base^(i + 1) = Base * Base^i

VARIABLES alg, size, h, n, sum, len, buf, nbuf, stage, p, msg, tag

vars == <<alg, size, h, n, sum, len, buf, nbuf, stage, p, msg, tag>>

OMAC == INSTANCE Omac WITH BlockSize <- OmacBlock, Bytes <- 0..(Base - 1), Zero <- 0, Pad <- 1,
                           st <- stage, state <- h
Stb  == INSTANCE Streebog WITH BlockSize <- HashBlock
R94  == INSTANCE GostR341194 WITH BlockSize <- HashBlock

Init ==
  \/ /\ alg = "omac" /\ OMAC!Init
     /\ size = 0 /\ n = 0 /\ sum = 0 /\ len = 0 /\ nbuf = 0
  \/ /\ alg = "streebog" /\ Stb!Init /\ len = 0
  \/ /\ alg = "gostr341194" /\ R94!Init
     /\ size = 0 /\ n = 0

Next ==
  \/ alg = "omac" /\ OMAC!Next /\ UNCHANGED <<alg, size, n, sum, len, nbuf>>
  \/ alg = "streebog" /\ Stb!Next /\ UNCHANGED <<alg, len>>
  \/ alg = "gostr341194" /\ R94!Next /\ UNCHANGED <<alg, size, n>>

Spec == Init /\ [][Next]_vars

-----------------------------------------------------------------------------
(* Properties *)

DigestOf(c, m) ==
  CASE c[1] = "omac"        -> OMAC!OmacOf(m)
    [] c[1] = "streebog"    -> Stb!StreebogOf(c[2], m)
    [] c[1] = "gostr341194" -> R94!R94Of(m)

\* What Sum would return now.
Current ==
  CASE alg = "omac"        -> OMAC!SumOf(h, buf)
    [] alg = "streebog"    -> Stb!Finalized
    [] alg = "gostr341194" -> R94!Finalized

\* Messages are told apart: no other message of bounded length has the value Sum
\* would return now.  OMAC has its two subkeys for it, Streebog the bit of its
\* padding, and GOST R 34.11-94, whose zero padding carries no marker, the length
\* block (omac.go:180-200, streebog.go:447-482, gostr341194.go:344-385).
Separates ==
  stage = "idle" => \A m \in MessagesUpTo(0..(Base - 1), MaxMsg) : DigestOf(<<alg, size>>, m) = Current => m = msg

Abstract == INSTANCE Digest WITH cfg <- <<alg, size>>, NoTag <- <<>>

\* The promise of Digest: Sum between any two Writes is the value of everything
\* written, however the Writes cut it and whatever stale bytes the buffer holds;
\* OMAC keeps a complete last block until more data follows, the rule for the
\* empty message fires for that one only, checksums wrap; Sum leaves the running
\* state alone, and Reset forgets the message, its length and its checksum
\* (omac.go:144-213, modes.go:126, streebog.go:377-482, gostr341194.go:301-385).
RefinesDigest == Abstract!Spec

-----------------------------------------------------------------------------
(* The inductive invariant *)

IInv ==
  /\ alg \in {"omac", "streebog", "gostr341194"}
  /\ alg = "omac" => OMAC!Inv
  /\ alg = "streebog" => Stb!Inv
  /\ alg = "gostr341194" => R94!Inv
=============================================================================
