---------------------------- MODULE GostR341194 ----------------------------
(***************************************************************************)
(* gostr341194/gostr341194.go: the hash.Hash of GOST R 34.11-94.           *)
(*                                                                         *)
(* Data abstraction as in Streebog: bytes are digits to the base Base, a   *)
(* block is the number it encodes, the chaining value is the sequence of   *)
(* blocks that chi has absorbed, and buf keeps its stale bytes.  The bit   *)
(* length is a uint64 in the code and does not wrap within a run.          *)
(***************************************************************************)
EXTENDS Blocks

CONSTANTS
  BlockSize,   \* BlockSize, 32 in the code
  Base,        \* number of byte values
  BitsPerByte, \* bitsPerByte
  MaxMsg       \* bound: message length a run looks at

Bytes == 0..(Base - 1)

VARIABLES
  h, sum, len, \* absorbed blocks, checksum, bit length of the full blocks
  buf, nbuf,   \* partial block
  stage,       \* "idle", or where Write stands: "fill" or "blocks"
  p,           \* the rest of the data of the Write in progress
  msg,         \* history: the message since the last Reset
  tag          \* history: the last value Sum returned

vars == <<h, sum, len, buf, nbuf, stage, p, msg, tag>>

NoTag == <<>>

Number(b) == NumberOf(b, BlockSize, Base)

addMod(acc, b) == (acc + b) % Base^BlockSize

ZeroBlock == [i \in 1..BlockSize |-> 0]

Init ==
  /\ h = <<>> /\ sum = 0 /\ len = 0 /\ buf = ZeroBlock /\ nbuf = 0
  /\ stage = "idle" /\ p = <<>> /\ msg = <<>> /\ tag = NoTag

\* chi absorbs a message block; length and checksum take note of it.
processBlock(b) ==
  /\ h' = Append(h, Number(b))
  /\ len' = len + BlockSize * BitsPerByte
  /\ sum' = addMod(sum, Number(b))

Copied(b, from, d) ==
  [i \in 1..BlockSize |-> IF i > from /\ i - from <= Len(d) THEN d[i - from] ELSE b[i]]

Write(data) ==
  /\ stage = "idle" /\ Len(msg) + Len(data) <= MaxMsg
  /\ stage' = "fill" /\ p' = data /\ msg' = msg \o data
  /\ UNCHANGED <<h, sum, len, buf, nbuf, tag>>

Fill ==
  /\ stage = "fill"
  /\ stage' = "blocks"
  /\ IF nbuf = 0
     THEN UNCHANGED <<h, sum, len, buf, nbuf, p>>
     ELSE LET take == IF Len(p) <= BlockSize - nbuf THEN Len(p) ELSE BlockSize - nbuf
              full == nbuf + take = BlockSize
          IN  /\ buf' = Copied(buf, nbuf, p)
              /\ p' = SubSeq(p, take + 1, Len(p))
              /\ nbuf' = IF full THEN 0 ELSE nbuf + take
              /\ IF full THEN processBlock(Copied(buf, nbuf, p)) ELSE UNCHANGED <<h, sum, len>>
  /\ UNCHANGED <<msg, tag>>

FullBlock ==
  /\ stage = "blocks" /\ Len(p) >= BlockSize
  /\ processBlock(SubSeq(p, 1, BlockSize))
  /\ p' = SubSeq(p, BlockSize + 1, Len(p))
  /\ UNCHANGED <<buf, nbuf, stage, msg, tag>>

Remainder ==
  /\ stage = "blocks" /\ Len(p) < BlockSize
  /\ IF Len(p) > 0
     THEN buf' = Copied(buf, 0, p) /\ nbuf' = Len(p)
     ELSE UNCHANGED <<buf, nbuf>>
  /\ stage' = "idle" /\ p' = <<>>
  /\ UNCHANGED <<h, sum, len, msg, tag>>

\* The zero-padded tail, counted by its real length; for the empty message one
\* zero block that is not counted; then the length block and the checksum.
TailBlock == PadTo(SubSeq(buf, 1, nbuf), BlockSize, 0)

\* Mutant: the length block counts full blocks only.
FinalizedFullLen ==
  IF nbuf > 0
  THEN h \o <<Number(TailBlock), len, addMod(sum, Number(TailBlock))>>
  ELSE IF len = 0
  THEN h \o <<0, len, sum>>
  ELSE h \o <<len, sum>>

Finalized ==
  IF nbuf > 0
  THEN h \o <<Number(TailBlock), len + nbuf * BitsPerByte, addMod(sum, Number(TailBlock))>>
  ELSE IF len = 0
  THEN h \o <<0, len, sum>>
  ELSE h \o <<len, sum>>

Sum ==
  /\ stage = "idle"
  /\ tag' = Finalized
  /\ UNCHANGED <<h, sum, len, buf, nbuf, stage, p, msg>>

\* Mutant: the checksum survives a Reset.
ResetKeepsSum ==
  /\ stage = "idle"
  /\ h' = <<>> /\ len' = 0 /\ buf' = ZeroBlock /\ nbuf' = 0 /\ msg' = <<>>
  /\ UNCHANGED <<sum, stage, p, tag>>

Reset ==
  /\ stage = "idle"
  /\ h' = <<>> /\ sum' = 0 /\ len' = 0 /\ buf' = ZeroBlock /\ nbuf' = 0 /\ msg' = <<>>
  /\ UNCHANGED <<stage, p, tag>>

Next ==
  \/ \E d \in MessagesUpTo(Bytes, MaxMsg) : Write(d)
  \/ Fill \/ FullBlock \/ Remainder \/ Sum \/ Reset

-----------------------------------------------------------------------------
(* What Sum should return. *)

\* GOST R 34.11-94 of a whole message: its blocks, the last one zero-padded (a
\* single zero block for the empty message), the bit length, the checksum.
R94Of(m) ==
  LET k    == (Len(m) + BlockSize - 1) \div BlockSize
      full == PadTo(m, k * BlockSize, 0)
      nums == [i \in 1..k |-> Number(Block(full, BlockSize, i))]
  IN  (IF m = <<>> THEN <<0>> ELSE nums)
        \o <<Len(m) * BitsPerByte, Total(nums, k) % Base^BlockSize>>

-----------------------------------------------------------------------------
(* The inductive invariant *)

TypeOK ==
  /\ msg \in Seq(Bytes) /\ p \in Seq(Bytes) /\ h \in Seq(Nat)
  /\ buf \in [1..BlockSize -> Bytes] /\ nbuf \in 0..(BlockSize - 1)
  /\ stage \in {"idle", "fill", "blocks"}

\* The message is what was absorbed, what is buffered and what is left of the Write;
\* length and checksum are those of the blocks absorbed.
Inv ==
  LET k == Len(h)
  IN  /\ TypeOK /\ Cut(msg, k * BlockSize, buf, nbuf, p)
      /\ \A i \in 1..k : h[i] = Number(Block(msg, BlockSize, i))
      /\ len = k * BlockSize * BitsPerByte /\ sum = Total(h, k) % Base^BlockSize
      /\ stage = "idle" \/ (stage = "blocks" /\ nbuf > 0) => p = <<>>
=============================================================================
