------------------------------ MODULE Streebog ------------------------------
(***************************************************************************)
(* streebog/streebog.go: the hash.Hash of GOST R 34.11-2012.               *)
(*                                                                         *)
(* Data abstraction.  A byte is a digit to the base Base, so that blocks   *)
(* are numbers below Base^BlockSize, the modulus at which the bit counter  *)
(* N and the checksum Sigma wrap.  The hash state is the sequence of       *)
(* inputs (N, m) compressed so far on top of the IV of the output size.    *)
(* buf keeps its stale bytes above nbuf, as the Go array does.             *)
(***************************************************************************)
EXTENDS Blocks

CONSTANTS
  BlockSize,   \* blockSize, 64 in the code
  Base,        \* number of byte values
  BitsPerByte, \* bitsPerByte
  Sizes,       \* output sizes: size256, size512
  MaxMsg       \* bound: message length a run looks at

Bytes == 0..(Base - 1)

VARIABLES
  size,        \* output size
  h, n, sum,   \* compressed inputs, bit counter N, checksum Sigma
  buf, nbuf,   \* partial block
  stage,       \* "idle", or where Write stands: "fill" or "blocks"
  p,           \* the rest of the data of the Write in progress
  msg,         \* history: the message since the last Reset
  tag          \* history: the last value Sum returned

vars == <<size, h, n, sum, buf, nbuf, stage, p, msg, tag>>

NoTag == <<>>

\* A block as the little-endian number it encodes.
Number(b) == NumberOf(b, BlockSize, Base)

wrap(x) == x % Base^BlockSize

\* Mutant: the carry out of the last byte is kept.
add512NoWrap(a, b) == a + b

add512(a, b) == wrap(a + b)

ZeroBlock == [i \in 1..BlockSize |-> 0]

Cleared ==
  /\ h' = <<>> /\ n' = 0 /\ sum' = 0
  /\ buf' = ZeroBlock /\ nbuf' = 0

Init ==
  /\ size \in Sizes /\ h = <<>> /\ n = 0 /\ sum = 0
  /\ buf = ZeroBlock /\ nbuf = 0
  /\ stage = "idle" /\ p = <<>> /\ msg = <<>> /\ tag = NoTag

compress(b) ==
  /\ h' = Append(h, <<n, Number(b)>>)
  /\ n' = add512(n, BlockSize * BitsPerByte)
  /\ sum' = add512(sum, Number(b))

\* copy(buf[from:], d): as many bytes as fit, the others of buf stay.
Copied(b, from, d) ==
  [i \in 1..BlockSize |-> IF i > from /\ i - from <= Len(d) THEN d[i - from] ELSE b[i]]

Write(data) ==
  /\ stage = "idle" /\ Len(msg) + Len(data) <= MaxMsg
  /\ stage' = "fill" /\ p' = data /\ msg' = msg \o data
  /\ UNCHANGED <<size, h, n, sum, buf, nbuf, tag>>

\* Top up an existing partial block and compress it once it is full.
Fill ==
  /\ stage = "fill"
  /\ stage' = "blocks"
  /\ IF nbuf = 0
     THEN UNCHANGED <<h, n, sum, buf, nbuf, p>>
     ELSE LET k    == IF Len(p) <= BlockSize - nbuf THEN Len(p) ELSE BlockSize - nbuf
              full == nbuf + k = BlockSize
          IN  /\ buf' = Copied(buf, nbuf, p)
              /\ p' = SubSeq(p, k + 1, Len(p))
              /\ nbuf' = IF full THEN 0 ELSE nbuf + k
              /\ IF full THEN compress(Copied(buf, nbuf, p)) ELSE UNCHANGED <<h, n, sum>>
  /\ UNCHANGED <<size, msg, tag>>

FullBlock ==
  /\ stage = "blocks" /\ Len(p) >= BlockSize
  /\ compress(SubSeq(p, 1, BlockSize))
  /\ p' = SubSeq(p, BlockSize + 1, Len(p))
  /\ UNCHANGED <<size, buf, nbuf, stage, msg, tag>>

\* Keep the remainder; with nothing left buf and nbuf are as Fill left them.
Remainder ==
  /\ stage = "blocks" /\ Len(p) < BlockSize
  /\ IF Len(p) > 0
     THEN buf' = Copied(buf, 0, p) /\ nbuf' = Len(p)
     ELSE UNCHANGED <<buf, nbuf>>
  /\ stage' = "idle" /\ p' = <<>>
  /\ UNCHANGED <<size, h, n, sum, msg, tag>>

\* The final padded block, then N and Sigma under g_0; out is the chain of g
\* inputs, cut to the output size, from the state of the receiver.
Padded == [i \in 1..BlockSize |-> IF i <= nbuf THEN buf[i] ELSE IF i = nbuf + 1 THEN 1 ELSE 0]

Finalized ==
  <<size, h \o <<<<n, Number(Padded)>>,
                 <<0, add512(n, nbuf * BitsPerByte)>>,
                 <<0, add512(sum, Number(Padded))>>>>>>

Sum ==
  /\ stage = "idle"
  /\ tag' = Finalized
  /\ UNCHANGED <<size, h, n, sum, buf, nbuf, stage, p, msg>>

Reset ==
  /\ stage = "idle"
  /\ Cleared /\ msg' = <<>>
  /\ UNCHANGED <<size, stage, p, tag>>

Next ==
  \/ \E d \in MessagesUpTo(Bytes, MaxMsg) : Write(d)
  \/ Fill \/ FullBlock \/ Remainder \/ Sum \/ Reset

-----------------------------------------------------------------------------
(* What Sum should return. *)

\* The bits before block i.
Before(i) == wrap((i - 1) * BlockSize * BitsPerByte)

\* GOST R 34.11-2012 of a whole message: k full blocks, block i under
\* N = bits before it; the padded tail; the bit length; the sum of all blocks.
StreebogOf(s, m) ==
  LET k      == Len(m) \div BlockSize
      tail   == PadTo(TailOf(m, BlockSize, k) \o <<1>>, BlockSize, 0)
      nums   == [i \in 1..(k + 1) |-> Number(IF i <= k THEN Block(m, BlockSize, i) ELSE tail)]
  IN  <<s, [i \in 1..(k + 1) |-> <<Before(i), nums[i]>>]
             \o <<<<0, wrap(Len(m) * BitsPerByte)>>, <<0, wrap(Total(nums, k + 1))>>>>>>

-----------------------------------------------------------------------------
(* The inductive invariant *)

TypeOK ==
  /\ msg \in Seq(Bytes) /\ p \in Seq(Bytes) /\ h \in Seq(Nat \X Nat)
  /\ buf \in [1..BlockSize -> Bytes] /\ nbuf \in 0..(BlockSize - 1)
  /\ stage \in {"idle", "fill", "blocks"}

\* The message is what was compressed, what is buffered and what is left of the Write;
\* counter and checksum are those of the blocks compressed.
Inv ==
  LET k == Len(h)
  IN  /\ TypeOK /\ Cut(msg, k * BlockSize, buf, nbuf, p)
      /\ \A i \in 1..k : h[i] = <<Before(i), Number(Block(msg, BlockSize, i))>>
      /\ n = Before(k + 1) /\ sum = wrap(Total([i \in 1..k |-> h[i][2]], k))
      /\ stage = "idle" \/ (stage = "blocks" /\ nbuf > 0) => p = <<>>
=============================================================================
