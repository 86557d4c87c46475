-------------------------------- MODULE Omac --------------------------------
(***************************************************************************)
(* omac/omac.go (CMAC) with the facade's Reset of modes.go.                *)
(*                                                                         *)
(* Data abstraction.  Bytes come from a small set that holds the padding   *)
(* byte.  The CBC chain value is the sequence of blocks chained so far and *)
(* a tag is the chain together with the last block and the subkey xored    *)
(* into it: equal for every cipher exactly when these are.                 *)
(***************************************************************************)
EXTENDS Blocks

CONSTANTS
  BlockSize,   \* block size of the cipher, in bytes
  Bytes,       \* byte values
  Zero, Pad,   \* 0x00 and 0x80
  MaxMsg       \* bound: message length a run looks at

VARIABLES
  st,          \* "idle" or "busy" (in Write)
  state,       \* chained blocks
  buf,         \* up to BlockSize bytes not yet chained
  p,           \* the rest of the data of the Write in progress
  msg,         \* history: the message since the last Reset
  tag          \* history: the last value Sum returned

vars == <<st, state, buf, p, msg, tag>>

NoTag == <<>>

Init ==
  /\ st = "idle" /\ state = <<>> /\ buf = <<>> /\ p = <<>>
  /\ msg = <<>> /\ tag = NoTag

Lesser(a, b) == IF a <= b THEN a ELSE b

Write(data) ==
  /\ st = "idle" /\ Len(msg) + Len(data) <= MaxMsg
  /\ st' = "busy" /\ p' = data /\ msg' = msg \o data
  /\ UNCHANGED <<state, buf, tag>>

\* Mutant: a full buffer is chained at once.
WriteLoopEager ==
  /\ st = "busy" /\ Len(p) > 0
  /\ LET want   == Lesser(BlockSize - Len(buf), Len(p))
         filled == buf \o SubSeq(p, 1, want)
         flush  == Len(filled) = BlockSize
     IN  /\ p' = SubSeq(p, want + 1, Len(p))
         /\ state' = IF flush THEN Append(state, filled) ELSE state
         /\ buf' = IF flush THEN <<>> ELSE filled
  /\ UNCHANGED <<st, msg, tag>>

\* One turn of the loop: fill the buffer, chain it only if more data follows.
WriteLoop ==
  /\ st = "busy" /\ Len(p) > 0
  /\ LET want   == Lesser(BlockSize - Len(buf), Len(p))
         filled == buf \o SubSeq(p, 1, want)
         rest   == SubSeq(p, want + 1, Len(p))
         flush  == Len(filled) = BlockSize /\ Len(rest) > 0
     IN  /\ p' = rest
         /\ state' = IF flush THEN Append(state, filled) ELSE state
         /\ buf' = IF flush THEN <<>> ELSE filled
  /\ UNCHANGED <<st, msg, tag>>

WriteReturn ==
  /\ st = "busy" /\ Len(p) = 0
  /\ st' = "idle"
  /\ UNCHANGED <<state, buf, p, msg, tag>>

\* Mutant: one subkey for both cases.
LastBlockOneSubkey(b) ==
  [block |-> IF Len(b) = BlockSize THEN b ELSE PadTo(Append(b, Pad), BlockSize, Zero),
   subkey |-> "k1"]

\* K1 for a complete last block, padding and K2 otherwise.
LastBlock(b) ==
  IF Len(b) = BlockSize
  THEN [block |-> b, subkey |-> "k1"]
  ELSE [block |-> PadTo(Append(b, Pad), BlockSize, Zero), subkey |-> "k2"]

SumOf(ch, b) == <<ch, LastBlock(b).block, LastBlock(b).subkey>>

\* Works on a snapshot of the chain value: the receiver is unchanged.
Sum ==
  /\ st = "idle"
  /\ tag' = SumOf(state, buf)
  /\ UNCHANGED <<st, state, buf, p, msg>>

\* modes.go: a fresh inner OMAC over the same cipher.
Reset ==
  /\ st = "idle"
  /\ state' = <<>> /\ buf' = <<>> /\ msg' = <<>>
  /\ UNCHANGED <<st, p, tag>>

Next ==
  \/ \E d \in MessagesUpTo(Bytes, MaxMsg) : Write(d)
  \/ WriteLoop \/ WriteReturn \/ Sum \/ Reset

-----------------------------------------------------------------------------
(* What Sum should return. *)

\* CMAC of a whole message (RFC 4493): every block but the last is chained, the
\* last one, complete or not, and empty only for the empty message, is kept.
OmacOf(m) ==
  LET k    == IF Len(m) = 0 THEN 0 ELSE (Len(m) - 1) \div BlockSize
      tail == TailOf(m, BlockSize, k)
      full == Len(m) > 0 /\ Len(m) % BlockSize = 0
  IN  <<BlocksOf(m, BlockSize, k),
        IF full THEN tail ELSE PadTo(tail \o <<Pad>>, BlockSize, Zero),
        IF full THEN "k1" ELSE "k2">>

-----------------------------------------------------------------------------
(* The inductive invariant *)

TypeOK ==
  /\ msg \in Seq(Bytes) /\ p \in Seq(Bytes) /\ buf \in Seq(Bytes) /\ state \in Seq(Seq(Bytes))
  /\ st \in {"idle", "busy"}

\* The message is what was chained, what is buffered and what is left of the Write.  A
\* block is chained only when more follows.
Inv ==
  LET k == Len(state)
  IN  /\ TypeOK /\ Cut(msg, k * BlockSize, buf, Len(buf), p)
      /\ \A i \in 1..k : state[i] = Block(msg, BlockSize, i)
      /\ Len(buf) <= BlockSize /\ (k > 0 => Len(buf) + Len(p) > 0)
      /\ st = "idle" => p = <<>>
=============================================================================
