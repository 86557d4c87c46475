-------------------------------- MODULE Words --------------------------------
(* Words of Lanes bytes of ByteBits bits, with their bitwise operations and   *)
(* their conversions to bytes, and counted loops: what the models of the      *)
(* block ciphers are written in.  A uint64 has 8 lanes in the code, a uint32  *)
(* has 4.                                                                     *)
EXTENDS Integers, Sequences, Bitwise

CONSTANTS ByteBits, Lanes

ASSUME WordsAssumption == ByteBits % 2 = 0 /\ Lanes \in Nat \ {0}

Radix   == 2^ByteBits
Byte    == 0..(Radix - 1)
WordMod == Radix^Lanes
Word    == 0..(WordMod - 1)

\* The value of a variable after n turns of a loop: turn i (from 1) sets v to
\* Turn(v, i).  The singleton sets have each turn evaluated before the next.
Loop(Turn(_, _), start, n) ==
  LET RECURSIVE From(_, _)
      From(v, i) == IF i > n THEN v ELSE CHOOSE end \in {From(w, i + 1) : w \in {Turn(v, i)}} : TRUE
  IN  From(start, 1)

\* A function on 1..n as a sequence, its elements evaluated once.
Tuple(f, n) == SubSeq(f, 1, n)

\* Bitwise operations, as tables; a byte is a word of one lane.
XorT == [v \in Word |-> [w \in Word |-> v ^^ w]]
AndT == [v \in Word |-> [w \in Word |-> v & w]]
NotWord(w)      == WordMod - 1 - w
OrWord(v, w)    == v + w - AndT[v][w]
ShiftLeft(w, k) == (w * 2^k) % WordMod

XorSeq(b, c) == Tuple([i \in 1..Len(b) |-> XorT[b[i]][c[i]]], Len(b))

\* Byte i of w, the least significant first, and the words in the bytes of b
\* from position p on, big-endian and little-endian.
ByteAt(w, i)      == (w \div Radix^(i - 1)) % Radix
BigEndian(b, p)    == Loop(LAMBDA w, i : w * Radix + b[p + i - 1], 0, Lanes)
LittleEndian(b, p) == Loop(LAMBDA w, i : w * Radix + b[p + Lanes - i], 0, Lanes)
PutBigEndian(w)    == Tuple([i \in 1..Lanes |-> ByteAt(w, Lanes + 1 - i)], Lanes)
PutLittleEndian(w) == Tuple([i \in 1..Lanes |-> ByteAt(w, i)], Lanes)

Reversed(b) == Tuple([i \in 1..Len(b) |-> b[Len(b) + 1 - i]], Len(b))
Zeros(n)    == Tuple([i \in 1..n |-> 0], n)
=============================================================================
