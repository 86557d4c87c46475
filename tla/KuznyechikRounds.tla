-------------------------- MODULE KuznyechikRounds --------------------------
(***************************************************************************)
(* The round transforms of kuznyechik/, on the reference path, through the *)
(* fused tables, and through the constant-time scans.                      *)
(*                                                                         *)
(* Scaling.  A block has N bytes, held in two words hi and lo of N / 2     *)
(* bytes each: N = 16 in the code, with bytes of 8 bits.  The S-box and    *)
(* the coefficients of L are parameters; the arithmetic is the code's, bit *)
(* by bit.                                                                 *)
(***************************************************************************)
EXTENDS Words

CONSTANTS
  Outer, Inner,     \* Outer * Inner round constants: 4 * 8 in the code
  Pi, Lc, Reduction \* pi, lc and gfReductionByte, scaled

N == 2 * Lanes

ASSUME RoundsAssumption ==
  /\ Pi \in [Byte -> Byte] /\ \A a, b \in Byte : Pi[a] = Pi[b] => a = b
  /\ Lc \in [1..N -> Byte] /\ Lc[N] = 1

-----------------------------------------------------------------------------
(* The reference transforms. *)

\* Times x, reduced.
GfDouble(a) == IF a >= Radix \div 2 THEN XorT[(2 * a) % Radix][Reduction] ELSE 2 * a

\* gf: the loop over the bits of b, as a table.
GfTable ==
  [a \in Byte |-> [b \in Byte |->
     LET Turn(v, k) == [a |-> GfDouble(v.a),
                        c |-> IF (b \div 2^(k - 1)) % 2 = 1 THEN XorT[v.c][v.a] ELSE v.c]
     IN  Loop(Turn, [a |-> a, c |-> 0], ByteBits).c]]

gf(a, b) == GfTable[a][b]

\* The sum of f[1] to f[n].
XorAll(f, n) == Loop(LAMBDA acc, i : XorT[acc][f[i]], 0, n)

PiInv == [b \in Byte |-> CHOOSE i \in Byte : Pi[i] = b]

s(blk)    == Tuple([i \in 1..N |-> Pi[blk[i]]], N)
sInv(blk) == Tuple([i \in 1..N |-> PiInv[blk[i]]], N)

r(blk) ==
  LET t == XorT[blk[N]][XorAll([i \in 1..(N - 1) |-> gf(blk[i], Lc[i])], N - 1)]
  IN  <<t>> \o SubSeq(blk, 1, N - 1)

rInv(blk) ==
  LET acc == XorAll([i \in 1..(N - 1) |-> gf(blk[i + 1], Lc[i])], N - 1)
  IN  SubSeq(blk, 2, N) \o <<XorT[blk[1]][acc]>>

l(blk)    == Loop(LAMBDA b, i : r(b), blk, N)
lInv(blk) == Loop(LAMBDA b, i : rInv(b), blk, N)

xor(blk, k) == XorSeq(blk, k)

\* The block with b at position pos and zeros elsewhere.
Unit(pos, b) == Tuple([i \in 1..N |-> IF i = pos THEN b ELSE 0], N)

cnst == [i \in 1..(Outer * Inner) |-> l(Unit(N, i))]

-----------------------------------------------------------------------------
(* The table path. *)

\* The two halves of a block as big-endian words, and back.
packEntry(b) == [hi |-> BigEndian(b, 1), lo |-> BigEndian(b, Lanes + 1)]
unpack(w)    == PutBigEndian(w.hi) \o PutBigEndian(w.lo)

encTable  == [pos \in 1..N |-> [b \in Byte |-> packEntry(l(Unit(pos, Pi[b])))]]
lInvTable == [pos \in 1..N |-> [b \in Byte |-> packEntry(lInv(Unit(pos, b)))]]

XorEntry(v, w) == [hi |-> XorT[v.hi][w.hi], lo |-> XorT[v.lo][w.lo]]
NoEntry        == [hi |-> 0, lo |-> 0]

slEncrypt(blk) ==
  unpack(Loop(LAMBDA acc, pos : XorEntry(acc, encTable[pos][blk[pos]]), NoEntry, N))

lInvFast(blk) ==
  unpack(Loop(LAMBDA acc, pos : XorEntry(acc, lInvTable[pos][blk[pos]]), NoEntry, N))

-----------------------------------------------------------------------------
(* The constant-time path. *)

lCol    == [pos \in 1..N |-> [j \in 0..(ByteBits - 1) |-> packEntry(l(Unit(pos, 2^j)))]]
lInvCol == [pos \in 1..N |-> [j \in 0..(ByteBits - 1) |-> packEntry(lInv(Unit(pos, 2^j)))]]

ctBcast01 == Loop(LAMBDA w, i : w * Radix + 1, 0, Lanes)
ctLo7     == ctBcast01 * (Radix \div 2 - 1)
ctHi1     == ctBcast01 * (Radix \div 2)

\* Mutant: the top bits are not masked off before the addition.
ZeroLanesCarry(d) == AndT[NotWord(OrWord((d + ctLo7) % WordMod, d))][ctHi1]

\* The top bit of every lane of d that is zero.
ZeroLanes(d) == AndT[NotWord(OrWord((AndT[d][ctLo7] + ctLo7) % WordMod, d))][ctHi1]

\* All ones in the lanes of w that equal b: the test, then the bit fill, whose
\* shifts double until they cover a lane.
MatchingLanes(w, b) ==
  LET m == ZeroLanes(XorT[w][ctBcast01 * b]) \div 2^(ByteBits - 1)
  IN  Loop(LAMBDA x, k : OrWord(x, ShiftLeft(x, 2^(k - 1))), m, IF ByteBits = 4 THEN 2 ELSE 3)

SboxWord(w, tbl) ==
  Loop(LAMBDA acc, i : OrWord(acc, AndT[ctBcast01 * tbl[i - 1]][MatchingLanes(w, i - 1)]), 0, Radix)

ctSbox(w, tbl) == [hi |-> SboxWord(w.hi, tbl), lo |-> SboxWord(w.lo, tbl)]

\* All ones for an odd v, zero for an even one.
Mask(v) == (0 - (v % 2)) % WordMod

ctLinear(w, col) ==
  LET t == unpack(w)
      Masked(acc, k) ==
        LET pos == ((k - 1) \div ByteBits) + 1
            j   == (k - 1) % ByteBits
            m   == Mask(t[pos] \div 2^j)
        IN  XorEntry(acc, [hi |-> AndT[col[pos][j].hi][m], lo |-> AndT[col[pos][j].lo][m]])
  IN  Loop(Masked, NoEntry, N * ByteBits)

ctSLEncrypt(blk) == unpack(ctLinear(ctSbox(packEntry(blk), Pi), lCol))
ctLInvFast(blk)  == unpack(ctLinear(packEntry(blk), lInvCol))
ctSInv(blk)      == unpack(ctSbox(packEntry(blk), PiInv))
=============================================================================
