----------------------------- MODULE Kuznyechik -----------------------------
(***************************************************************************)
(* kuznyechik/: the block cipher, its key schedule and its multi-block     *)
(* calls, with the byte-sliced SIMD engine, on a memory in which the       *)
(* buffers of a call may overlap (internal/alias).  A behaviour is one     *)
(* call.                                                                   *)
(*                                                                         *)
(* Scaling.  The key schedule has Outer turns of Inner Feistel rounds, the *)
(* SIMD engine takes SimdBatch blocks at a time (4, 8 and 32 in the code). *)
(***************************************************************************)
EXTENDS KuznyechikRounds, Calls

CONSTANTS
  SimdBatch,
  Keys,        \* keys, as pairs of blocks; one of the wrong length
  Blocks,      \* blocks that are encrypted and decrypted; one too short
  Counters,    \* counter blocks a CTR call starts from
  Memory,      \* memory before a call
  Lengths      \* lengths in bytes of the buffers of a multi-block call

ASSUME KuznyechikAssumption == SimdBatch % 2 = 0

VARIABLE mem   \* memory

kuzVars == <<call, result, mem>>

Rounds == 1 + 2 * Outer

-----------------------------------------------------------------------------
(* The cipher. *)

sl(ct, blk)   == IF ct THEN ctSLEncrypt(blk) ELSE slEncrypt(blk)
linv(ct, blk) == IF ct THEN ctLInvFast(blk) ELSE lInvFast(blk)
sinv(ct, blk) == IF ct THEN ctSInv(blk) ELSE sInv(blk)

\* F[C] on the pair kr0, kr1, with the swap.
Feistel(ct, kr, c) == <<xor(sl(ct, xor(kr[1], c)), kr[2]), kr[1]>>

expandKey(ct, key) ==
  LET Turn(ks, i) ==
        ks \o Loop(LAMBDA kr, j : Feistel(ct, kr, cnst[Inner * (i - 1) + j]),
                   SubSeq(ks, Len(ks) - 1, Len(ks)), Inner)
  IN  Loop(Turn, key, Outer)

\* NewCipher and NewCipherCT: the flag and the round keys.
GoodKeys  == {key \in Keys : Len(key) = 2}
NewCipher == [ct \in BOOLEAN, key \in GoodKeys |-> expandKey(ct, key)]

Encrypt(ct, ks, src) ==
  xor(Loop(LAMBDA blk, i : sl(ct, xor(blk, ks[i])), src, Rounds), ks[Rounds + 1])

Decrypt(ct, ks, src) ==
  xor(Loop(LAMBDA blk, i : sinv(ct, linv(ct, xor(blk, ks[Rounds + 2 - i]))), src, Rounds), ks[1])

-----------------------------------------------------------------------------
(* The SIMD engine: register j holds byte j of SimdBatch blocks. *)

Half     == 2^(ByteBits \div 2)     \* nibble values: 16
LowOf(x) == Tuple([i \in 1..SimdBatch |-> x[i] % Half], SimdBatch)

\* The high nibbles, by a multiplication of two-byte lanes.
simdHi4(x) ==
  LET MulHigh(q) == ((x[2 * q - 1] + Radix * x[2 * q]) * ((Radix * Radix) \div Half)) \div (Radix * Radix)
      At(i)      == LET v == MulHigh((i + 1) \div 2) IN IF i % 2 = 1 THEN v % Radix ELSE v \div Radix
  IN  Tuple([i \in 1..SimdBatch |-> At(i) % Half], SimdBatch)

\* Exactly one of the sub-tables of pi matches a lane's high nibble.
SubLookup(v) ==
  Loop(LAMBDA acc, h : OrWord(acc, IF v - (v % Half) = (h - 1) * Half
                                   THEN Pi[(h - 1) * Half + (v % Half)] ELSE 0),
       0, Half)

simdS(a) == Tuple([j \in 1..N |-> Tuple([i \in 1..SimdBatch |-> SubLookup(a[j][i])], SimdBatch)], N)

simdMatM == [j \in 1..N |-> [i \in 1..N |-> l(Unit(i, 1))[j]]]

simdL(a) ==
  LET lo == Tuple([i \in 1..N |-> LowOf(a[i])], N)
      hi == Tuple([i \in 1..N |-> simdHi4(a[i])], N)
      Product(j, i, b) ==
        IF simdMatM[j][i] = 0 THEN 0
        ELSE XorT[gf(simdMatM[j][i], lo[i][b])][gf(simdMatM[j][i], hi[i][b] * Half)]
  IN  Tuple([j \in 1..N |-> Tuple([b \in 1..SimdBatch |->
        XorAll([i \in 1..N |-> Product(j, i, b)], N)], SimdBatch)], N)

XorKey(a, k) ==
  Tuple([j \in 1..N |-> Tuple([i \in 1..SimdBatch |-> XorT[a[j][i]][k[j]]], SimdBatch)], N)

SimdRounds(ks, a) ==
  XorKey(Loop(LAMBDA b, i : simdL(simdS(XorKey(b, ks[i]))), a, Rounds), ks[Rounds + 1])

\* Registers of the counters ctr, ctr + 1, ..., with the carry of every lane
\* found by looking whether its byte wrapped.
slicedCounters(ctr) ==
  LET Lane == 1..SimdBatch
      Add(acc, t) ==
        LET j   == N + 1 - t
            reg == Tuple([i \in Lane |-> (ctr[j] + acc.carry[i]) % Radix], SimdBatch)
        IN  [regs  |-> <<reg>> \o acc.regs,
             carry |-> Tuple([i \in Lane |-> IF reg[i] < ctr[j] THEN 1 ELSE 0], SimdBatch)]
  IN  Loop(Add, [regs |-> <<>>, carry |-> Tuple([i \in Lane |-> i - 1], SimdBatch)], N).regs

addCounter(ctr, k) ==
  LET Add(acc, t) ==
        LET v == ctr[N + 1 - t] + acc.carry
        IN  [ctr |-> <<v % Radix>> \o acc.ctr, carry |-> v \div Radix]
  IN  Loop(Add, [ctr |-> <<>>, carry |-> k], N).ctr

-----------------------------------------------------------------------------
(* Calls on memory: a buffer is [at, len], its bytes mem[at], mem[at + 1]... *)

Addresses == 1..Len(Memory)

AnyOverlap(x, y) ==
  /\ x.len > 0 /\ y.len > 0
  /\ x.at <= y.at + y.len - 1 /\ y.at <= x.at + x.len - 1

\* Mutant: the end of one buffer is taken for an address within it.
InexactOverlapShort(x, y) ==
  /\ x.len > 0 /\ y.len > 0 /\ x.at # y.at
  /\ x.at < y.at + y.len - 1 /\ y.at < x.at + x.len - 1

InexactOverlap(x, y) ==
  /\ x.len > 0 /\ y.len > 0 /\ x.at # y.at
  /\ AnyOverlap(x, y)

\* memory m with block number n (from 0) of the buffer at a replaced by b.
BlockAt(m, a, n)    == SubSeq(m, a + n * N, a + n * N + N - 1)
Stored(m, a, n, b)  == SubSeq(m, 1, a + n * N - 1) \o b \o SubSeq(m, a + n * N + N, Len(m))

\* The SimdBatch blocks from block n on, transposed, encrypted, transposed back.
SimdChunk(ks, m, dst, src, n) ==
  LET a == Tuple([j \in 1..N |-> Tuple([b \in 1..SimdBatch |-> BlockAt(m, src, n + b - 1)[j]], SimdBatch)], N)
      e == SimdRounds(ks, a)
      Blk(b) == Tuple([j \in 1..N |-> e[j][b]], N)
  IN  Loop(LAMBDA acc, b : Stored(acc, dst, n + b - 1, Blk(b)), m, SimdBatch)

\* Blocks handled by the SIMD engine: none when the build or the CPU has none.
simdBulkEncrypt(simd, total) == IF simd THEN (total \div SimdBatch) * SimdBatch ELSE 0

EncryptBlocksPanics(dst, src) ==
  \/ src.len = 0 \/ src.len % N # 0
  \/ dst.len < src.len
  \/ InexactOverlap([dst EXCEPT !.len = src.len], src)

\* Whole chunks through the SIMD engine, the rest one by one, in order.
EncryptedMemory(ct, simd, ks, m, dst, src) ==
  LET total  == src.len \div N
      bulk   == simdBulkEncrypt(simd, total)
      after  == Loop(LAMBDA acc, c : SimdChunk(ks, acc, dst.at, src.at, (c - 1) * SimdBatch),
                     m, bulk \div SimdBatch)
  IN  Loop(LAMBDA acc, i : Stored(acc, dst.at, bulk + i - 1,
                                  Encrypt(ct, ks, BlockAt(acc, src.at, bulk + i - 1))),
           after, total - bulk)

\* Chunks of at most SimdBatch blocks: the memory and the counter after them.
CtrChunk(ks, acc, dst, src, total) ==
  LET k == IF total - acc.done < SimdBatch THEN total - acc.done ELSE SimdBatch
      e == SimdRounds(ks, slicedCounters(acc.ctr))
      Out(b) == Tuple([j \in 1..N |-> XorT[BlockAt(acc.mem, src, acc.done + b - 1)[j]][e[j][b]]], N)
  IN  [mem  |-> Loop(LAMBDA m, b : Stored(m, dst, acc.done + b - 1, Out(b)), acc.mem, k),
       ctr  |-> addCounter(acc.ctr, k),
       done |-> acc.done + k]

-----------------------------------------------------------------------------
(* The calls. *)

KuzInit == CallInit /\ mem = Memory

EncryptCall(ct, key, src) ==
  /\ call' = [op |-> "Encrypt", ct |-> ct, key |-> key, src |-> src]
  /\ result' = IF key \notin GoodKeys \/ Len(src) < N THEN Panicked ELSE Encrypt(ct, NewCipher[ct, key], src)
  /\ UNCHANGED mem

DecryptCall(ct, key, src) ==
  /\ call' = [op |-> "Decrypt", ct |-> ct, key |-> key, src |-> src]
  /\ result' = IF key \notin GoodKeys \/ Len(src) < N THEN Panicked ELSE Decrypt(ct, NewCipher[ct, key], src)
  /\ UNCHANGED mem

EncryptBlocks(ct, simd, key, dst, src) ==
  /\ call' = [op |-> "EncryptBlocks", ct |-> ct, key |-> key, dst |-> dst, src |-> src]
  /\ IF EncryptBlocksPanics(dst, src)
     THEN result' = Panicked /\ UNCHANGED mem
     ELSE result' = <<>> /\ mem' = EncryptedMemory(ct, simd, NewCipher[ct, key], mem, dst, src)

\* The memory and the counter after a batch of whole blocks.
CTRXORBlocks(ks, m, iv, dst, src) ==
  LET total == src.len \div N
  IN  Loop(LAMBDA acc, i : CtrChunk(ks, acc, dst.at, src.at, total),
           [mem |-> m, ctr |-> iv, done |-> 0], (total + SimdBatch - 1) \div SimdBatch)

\* Mutant: the stream leaves the check of the addresses to CTRXORBlocks, which has none.
StreamPanicsShort(dst, src) == dst.len < src.len

\* The guards of ctracpkm.
StreamPanics(dst, src) ==
  \/ dst.len < src.len
  \/ InexactOverlap([dst EXCEPT !.len = src.len], src)

\* ctracpkm on whole blocks, at the start of a stream without sections.
XORKeyStream(ct, key, iv, dst, src) ==
  /\ src.len % N = 0 /\ src.len > 0
  /\ call' = [op |-> "XORKeyStream", ct |-> ct, key |-> key, iv |-> iv, dst |-> dst, src |-> src]
  /\ IF StreamPanics(dst, src)
     THEN result' = Panicked /\ UNCHANGED mem
     ELSE LET end == CTRXORBlocks(NewCipher[ct, key], mem, iv, dst, src)
          IN  mem' = end.mem /\ result' = end.ctr

Buffers == {b \in [at : Addresses, len : Lengths] : b.at + b.len - 1 <= Len(Memory)}

KuzNext ==
  /\ Idle
  /\ \E ct \in BOOLEAN :
       \/ \E key \in Keys, b \in Blocks : EncryptCall(ct, key, b) \/ DecryptCall(ct, key, b)
       \/ \E key \in GoodKeys, dst, src \in Buffers :
            \/ \E simd \in BOOLEAN : EncryptBlocks(ct, simd, key, dst, src)
            \/ \E iv \in Counters : XORKeyStream(ct, key, iv, dst, src)

-----------------------------------------------------------------------------
(* Properties *)

\* The cipher of RFC 7801, with the transforms as they are defined there.
RefKeys ==
  [key \in GoodKeys |->
     LET F(kr, c) == <<xor(l(s(xor(kr[1], c))), kr[2]), kr[1]>>
         Pairs[i \in 0..Outer] ==
           IF i = 0 THEN key
           ELSE Loop(LAMBDA kr, j : F(kr, cnst[Inner * (i - 1) + j]), Pairs[i - 1], Inner)
     IN  Tuple([i \in 1..(Rounds + 1) |-> Pairs[(i - 1) \div 2][((i - 1) % 2) + 1]], Rounds + 1)]

RefEncrypt(key, src) ==
  xor(Loop(LAMBDA blk, i : l(s(xor(blk, RefKeys[key][i]))), src, Rounds), RefKeys[key][Rounds + 1])

\* The tables, the SWAR scan with its borrows and the masked columns are all the
\* one cipher, and Decrypt is its inverse on each of them; only a key or a block
\* of the wrong length is refused (kuznyechik.go:219-270, 287-379,
\* ctkuznyechik.go:37-220).
CipherExact ==
  call.op \in {"Encrypt", "Decrypt"} =>
    IF Len(call.key) # 2 \/ Len(call.src) < N THEN result = Panicked
    ELSE IF call.op = "Encrypt" THEN result = RefEncrypt(call.key, call.src)
    ELSE RefEncrypt(call.key, result) = call.src

\* A multi-block call writes what block by block calls on a copy of src would,
\* and nothing else, whichever blocks the SIMD engine takes and wherever the
\* buffers lie: it refuses exactly those that overlap without coinciding, a
\* partial block and a short dst.  The counter advances by the blocks used, with
\* its carries (bulk.go:19-37, simd_ctr_amd64.go:32-123, alias.go:7-21,
\* ctracpkm.go:203-209).
BlocksExact ==
  call.op \in {"EncryptBlocks", "XORKeyStream"} =>
    LET total == call.src.len \div N
        Src(i) == BlockAt(Memory, call.src.at, i - 1)
        Gamma(i) ==
          LET n == Loop(LAMBDA acc, b : acc * Radix + call.iv[b], 0, N) + i - 1
          IN  Tuple([j \in 1..N |-> (n \div Radix^(N - j)) % Radix], N)
        Out(i) == IF call.op = "EncryptBlocks" THEN RefEncrypt(call.key, Src(i))
                  ELSE xor(Src(i), RefEncrypt(call.key, Gamma(i)))
        Shared == {call.dst.at + k : k \in 0..(call.src.len - 1)} \cap
                  {call.src.at + k : k \in 0..(call.src.len - 1)}
        refused == \/ total = 0 \/ total * N # call.src.len \/ call.dst.len < call.src.len
                   \/ Shared # {} /\ call.dst.at # call.src.at
    IN  IF refused THEN result = Panicked /\ mem = Memory
        ELSE /\ \A i \in 1..total : BlockAt(mem, call.dst.at, i - 1) = Out(i)
             /\ \A a \in Addresses \ (call.dst.at..(call.dst.at + call.src.len - 1)) : mem[a] = Memory[a]
             /\ result = IF call.op = "EncryptBlocks" THEN <<>> ELSE Gamma(total + 1)
=============================================================================
