----------------------------- MODULE Cnt_proofs -----------------------------
(***************************************************************************)
(* Proofs about Cnt for every block size, mesh threshold, word size, pair  *)
(* of constants, block cipher and cut of the data into calls.              *)
(***************************************************************************)
EXTENDS Cnt, NaturalLemmas

ParamFacts ==
  /\ BlockSize \in Nat \ {0} /\ Mesh \in Nat \ {0} /\ GenBlocks \in Nat \ {0}
  /\ Mesh = GenBlocks * BlockSize
  /\ Word \in Nat \ {0, 1} /\ C1 \in 1..(Word - 1) /\ C2 \in 1..(Word - 1)

\* The assumptions on the parameters; a generation is a whole number of blocks.
LEMMA Params == ParamFacts
<1>1. BlockSize \in Nat \ {0} /\ Mesh \in Nat \ {0} /\ Mesh % BlockSize = 0
  BY CntSizeAssumption
<1>2. GenBlocks \in Nat /\ Mesh = GenBlocks * BlockSize
  BY <1>1, DivModBasic DEF GenBlocks
<1>3. GenBlocks # 0
  BY <1>1, <1>2
<1> QED
  BY <1>1, <1>2, <1>3, CntWordAssumption DEF ParamFacts

-----------------------------------------------------------------------------
(* The counter *)

\* Adding c1 with an end-around carry (cnt.go:137-144) is addition modulo 2^32 - 1, with
\* 2^32 - 1 in the place of 0.
LEMMA StepHiIs ==
  ASSUME NEW h \in Words
  PROVE  StepHi(h) = ((h + C1 - 1) % (Word - 1)) + 1
<1> USE Params DEF ParamFacts, Words
<1>1. h + C1 \in Nat /\ h + C1 - 1 \in Nat /\ Word - 1 \in Nat \ {0}
  OBVIOUS
<1>2. CASE h + C1 < Word
  <2>1. (h + C1) % Word = h + C1
    <3>1. h + C1 = 0 * Word + (h + C1) /\ h + C1 \in 0..(Word - 1)
      BY <1>1, <1>2
    <3> QED
      BY <3>1, <1>1, DivModIs
  <2>2. (h + C1 - 1) % (Word - 1) = h + C1 - 1
    <3>1. h + C1 - 1 = 0 * (Word - 1) + (h + C1 - 1) /\ h + C1 - 1 \in 0..((Word - 1) - 1)
      BY <1>1, <1>2
    <3> QED
      BY <3>1, <1>1, DivModIs
  <2> QED
    BY <2>1, <2>2 DEF StepHi
<1>3. CASE h + C1 >= Word
  <2>1. (h + C1) % Word = h + C1 - Word
    <3>1. h + C1 = 1 * Word + (h + C1 - Word) /\ h + C1 - Word \in 0..(Word - 1)
      BY <1>1, <1>3
    <3> QED
      BY <3>1, <1>1, DivModIs
  <2>2. (h + C1 - 1) % (Word - 1) = h + C1 - Word
    <3>1. /\ h + C1 - 1 = 1 * (Word - 1) + (h + C1 - Word)
          /\ h + C1 - Word \in 0..((Word - 1) - 1)
      BY <1>1, <1>3
    <3> QED
      BY <3>1, <1>1, DivModIs
  <2>3. (h + C1 - Word) + 1 \in 0..(Word - 1)
    BY <1>3
  <2>4. ((h + C1 - Word) + 1) % Word = (h + C1 - Word) + 1
    <3>1. (h + C1 - Word) + 1 = 0 * Word + ((h + C1 - Word) + 1)
      OBVIOUS
    <3> QED
      BY <3>1, <2>3, DivModIs
  <2>5. h > h + C1 - Word
    OBVIOUS
  <2> QED
    BY <2>1, <2>2, <2>4, <2>5 DEF StepHi
<1> QED
  BY <1>1, <1>2, <1>3

\* The counter n steps after a block is a block.
LEMMA AfterType ==
  ASSUME NEW b \in Pairs, NEW n \in Nat \ {0}
  PROVE  After(b, n) \in Pairs
<1> USE Params DEF ParamFacts
<1>1. PICK lo \in Words, hi \in Words : b = <<lo, hi>>
  BY DEF Pairs
<1>2. n * C2 \in Nat /\ n * C1 \in Nat /\ n * C1 >= 1
  OBVIOUS
<1>3. lo + n * C2 \in Nat /\ hi + n * C1 - 1 \in Nat /\ Word - 1 \in Nat \ {0}
  BY <1>2 DEF Words
<1>4. (lo + n * C2) % Word \in 0..(Word - 1) /\ (hi + n * C1 - 1) % (Word - 1) \in 0..((Word - 1) - 1)
  BY <1>3, DivModBasic
<1> QED
  BY <1>1, <1>4 DEF After, Pairs, Words

\* The closed form is right: one step from a block, and one more step.
LEMMA StepAfter ==
  ASSUME NEW b \in Pairs
  PROVE  /\ <<StepLo(b[1]), StepHi(b[2])>> = After(b, 1)
         /\ \A n \in Nat \ {0} :
              <<StepLo(After(b, n)[1]), StepHi(After(b, n)[2])>> = After(b, n + 1)
<1> USE Params DEF ParamFacts
<1>1. PICK lo \in Words, hi \in Words : b = <<lo, hi>>
  BY DEF Pairs
<1>2. <<StepLo(lo), StepHi(hi)>> = After(<<lo, hi>>, 1)
  <2>1. lo + 1 * C2 = lo + C2 /\ hi + 1 * C1 - 1 = hi + C1 - 1
    BY DEF Words
  <2> QED
    BY <2>1, StepHiIs DEF After, StepLo
<1>3. ASSUME NEW n \in Nat \ {0}
      PROVE  <<StepLo(After(b, n)[1]), StepHi(After(b, n)[2])>> = After(b, n + 1)
  <2>1. /\ n * C2 \in Nat /\ n * C1 \in Nat /\ n * C1 >= 1
        /\ (n + 1) * C2 = n * C2 + C2 /\ (n + 1) * C1 = n * C1 + C1
    OBVIOUS
  <2>2. lo + n * C2 \in Nat /\ hi + n * C1 - 1 \in Nat /\ Word - 1 \in Nat \ {0}
    BY <2>1 DEF Words
  <2>3. After(b, n)[1] = (lo + n * C2) % Word /\ After(b, n)[2] = ((hi + n * C1 - 1) % (Word - 1)) + 1
    BY <1>1 DEF After
  <2>4. StepLo(After(b, n)[1]) = (lo + (n + 1) * C2) % Word
    <3>1. (((lo + n * C2) % Word) + C2) % Word = (lo + n * C2 + C2) % Word
      BY <2>2, ModAdd
    <3>2. lo + n * C2 + C2 = lo + (n + 1) * C2
      BY <2>1 DEF Words
    <3> QED
      BY <2>3, <3>1, <3>2 DEF StepLo
  <2>5. StepHi(After(b, n)[2]) = ((hi + (n + 1) * C1 - 1) % (Word - 1)) + 1
    <3>1. PICK x \in 0..((Word - 1) - 1) : x = (hi + n * C1 - 1) % (Word - 1)
      BY <2>2, DivModBasic
    <3>2. x + 1 \in Words /\ (x + 1) + C1 - 1 = x + C1
      BY DEF Words
    <3>3. StepHi(x + 1) = ((x + C1) % (Word - 1)) + 1
      BY <3>2, StepHiIs
    <3>4. (x + C1) % (Word - 1) = ((hi + n * C1 - 1) + C1) % (Word - 1)
      BY <2>2, <3>1, ModAdd
    <3>5. (hi + n * C1 - 1) + C1 = hi + (n + 1) * C1 - 1
      BY <2>1 DEF Words
    <3> QED
      BY <2>3, <3>1, <3>3, <3>4, <3>5
  <2> QED
    BY <1>1, <2>4, <2>5 DEF After
<1> QED
  BY <1>1, <1>2, <1>3

-----------------------------------------------------------------------------
(* The blocks that the generations start from *)

Gens == 0..(MaxStream \div Mesh)
Eqn(k, f, n) ==
  f = [i \in 0..n |-> Encrypt(<<k[1], i>>, IF i = 0 THEN k[2] ELSE After(f[i - 1], GenBlocks))]

\* The recursive function of Start exists.
LEMMA StartExists ==
  ASSUME NEW k \in SBoxes \X IVs, NEW n \in Gens
  PROVE  \E f \in [0..n -> Pairs] : Eqn(k, f, n)
<1> USE Params DEF ParamFacts
<1>1. n \in Nat /\ 0..n \subseteq Gens /\ k[1] \in SBoxes /\ k[2] \in Pairs
  <2>1. MaxStream \div Mesh \in Nat
    BY CntInputAssumption, DivModBasic
  <2> QED
    BY <2>1, CntInputAssumption DEF Gens
<1>2. ASSUME NEW i \in 0..n, NEW b \in Pairs PROVE Encrypt(<<k[1], i>>, b) \in Pairs
  BY <1>1, CntCipherAssumption DEF Gens
<1> DEFINE a == Encrypt(<<k[1], 0>>, k[2])
           step == [i \in 1..n |-> [b \in Pairs |-> Encrypt(<<k[1], i>>, After(b, GenBlocks))]]
<1>3. a \in Pairs
  BY <1>1, <1>2
<1>4. step \in [1..n -> [Pairs -> Pairs]]
  <2>1. ASSUME NEW i \in 1..n, NEW b \in Pairs
        PROVE  Encrypt(<<k[1], i>>, After(b, GenBlocks)) \in Pairs
    BY <1>1, <1>2, AfterType
  <2> QED
    BY <2>1
<1>5. PICK f \in [0..n -> Pairs] : f[0] = a /\ \A i \in 1..n : f[i] = step[i][f[i - 1]]
  <2> HIDE DEF a, step
  <2>1. Recursive(Pairs, a, n, step) # {}
    BY <1>1, <1>3, <1>4, RecursionUpTo
  <2> QED
    BY <2>1 DEF Recursive
<1>6. ASSUME NEW i \in 0..n
      PROVE  f[i] = Encrypt(<<k[1], i>>, IF i = 0 THEN k[2] ELSE After(f[i - 1], GenBlocks))
  <2>1. CASE i = 0
    BY <1>5, <2>1
  <2>2. CASE i # 0
    <3>1. i \in 1..n /\ f[i - 1] \in Pairs
      BY <1>1, <2>2
    <3> QED
      BY <1>5, <2>2, <3>1
  <2> QED
    BY <2>1, <2>2
<1> QED
  BY <1>6 DEF Eqn

\* It is unique: a longer one extends a shorter one.
LEMMA StartUnique ==
  ASSUME NEW k, NEW n \in Nat, NEW m \in Nat, n <= m,
         NEW f, NEW h, Eqn(k, f, n), Eqn(k, h, m)
  PROVE  \A i \in 0..n : f[i] = h[i]
<1> DEFINE good == {i \in 0..n : f[i] = h[i]}
<1>1. 0 \in good
  BY DEF Eqn
<1>2. ASSUME NEW i \in 0..(n - 1), i \in good PROVE i + 1 \in good
  <2>1. i + 1 \in 0..n /\ i + 1 \in 0..m /\ i + 1 # 0 /\ (i + 1) - 1 = i
    OBVIOUS
  <2>2. f[i + 1] = Encrypt(<<k[1], i + 1>>, After(f[i], GenBlocks))
    BY <2>1 DEF Eqn
  <2>3. h[i + 1] = Encrypt(<<k[1], i + 1>>, After(h[i], GenBlocks))
    BY <2>1 DEF Eqn
  <2> QED
    BY <1>2, <2>1, <2>2, <2>3
<1>3. 0..n \subseteq good
  <2> HIDE DEF good
  <2> QED
    BY <1>1, <1>2, InductionUpTo
<1> QED
  BY <1>3

\* Start is the value of any solution of its equation.
LEMMA StartOf ==
  ASSUME NEW k \in SBoxes \X IVs, NEW n \in Gens, NEW f, Eqn(k, f, n)
  PROVE  Start(k, n) = f[n]
<1>1. n \in Nat
  BY DEF Gens
<1> DEFINE s == CHOOSE h : Eqn(k, h, n)
<1>2. Eqn(k, s, n)
  OBVIOUS
<1>3. Start(k, n) = s[n]
  BY DEF Start, Eqn
<1>4. s[n] = f[n]
  <2> HIDE DEF s
  <2> QED
    BY <1>1, <1>2, StartUnique
<1> QED
  BY <1>3, <1>4

\* The first generation starts from the encrypted IV, the next one from the last
\* counter of the one before, encrypted under the meshed key (cnt.go:112-130).
LEMMA StartIs ==
  ASSUME NEW k \in SBoxes \X IVs, NEW g \in Gens
  PROVE  /\ Start(k, g) \in Pairs
         /\ g = 0 => Start(k, g) = Encrypt(<<k[1], 0>>, k[2])
         /\ g # 0 => Start(k, g) = Encrypt(<<k[1], g>>, After(Start(k, g - 1), GenBlocks))
<1>1. g \in Nat
  BY DEF Gens
<1>2. PICK f \in [0..g -> Pairs] : Eqn(k, f, g)
  BY StartExists
<1>3. Start(k, g) = f[g]
  BY <1>2, StartOf
<1>4. ASSUME g # 0 PROVE Start(k, g - 1) = f[g - 1]
  <2>1. g - 1 \in Gens /\ g - 1 \in 0..(g - 1) /\ g - 1 \in Nat
    <3>1. MaxStream \div Mesh \in Nat
      BY Params, CntInputAssumption, DivModBasic DEF ParamFacts
    <3> QED
      BY <1>1, <1>4, <3>1 DEF Gens
  <2>2. PICK h \in [0..(g - 1) -> Pairs] : Eqn(k, h, g - 1)
    BY <2>1, StartExists
  <2>3. Start(k, g - 1) = h[g - 1]
    BY <2>1, <2>2, StartOf
  <2>4. h[g - 1] = f[g - 1]
    BY <1>1, <1>2, <2>1, <2>2, StartUnique
  <2> QED
    BY <2>3, <2>4
<1> QED
  BY <1>1, <1>2, <1>3, <1>4 DEF Eqn

-----------------------------------------------------------------------------
(* Positions *)

\* Byte o of block m of generation g.
At(g, m, o) == g * Mesh + m * BlockSize + o
Offsets == 0..(BlockSize - 1)
BlockNos == 0..(GenBlocks - 1)

\* A position has one generation, block and offset, and they are what \div and % return.
LEMMA SplitIs ==
  ASSUME NEW g \in Nat, NEW m \in BlockNos, NEW o \in Offsets, NEW p \in Nat, p = At(g, m, o)
  PROVE  p \div Mesh = g /\ (p % Mesh) \div BlockSize = m /\ p % BlockSize = o
<1> USE Params DEF ParamFacts, BlockNos, Offsets, At
<1>1. m * BlockSize \in Nat /\ m * BlockSize + o \in 0..(Mesh - 1)
  <2>1. (m + 1) * BlockSize <= GenBlocks * BlockSize
    OBVIOUS
  <2>2. (m + 1) * BlockSize = m * BlockSize + BlockSize
    OBVIOUS
  <2>3. m * BlockSize \in Nat
    OBVIOUS
  <2> QED
    BY <2>1, <2>2, <2>3
<1>2. p = g * Mesh + (m * BlockSize + o)
  BY <1>1
<1>3. p \div Mesh = g /\ p % Mesh = m * BlockSize + o
  BY <1>1, <1>2, DivModIs
<1>4. (m * BlockSize + o) \div BlockSize = m
  BY <1>1, DivModIs
<1>5. p % BlockSize = o
  <2>1. g * Mesh = (g * GenBlocks) * BlockSize
    OBVIOUS
  <2>2. PICK h \in Nat : h = g * GenBlocks
    OBVIOUS
  <2>3. PICK q \in Nat : q = h + m
    BY <2>2
  <2>4. p = q * BlockSize + o
    BY <2>1, <2>2, <2>3
  <2> HIDE DEF At
  <2> QED
    BY <2>4, DivModIs
<1> QED
  BY <1>3, <1>4, <1>5

\* Every position is a byte of a block of a generation.
LEMMA Split ==
  ASSUME NEW p \in Nat
  PROVE  \E g \in Nat, m \in BlockNos, o \in Offsets : p = At(g, m, o)
<1> USE Params DEF ParamFacts
<1>1. PICK g \in Nat, r \in 0..(Mesh - 1) : p = g * Mesh + r /\ g = p \div Mesh /\ r = p % Mesh
  BY DivModBasic
<1>2. PICK m \in Nat, o \in Offsets :
        r = m * BlockSize + o /\ m = r \div BlockSize /\ o = r % BlockSize
  BY DivModBasic DEF Offsets
<1>3. m \in BlockNos
  <2>1. ASSUME m >= GenBlocks PROVE FALSE
    <3>1. m * BlockSize >= GenBlocks * BlockSize
      BY <2>1
    <3> QED
      BY <1>2, <3>1 DEF Offsets
  <2> QED
    BY <2>1 DEF BlockNos
<1>4. p = At(g, m, o)
  <2>1. PICK x \in Nat, y \in Nat : x = g * Mesh /\ y = m * BlockSize
    OBVIOUS
  <2>2. p = x + r /\ r = y + o
    BY <1>1, <1>2, <2>1
  <2>3. p = x + y + o
    BY <2>2 DEF Offsets
  <2> QED
    BY <2>1, <2>3 DEF At
<1> HIDE DEF ParamFacts
<1> QED
  BY <1>3, <1>4

\* A position within the stream has a generation within it.
LEMMA GenIn ==
  ASSUME NEW g \in Nat, NEW p \in Nat, g * Mesh <= p, p <= MaxStream
  PROVE  g \in Gens
<1> USE Params DEF ParamFacts
<1>1. PICK h \in Nat, r \in 0..(Mesh - 1) : MaxStream \div Mesh = h /\ MaxStream = h * Mesh + r
  BY CntInputAssumption, DivModBasic
<1>2. ASSUME g >= h + 1 PROVE FALSE
  <2>1. g * Mesh >= (h + 1) * Mesh
    BY <1>2
  <2>2. (h + 1) * Mesh = h * Mesh + Mesh
    OBVIOUS
  <2> QED
    BY <1>1, <2>1, <2>2
<1> QED
  BY <1>1, <1>2 DEF Gens

\* The byte at a position, spelled out.
LEMMA ByteAtIs ==
  ASSUME NEW k, NEW g \in Nat, NEW m \in BlockNos, NEW o \in Offsets,
         NEW p \in Nat, p = At(g, m, o)
  PROVE  ByteAt(k, p) = Byte(<<k[1], g>>, After(Start(k, g), m + 1), o)
  BY SplitIs DEF ByteAt

-----------------------------------------------------------------------------
(* The inductive invariant *)

\* Before the first call there is no stream and nothing was emitted.
LEMMA InitIInv == Init => IInv
<1> SUFFICES ASSUME Init PROVE IInv
  OBVIOUS
<1>1. opened \in SBoxes \X IVs
  BY DEF Init
<1> QED
  BY <1>1, Params, CntInputAssumption DEF ParamFacts, Init, IInv, TypeOK, Fresh

\* The byte of position pos is emitted with the state that belongs to it.
LEMMA EmitIInv ==
  ASSUME IInv, st = "busy", todo > 0,
         NEW g \in Nat, NEW m \in BlockNos, NEW o \in Offsets, pos = At(g, m, o),
         num = o, XORByte(gamma'), ~first',
         c' = <<opened[1], g>>, iv' = After(Start(opened, g), m + 1), gamma' = <<c', iv'>>,
         count' = (m + 1) * BlockSize
  PROVE  IInv'
<1> USE Params DEF ParamFacts
<1>1. TypeOK /\ pos \in Nat /\ todo \in Nat /\ pos' = pos + 1 /\ pos' - 1 = pos
  BY DEF IInv, TypeOK, XORByte
<1>2. TypeOK'
  <2>1. num' \in 0..(BlockSize - 1)
    BY DivModBasic DEF XORByte, Offsets
  <2>2. /\ st' = st /\ sbox' = sbox /\ opened' = opened /\ todo' = todo - 1 /\ MaxStream \in Nat
        /\ pos + todo <= MaxStream
    BY CntInputAssumption DEF XORByte, IInv, TypeOK
  <2>3. todo' \in Nat /\ pos' \in 0..MaxStream /\ pos' + todo' <= MaxStream
    BY <1>1, <2>2
  <2>4. opened' \in SBoxes \X IVs /\ sbox' = opened'[1]
    BY <1>1, <2>2 DEF TypeOK
  <2> QED
    BY <2>1, <2>2, <2>3, <2>4 DEF TypeOK
<1>3. pos \div Mesh = g /\ (pos % Mesh) \div BlockSize = m /\ pos % BlockSize = o
  BY <1>1, SplitIs
<1>4. num' = pos' % BlockSize
  <2>1. num' = (o + 1) % BlockSize
    BY DEF XORByte
  <2>2. ((pos % BlockSize) + 1) % BlockSize = (pos + 1) % BlockSize
    BY <1>1, ModAdd
  <2> QED
    BY <1>1, <1>3, <2>1, <2>2
<1>5. Running'
  BY <1>1, <1>3, <1>4 DEF Running, XORByte, TypeOK
<1>6. out' = [p \in 0..(pos' - 1) |-> ByteAt(opened', p)]
  <2>1. out' = [p \in 0..pos |-> IF p < pos THEN out[p] ELSE Byte(c', iv', o)]
    BY DEF XORByte
  <2>2. Byte(c', iv', o) = ByteAt(opened, pos)
    BY <1>1, ByteAtIs
  <2>3. \A p \in 0..pos : p < pos => out[p] = ByteAt(opened, p)
    BY <1>1 DEF IInv
  <2>4. opened' = opened
    BY DEF XORByte
  <2> QED
    BY <1>1, <2>1, <2>2, <2>3, <2>4
<1> QED
  BY <1>1, <1>2, <1>5, <1>6 DEF IInv

\* Where the next byte of a running stream lies, given where the last one does.
LEMMA NextPosition ==
  ASSUME IInv, pos # 0
  PROVE  \E g \in Nat, m \in BlockNos, o \in Offsets :
           /\ pos - 1 = At(g, m, o) /\ num = (IF o + 1 = BlockSize THEN 0 ELSE o + 1)
           /\ c = <<opened[1], g>> /\ iv = After(Start(opened, g), m + 1) /\ gamma = <<c, iv>>
           /\ count = (m + 1) * BlockSize /\ ~first
<1> USE Params DEF ParamFacts
<1>1. pos \in Nat /\ pos - 1 \in Nat /\ Running
  BY DEF IInv, TypeOK
<1>2. PICK g \in Nat, m \in BlockNos, o \in Offsets : pos - 1 = At(g, m, o)
  BY <1>1, Split
<1>3. (pos - 1) \div Mesh = g /\ ((pos - 1) % Mesh) \div BlockSize = m /\ (pos - 1) % BlockSize = o
  BY <1>1, <1>2, SplitIs
<1>4. num = (IF o + 1 = BlockSize THEN 0 ELSE o + 1)
  <2>1. num = (o + 1) % BlockSize
    <3>1. (((pos - 1) % BlockSize) + 1) % BlockSize = ((pos - 1) + 1) % BlockSize
      BY <1>1, ModAdd
    <3>2. (pos - 1) + 1 = pos
      BY <1>1
    <3> QED
      BY <1>1, <1>3, <3>1, <3>2 DEF Running
  <2>2. CASE o + 1 = BlockSize
    <3>1. BlockSize = 1 * BlockSize + 0
      OBVIOUS
    <3>2. BlockSize % BlockSize = 0
      BY <3>1, DivModIs
    <3> QED
      BY <2>1, <2>2, <3>2
  <2>3. CASE o + 1 # BlockSize
    <3>1. o + 1 = 0 * BlockSize + (o + 1) /\ o + 1 \in 0..(BlockSize - 1)
      BY <2>3 DEF Offsets
    <3>2. (o + 1) % BlockSize = o + 1
      BY <3>1, DivModIs
    <3> QED
      BY <2>1, <2>3, <3>2
  <2> QED
    BY <2>2, <2>3
<1>5. /\ c = <<opened[1], g>> /\ iv = After(Start(opened, g), m + 1) /\ gamma = <<c, iv>>
      /\ count = (m + 1) * BlockSize /\ ~first
  BY <1>1, <1>3 DEF Running
<1> QED
  BY <1>2, <1>4, <1>5

\* A byte of the gamma block in the buffer (cnt.go:104-108).
LEMMA GammaByteIInv == ASSUME IInv, GammaByte PROVE IInv'
<1> USE Params DEF ParamFacts
<1>1. pos # 0 /\ pos \in Nat
  BY DEF IInv, TypeOK, Fresh, GammaByte
<1>2. PICK g \in Nat, m \in BlockNos, o \in Offsets :
        /\ pos - 1 = At(g, m, o) /\ num = (IF o + 1 = BlockSize THEN 0 ELSE o + 1)
        /\ c = <<opened[1], g>> /\ iv = After(Start(opened, g), m + 1) /\ gamma = <<c, iv>>
        /\ count = (m + 1) * BlockSize /\ ~first
  BY <1>1, NextPosition
<1>3. num = o + 1 /\ o + 1 \in Offsets
  BY <1>2 DEF GammaByte, Offsets
<1>4. pos = At(g, m, o + 1)
  <2>1. PICK x \in Nat, y \in Nat : x = g * Mesh /\ y = m * BlockSize
    BY DEF BlockNos
  <2>2. pos - 1 = x + y + o
    BY <1>2, <2>1 DEF At
  <2>3. pos = x + y + (o + 1)
    BY <1>1, <2>2 DEF Offsets
  <2> QED
    BY <2>1, <2>3 DEF At
<1> HIDE DEF ParamFacts
<1> QED
  BY <1>2, <1>3, <1>4, EmitIInv DEF GammaByte

\* A new gamma block: the first one of the stream, the next one of a generation,
\* or the first one under a meshed key (cnt.go:112-130).
LEMMA NextGammaIInv == ASSUME IInv, nextGamma PROVE IInv'
<1> USE Params DEF ParamFacts
<1>1. /\ pos \in Nat /\ st = "busy" /\ todo > 0 /\ num = 0 /\ todo \in Nat /\ sbox = opened[1]
      /\ opened \in SBoxes \X IVs /\ pos <= MaxStream /\ MaxStream \in Nat
  BY CntInputAssumption DEF IInv, TypeOK, nextGamma
<1>2. 0 \in Offsets /\ 0 \in BlockNos
  BY DEF Offsets, BlockNos
<1>3. CASE pos = 0
  <2>1. Fresh
    BY <1>3 DEF IInv
  <2>2. 0 \in Gens
    BY <1>1, <1>3, GenIn
  <2>3. /\ count # Mesh /\ c = <<opened[1], 0>> /\ iv = opened[2]
        /\ Encrypt(c, iv) = Start(opened, 0) /\ Start(opened, 0) \in Pairs
    BY <1>1, <2>1, <2>2, StartIs DEF Fresh
  <2>4. /\ c' = c /\ iv' = <<StepLo(Encrypt(c, iv)[1]), StepHi(Encrypt(c, iv)[2])>>
        /\ gamma' = <<c', iv'>> /\ count' = (count % Mesh) + BlockSize /\ XORByte(gamma') /\ ~first'
    BY <2>1, <2>3 DEF nextGamma, Fresh
  <2>5. iv' = After(Start(opened, 0), 0 + 1)
    BY <2>3, <2>4, StepAfter
  <2>6. count' = (0 + 1) * BlockSize
    <3>1. 0 % Mesh = 0
      BY DivModBasic, DivModIs
    <3> QED
      BY <2>1, <2>4, <3>1 DEF Fresh
  <2>7. pos = At(0, 0, 0)
    BY <1>3 DEF At
  <2> HIDE DEF ParamFacts
  <2> QED
    BY <1>1, <1>2, <2>3, <2>4, <2>5, <2>6, <2>7, EmitIInv
<1>4. CASE pos # 0
  <2>1. PICK g \in Nat, m \in BlockNos, o \in Offsets :
          /\ pos - 1 = At(g, m, o) /\ num = (IF o + 1 = BlockSize THEN 0 ELSE o + 1)
          /\ c = <<opened[1], g>> /\ iv = After(Start(opened, g), m + 1) /\ gamma = <<c, iv>>
          /\ count = (m + 1) * BlockSize /\ ~first
    BY <1>4, NextPosition
  <2>2. o + 1 = BlockSize
    BY <1>1, <2>1 DEF Offsets
  <2>3. PICK x \in Nat, y \in Nat : x = g * Mesh /\ y = m * BlockSize
    BY DEF BlockNos
  <2>4. pos = x + y + BlockSize /\ (m + 1) * BlockSize = y + BlockSize
    <3>1. pos - 1 = x + y + o
      BY <2>1, <2>3 DEF At
    <3>2. (m + 1) * BlockSize = m * BlockSize + BlockSize
      BY DEF BlockNos
    <3> QED
      BY <1>1, <2>2, <2>3, <3>1, <3>2 DEF Offsets
  <2>5. g \in Gens /\ Start(opened, g) \in Pairs
    <3>1. g * Mesh <= pos
      BY <2>3, <2>4
    <3> QED
      BY <1>1, <3>1, GenIn, StartIs
  <2>6. CASE m + 1 = GenBlocks
    <3>1. count = Mesh
      BY <2>1, <2>6
    <3>2. pos = (g + 1) * Mesh /\ pos = At(g + 1, 0, 0)
      <4>1. Mesh = y + BlockSize /\ (g + 1) * Mesh = x + Mesh
        BY <2>3, <2>4, <2>6
      <4> QED
        BY <2>3, <2>4, <4>1 DEF At
    <3>3. g + 1 \in Gens /\ g + 1 # 0 /\ (g + 1) - 1 = g
      BY <1>1, <3>2, GenIn
    <3>4. PICK k : k = <<opened[1], g + 1>>
      OBVIOUS
    <3>5. PICK v : v = Encrypt(k, iv)
      OBVIOUS
    <3>6. v = Start(opened, g + 1) /\ v \in Pairs
      BY <1>1, <2>1, <2>6, <3>3, <3>4, <3>5, StartIs
    <3>7. c[2] = g
      BY <2>1
    <3>8. meshKey[1] = k /\ meshKey[2] = v
      BY <1>1, <3>4, <3>5, <3>7 DEF meshKey
    <3>9. /\ c' = k /\ iv' = <<StepLo(v[1]), StepHi(v[2])>> /\ gamma' = <<c', iv'>>
          /\ count' = (0 % Mesh) + BlockSize /\ XORByte(gamma') /\ ~first'
      BY <2>1, <3>1, <3>8 DEF nextGamma
    <3>10. iv' = After(Start(opened, g + 1), 0 + 1)
      BY <3>6, <3>9, StepAfter
    <3>11. count' = (0 + 1) * BlockSize
      <4>1. 0 % Mesh = 0
        BY DivModBasic, DivModIs
      <4> QED
        BY <3>9, <4>1
    <3>12. g + 1 \in Nat
      OBVIOUS
    <3> HIDE DEF ParamFacts
    <3> QED
      BY <1>1, <1>2, <3>2, <3>4, <3>9, <3>10, <3>11, <3>12, EmitIInv
  <2>7. CASE m + 1 # GenBlocks
    <3>1. m + 1 \in BlockNos /\ m + 1 \in Nat \ {0}
      BY <2>7 DEF BlockNos
    <3>2. count \in 0..(Mesh - 1)
      <4>1. ((m + 1) + 1) * BlockSize <= GenBlocks * BlockSize
        BY <3>1 DEF BlockNos
      <4>2. ((m + 1) + 1) * BlockSize = (m + 1) * BlockSize + BlockSize
        BY <3>1
      <4>3. (m + 1) * BlockSize \in Nat
        BY <3>1
      <4> QED
        BY <2>1, <4>1, <4>2, <4>3
    <3>3. count % Mesh = count
      <4>1. count = 0 * Mesh + count
        BY <3>2
      <4> QED
        BY <3>2, <4>1, DivModIs
    <3>4. /\ c' = c /\ iv' = <<StepLo(iv[1]), StepHi(iv[2])>> /\ gamma' = <<c', iv'>>
          /\ count' = count + BlockSize /\ XORByte(gamma') /\ ~first'
      BY <2>1, <3>2, <3>3 DEF nextGamma
    <3>5. iv' = After(Start(opened, g), (m + 1) + 1)
      BY <2>1, <2>5, <3>1, <3>4, StepAfter
    <3>6. count' = ((m + 1) + 1) * BlockSize
      BY <2>1, <3>1, <3>4
    <3>7. pos = At(g, m + 1, 0)
      BY <2>3, <2>4 DEF At
    <3> HIDE DEF ParamFacts
    <3> QED
      BY <1>1, <1>2, <2>1, <3>1, <3>4, <3>5, <3>6, <3>7, EmitIInv
  <2> QED
    BY <2>6, <2>7
<1> QED
  BY <1>3, <1>4

\* The constructor, the start and the end of a call touch no byte.
LEMMA CallIInv ==
  ASSUME IInv,
         \/ \E l \in IvLens : NewCNT(l)
         \/ \E n \in CallLens : XORKeyStream(n)
         \/ XORKeyStreamPanics \/ Return \/ UNCHANGED vars
  PROVE  IInv'
<1>1. opened \in SBoxes \X IVs /\ sbox = opened[1] /\ pos \in Nat
  BY DEF IInv, TypeOK
<1>2. ASSUME NEW l \in IvLens, NewCNT(l) PROVE IInv'
  <2>1. pos = 0 /\ Fresh
    BY <1>2 DEF IInv, Running, NewCNT
  <2>2. TypeOK' /\ Fresh'
    BY <1>1, <1>2, <2>1 DEF IInv, TypeOK, Fresh, NewCNT
  <2> QED
    BY <1>2, <2>1, <2>2 DEF IInv, NewCNT
<1>3. ASSUME NEW n \in CallLens, XORKeyStream(n) PROVE IInv'
  BY <1>3, CntInputAssumption DEF XORKeyStream, IInv, TypeOK, Fresh, Running
<1>4. CASE Return
  BY <1>4 DEF Return, IInv, TypeOK, Fresh, Running
<1>5. CASE XORKeyStreamPanics \/ UNCHANGED vars
  BY <1>5 DEF XORKeyStreamPanics, vars, IInv, TypeOK, Fresh, Running
<1> QED
  BY <1>2, <1>3, <1>4, <1>5

\* Every step keeps the invariant.
LEMMA NextIInv == IInv /\ [Next]_vars => IInv'
  BY CallIInv, GammaByteIInv, NextGammaIInv DEF Next

\* The state of the stream is that of its last byte: num, count and the counter
\* never disagree about the position, whichever calls were made (cnt.go:97-144).
THEOREM InductiveInvariant == Spec => []IInv
  BY InitIInv, NextIInv, PTL DEF Spec

-----------------------------------------------------------------------------
\* Two blocks of one generation have different counters: the lower word alone,
\* which steps by c2 modulo 2^32, tells them apart.
LEMMA CountersApart ==
  ASSUME NEW b \in Pairs, NEW m \in BlockNos, NEW n \in BlockNos, m < n
  PROVE  After(b, m + 1) # After(b, n + 1)
<1> USE Params DEF ParamFacts, BlockNos
<1> SUFFICES ASSUME After(b, m + 1) = After(b, n + 1) PROVE FALSE
  OBVIOUS
<1>1. PICK lo \in Words : lo = b[1]
  BY DEF Pairs
<1>2. PICK x \in Nat, y \in Nat, d \in Nat, z \in Nat :
        /\ x = lo + (m + 1) * C2 /\ y = lo + (n + 1) * C2 /\ d = n - m /\ z = d * C2
  BY DEF Words
<1>3. y = x + z
  <2>1. (n + 1) * C2 = (m + 1) * C2 + (n - m) * C2
    OBVIOUS
  <2> QED
    BY <1>2, <2>1 DEF Words
<1>4. x % Word = y % Word
  BY <1>1, <1>2 DEF After
<1>5. PICK q \in Nat, r \in 0..(Word - 1) : x = q * Word + r /\ q = x \div Word /\ r = x % Word
  BY DivModBasic
<1>6. PICK s \in Nat : y = s * Word + r /\ s = y \div Word
  BY <1>4, <1>5, DivModBasic
<1>7. z = s * Word - q * Word
  BY <1>3, <1>5, <1>6
<1>8. s >= q
  <2>1. ASSUME s < q PROVE FALSE
    <3>1. s * Word < q * Word
      BY <2>1
    <3> QED
      BY <1>7, <3>1
  <2> QED
    BY <2>1
<1>9. PICK t \in Nat : t = s - q
  BY <1>8
<1>10. z = t * Word + 0
  BY <1>7, <1>9
<1>11. z % Word = 0
  BY <1>10, DivModIs
<1>12. d \in 1..(Mesh \div BlockSize - 1)
  BY <1>2 DEF GenBlocks
<1> QED
  BY <1>2, <1>11, <1>12, CntPeriodAssumption

\* Different positions have different bytes.
LEMMA BytesApart ==
  ASSUME NEW k \in SBoxes \X IVs, NEW p \in Nat, NEW q \in Nat, p < q, q < MaxStream
  PROVE  ByteAt(k, p) # ByteAt(k, q)
<1> USE Params DEF ParamFacts
<1> SUFFICES ASSUME ByteAt(k, p) = ByteAt(k, q) PROVE FALSE
  OBVIOUS
<1>1. PICK g \in Nat, m \in BlockNos, o \in Offsets : p = At(g, m, o)
  BY Split
<1>2. PICK h \in Nat, n \in BlockNos, l \in Offsets : q = At(h, n, l)
  BY Split
<1>3. /\ Byte(<<k[1], g>>, After(Start(k, g), m + 1), o)
         = Byte(<<k[1], h>>, After(Start(k, h), n + 1), l)
  BY <1>1, <1>2, ByteAtIs
<1>4. g = h /\ o = l /\ After(Start(k, g), m + 1) = After(Start(k, g), n + 1)
  BY <1>3 DEF Byte
<1>5. PICK x \in Nat, y \in Nat, z \in Nat : x = g * Mesh /\ y = m * BlockSize /\ z = n * BlockSize
  BY DEF BlockNos
<1>6. p = x + y + o /\ q = x + z + o
  BY <1>1, <1>2, <1>4, <1>5 DEF At
<1>7. m < n
  <2>1. ASSUME m >= n PROVE FALSE
    <3>1. m * BlockSize >= n * BlockSize
      BY <2>1 DEF BlockNos
    <3> QED
      BY <1>5, <1>6, <3>1 DEF Offsets
  <2> QED
    BY <2>1 DEF BlockNos
<1>8. g \in Gens
  <2>1. g * Mesh <= p /\ p <= MaxStream /\ MaxStream \in Nat
    BY <1>5, <1>6, CntInputAssumption DEF Offsets
  <2> QED
    BY <2>1, GenIn
<1> QED
  BY <1>4, <1>7, <1>8, StartIs, CountersApart

\* No keystream byte is emitted twice (cnt.go:112-144): keys of different
\* generations count as different, and under one key the counter does not
\* return to a value within the blocks between two meshings.
THEOREM NeverReused == Spec => []NoReuse
<1>1. IInv => NoReuse
  <2> SUFFICES ASSUME IInv, NEW q \in 0..(pos - 1), NEW p \in 0..(q - 1)
               PROVE  out[p] # out[q]
    BY DEF NoReuse
  <2>1. out[p] = ByteAt(opened, p) /\ out[q] = ByteAt(opened, q)
    BY DEF IInv, TypeOK
  <2>2. opened \in SBoxes \X IVs /\ p \in Nat /\ q \in Nat /\ p < q /\ q < MaxStream
    BY CntInputAssumption DEF IInv, TypeOK
  <2> QED
    BY <2>1, <2>2, BytesApart
<1> QED
  BY <1>1, InductiveInvariant, PTL

\* CNT implements KeyStream: NewCNT opens the stream, every byte of XORKeyStream
\* appends the byte of its position, and calls, panics and returns are
\* invisible (cnt.go:70-110).
THEOREM Refinement == Spec => RefinesKeyStream
<1>1. Init => Abstract!Init
  BY DEF Init, Abstract!Init
<1>2. IInv /\ IInv' /\ [Next]_vars => [Abstract!Next]_(Abstract!vars)
  <2> SUFFICES ASSUME IInv, IInv', [Next]_vars PROVE [Abstract!Next]_(Abstract!vars)
    OBVIOUS
  <2>1. /\ pos \in Nat /\ pos' \in Nat /\ opened \in SBoxes \X Pairs /\ opened # <<>>
        /\ out' = [p \in 0..(pos' - 1) |-> ByteAt(opened', p)]
    <3>1. opened \in SBoxes \X IVs /\ pos \in Nat /\ pos' \in Nat
      BY CntInputAssumption DEF IInv, TypeOK
    <3>2. PICK s \in SBoxes, b \in IVs : opened = <<s, b>>
      BY <3>1
    <3>3. opened \in SBoxes \X Pairs
      BY <3>2, CntInputAssumption
    <3>4. opened # <<>>
      BY <3>2
    <3> QED
      BY <3>1, <3>3, <3>4 DEF IInv
  <2>2. ASSUME UNCHANGED <<opened, pos, out>>,
               (st \in {"new", "panic"}) <=> (st' \in {"new", "panic"})
        PROVE  UNCHANGED Abstract!vars
    BY <2>2 DEF Abstract!vars
  <2>3. ASSUME NEW l \in IvLens, NewCNT(l) PROVE Abstract!Next \/ UNCHANGED Abstract!vars
    <3>1. CASE l = BlockSize
      BY <2>1, <2>3, <3>1 DEF NewCNT, Abstract!Next, Abstract!Open
    <3>2. CASE l # BlockSize
      BY <2>2, <2>3, <3>2 DEF NewCNT
    <3> QED
      BY <3>1, <3>2
  <2>4. ASSUME st = "busy", NEW g, XORByte(g) PROVE Abstract!Next
    <3>1. st' = "busy" /\ opened' = opened /\ pos' > pos
      BY <2>1, <2>4 DEF XORByte
    <3> QED
      BY <2>1, <2>4, <3>1 DEF Abstract!Next, Abstract!Emit, Abstract!Prefix
  <2>5. CASE nextGamma
    BY <2>4, <2>5 DEF nextGamma
  <2>6. CASE GammaByte
    BY <2>4, <2>6 DEF GammaByte
  <2>7. ASSUME NEW n \in CallLens, XORKeyStream(n) PROVE UNCHANGED Abstract!vars
    BY <2>2, <2>7 DEF XORKeyStream
  <2>8. CASE Return
    BY <2>2, <2>8 DEF Return
  <2>9. CASE XORKeyStreamPanics \/ UNCHANGED vars
    BY <2>2, <2>9 DEF XORKeyStreamPanics, vars
  <2> QED
    BY <2>3, <2>5, <2>6, <2>7, <2>8, <2>9 DEF Next
<1> QED
  BY <1>1, <1>2, InitIInv, NextIInv, InductiveInvariant, PTL DEF Spec, Abstract!Spec, RefinesKeyStream
=============================================================================
