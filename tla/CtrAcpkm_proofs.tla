-------------------------- MODULE CtrAcpkm_proofs --------------------------
(***************************************************************************)
(* Proofs about CtrAcpkm for every block size, counter width, section size *)
(* and batch bound.                                                        *)
(***************************************************************************)
EXTENDS CtrAcpkm, NaturalLemmas

ParamFacts == /\ BlockSize \in Nat \ {0}
              /\ CtrMod \in Nat \ {0} /\ IV0 \in 0..(CtrMod - 1)
              /\ MinBulk \in Nat \ {0} /\ MaxBulk \in Nat /\ MaxBulk >= MinBulk
              /\ KeySize \in Nat /\ CallLens \subseteq Nat /\ Sections \subseteq Int

\* The assumptions on the parameters, in one place.
LEMMA Params == ParamFacts
  BY BlockSizeAssumption, CounterAssumption, BulkAssumption, InputAssumption DEF ParamFacts

\* Counters stay counters: incCounter on ctracpkm.go:333 wraps, never overflows.
LEMMA IncCounterType ==
  ASSUME NEW c \in Nat, NEW n \in Nat
  PROVE  incCounter(c, n) \in 0..(CtrMod - 1)
  BY Params, DivModBasic DEF ParamFacts, incCounter

\* The byte triple of position p, spelled out: p lies in section k when
\* p = k*s + r with r < s, in block b at offset o when p = b*BlockSize + o.
LEMMA ByteAtIs ==
  ASSUME NEW s \in Nat, NEW p \in Nat, NEW k \in Nat,
         NEW b \in Nat, NEW o \in 0..(BlockSize - 1),
         p = b * BlockSize + o,
         s = 0 => k = 0,
         s > 0 => \E r \in 0..(s - 1) : p = k * s + r
  PROVE  ByteAt(s, p) = Byte(k, (IV0 + b) % CtrMod, o)
<1>1. p \div BlockSize = b /\ p % BlockSize = o
  BY Params, DivModIs DEF ParamFacts
<1>2. (IF s = 0 THEN 0 ELSE p \div s) = k
  <2>1. CASE s = 0
    BY <2>1
  <2>2. CASE s > 0
    <3>1. PICK r \in 0..(s - 1) : p = k * s + r
      BY <2>2
    <3>2. s \in Nat \ {0}
      BY <2>2
    <3>3. PICK d \in Nat \ {0} : d = s
      BY <3>2
    <3>4. PICK t \in 0..(d - 1) : t = r
      BY <3>3
    <3>5. (k * d + t) \div d = k
      BY DivModOf
    <3>6. p = k * d + t
      BY <3>1, <3>3, <3>4
    <3>7. p \div s = k
      BY <3>3, <3>5, <3>6
    <3> QED
      BY <2>2, <3>7
  <2> QED
    BY <2>1, <2>2
<1> QED
  BY <1>1, <1>2 DEF ByteAt

\* A byte under the counters of the model is a byte of the type.
LEMMA ByteType ==
  ASSUME NEW k \in Nat, NEW c \in 0..(CtrMod - 1), NEW o \in 0..(BlockSize - 1)
  PROVE  Byte(k, c, o) \in [key : Nat, ctr : 0..(CtrMod - 1), off : 0..(BlockSize - 1)]
  BY DEF Byte

\* Before the constructor runs there is no stream and nothing was emitted.
LEMMA InitIInv == Init => IInv
<1> SUFFICES ASSUME Init PROVE IInv
  OBVIOUS
<1>1. 0..(pos - 1) = {} /\ pos = 0
  BY DEF Init
<1>2. TypeOK
  <2>1. out \in [0..(pos - 1) -> [key : Nat, ctr : 0..(CtrMod - 1), off : 0..(BlockSize - 1)]]
    BY <1>1 DEF Init
  <2>2. 0 \in 0..(CtrMod - 1) /\ 0 \in 0..BlockSize
    BY Params DEF ParamFacts
  <2> QED
    BY <2>1, <2>2 DEF Init, TypeOK, Kinds
<1>3. StreamIsOneShot
  BY <1>1 DEF StreamIsOneShot
<1> QED
  BY <1>2, <1>3 DEF Init, IInv, Unopened

\* NewCTR, NewCTRACPKM: the fresh stream stands at position 0 with no gamma.
LEMMA ConstructIInv ==
  ASSUME IInv, NEW k \in Kinds, NEW s \in Nat, NEW f \in BOOLEAN,
         st = "new", MakeStream(k, s, f), s % BlockSize = 0, s > 0 => f
  PROVE  IInv'
<1> USE Params DEF ParamFacts
<1>1. Unopened /\ TypeOK
  BY DEF IInv
<1>2. pos' = 0 /\ key' = 0 /\ sinceRekey' = 0 /\ todo' = 0 /\ sectionSize' = s
      /\ num' = BlockSize /\ iv' = IV0 /\ st' = "idle" /\ factory' = f /\ kind' = k
      /\ out' = out /\ gamma' = gamma /\ pos' = pos
  BY <1>1 DEF MakeStream, Unopened
<1>3. TypeOK'
  BY <1>1, <1>2 DEF TypeOK
<1>4. StreamIsOneShot'
  BY <1>2 DEF StreamIsOneShot
<1>5. 0 % BlockSize = 0 /\ 0 \div BlockSize = 0 /\ IV0 % CtrMod = IV0
  BY SMT
<1>6. Aligned'
  BY <1>2, <1>5 DEF Aligned, Whole
<1>7. CounterInv'
  BY <1>2, <1>5 DEF CounterInv
<1>8. SectionInv'
  <2>1. 0 * s = 0
    BY SMT
  <2> QED
    BY <1>2, <2>1 DEF SectionInv
<1> QED
  BY <1>2, <1>3, <1>4, <1>6, <1>7, <1>8 DEF IInv

\* Steps that touch only st and todo keep the relation of fields to position.
LEMMA IdleIInv ==
  ASSUME IInv, UNCHANGED <<params, key, iv, gamma, num, sinceRekey, pos, out>>,
         todo' \in Nat,
         \/ st \in {"idle", "busy"} /\ st' \in {"idle", "busy"}
         \/ st = "new" /\ st' = "panic" /\ todo' = todo
         \/ st' = st /\ todo' = todo
  PROVE  IInv'
  BY DEF IInv, TypeOK, StreamIsOneShot, Unopened, Aligned, Whole, CounterInv, SectionInv, params

\* rekeyACPKM: due exactly when the section is full, so position p = (key+1)*N.
LEMMA RekeyIInv == ASSUME IInv, rekeyACPKM PROVE IInv'
<1> USE Params DEF ParamFacts
<1>1. /\ TypeOK /\ StreamIsOneShot /\ Aligned /\ CounterInv /\ SectionInv
      /\ st = "busy" /\ num = BlockSize /\ sectionSize > 0 /\ sinceRekey = sectionSize
  BY DEF IInv, rekeyACPKM, AtBoundary, RekeyDue, SectionInv, TypeOK
<1>2. /\ key' = key + 1 /\ sinceRekey' = 0
      /\ UNCHANGED <<st, factory, kind, sectionSize, iv, gamma, num, todo, pos, out>>
  BY <1>1 DEF rekeyACPKM, params, SectionInv
<1>3. TypeOK'
  BY <1>1, <1>2 DEF TypeOK
<1>4. StreamIsOneShot'
  BY <1>1, <1>2 DEF StreamIsOneShot
<1>5. Aligned'
  <2>1. 0 % BlockSize = 0
    BY SMT
  <2> QED
    BY <1>1, <1>2, <2>1 DEF Aligned, Whole
<1>6. CounterInv'
  BY <1>1, <1>2 DEF CounterInv
<1>7. SectionInv'
  <2>1. pos = key * sectionSize + sectionSize
    BY <1>1 DEF SectionInv
  <2>2. key * sectionSize + sectionSize = (key + 1) * sectionSize
    BY <1>1 DEF TypeOK
  <2> QED
    BY <1>1, <1>2, <2>1, <2>2 DEF SectionInv, TypeOK
<1> QED
  BY <1>1, <1>2, <1>3, <1>4, <1>5, <1>6, <1>7 DEF IInv

\* At a block boundary q whole blocks were emitted, and iv is counter number q.
LEMMA AtBoundaryFacts ==
  ASSUME IInv, AtBoundary
  PROVE  /\ TypeOK /\ StreamIsOneShot /\ SectionInv
         /\ st = "busy" /\ num = BlockSize /\ todo > 0
         /\ \E q \in Nat : /\ pos = q * BlockSize /\ pos \div BlockSize = q
                           /\ iv = (IV0 + q) % CtrMod
         /\ \E r \in Nat : sinceRekey = r * BlockSize
         /\ \E m \in Nat : sectionSize = m * BlockSize
<1> USE Params DEF ParamFacts
<1>1. /\ TypeOK /\ StreamIsOneShot /\ SectionInv /\ Aligned /\ CounterInv
      /\ st = "busy" /\ num = BlockSize /\ todo > 0
  BY DEF IInv, AtBoundary
<1>2. pos + BlockSize - num = pos /\ sinceRekey + BlockSize - num = sinceRekey
  BY <1>1 DEF TypeOK
<1>3. PICK q \in Nat : pos = q * BlockSize
  BY <1>1, <1>2, MultipleIff DEF Aligned, Whole, TypeOK
<1>4. pos \div BlockSize = q
  <2>1. 0 \in 0..(BlockSize - 1) /\ pos = q * BlockSize + 0
    BY <1>3
  <2> QED
    BY <1>1, <2>1, DivModIs DEF TypeOK
<1>5. iv = (IV0 + q) % CtrMod
  BY <1>1, <1>2, <1>4 DEF CounterInv
<1>6. \E r \in Nat : sinceRekey = r * BlockSize
  BY <1>1, <1>2, MultipleIff DEF Aligned, Whole, TypeOK
<1>7. \E m \in Nat : sectionSize = m * BlockSize
  BY <1>1, MultipleIff DEF Aligned, Whole, TypeOK
<1> QED
  BY <1>1, <1>3, <1>4, <1>5, <1>6, <1>7

\* A counter advanced by n from number q is counter number q + n.
LEMMA IncCounterIs ==
  ASSUME NEW q \in Nat, NEW n \in Nat
  PROVE  incCounter((IV0 + q) % CtrMod, n) = (IV0 + (q + n)) % CtrMod
<1>1. PICK a \in Nat : a = IV0 + q
  BY Params DEF ParamFacts
<1>2. ((a % CtrMod) + n) % CtrMod = (a + n) % CtrMod
  BY Params, ModAdd DEF ParamFacts
<1>3. a + n = IV0 + (q + n)
  BY <1>1, Params DEF ParamFacts
<1> QED
  BY <1>1, <1>2, <1>3 DEF incCounter

\* q*BlockSize + BlockSize is the next boundary.
LEMMA NextBoundary ==
  ASSUME NEW q \in Nat
  PROVE  /\ (q * BlockSize + BlockSize) % BlockSize = 0
         /\ (q * BlockSize + BlockSize) \div BlockSize = q + 1
<1> USE Params DEF ParamFacts
<1>1. PICK a \in Nat, b \in Nat : a = q * BlockSize + BlockSize /\ b = q + 1
  BY SMT
<1>2. a = b * BlockSize + 0 /\ 0 \in 0..(BlockSize - 1)
  BY <1>1, SMT
<1>3. a \div BlockSize = b /\ a % BlockSize = 0
  BY <1>2, DivModIs
<1> QED
  BY <1>1, <1>3

\* The gamma block generated at boundary q holds counter q under the current
\* key, and a whole block still fits in the section.
LEMMA NextGammaIInv == ASSUME IInv, NextGamma PROVE IInv'
<1> USE Params DEF ParamFacts
<1>0. AtBoundary
  BY DEF NextGamma
<1>1. /\ TypeOK /\ StreamIsOneShot /\ SectionInv
      /\ st = "busy" /\ num = BlockSize
  BY <1>0, AtBoundaryFacts
<1>2. PICK q \in Nat : /\ pos = q * BlockSize /\ pos \div BlockSize = q
                       /\ iv = (IV0 + q) % CtrMod
  BY <1>0, AtBoundaryFacts
<1>3. PICK r \in Nat, m \in Nat : sinceRekey = r * BlockSize /\ sectionSize = m * BlockSize
  BY <1>0, AtBoundaryFacts
<1>4. /\ gamma' = <<key, iv>> /\ iv' = incCounter(iv, 1) /\ num' = 0
      /\ UNCHANGED <<st, factory, kind, sectionSize, key, sinceRekey, todo, pos, out>>
  BY DEF NextGamma, params
<1>5. TypeOK'
  <2>1. iv \in Nat /\ iv \in 0..(CtrMod - 1) /\ key \in Nat /\ 1 \in Nat
    BY <1>1 DEF TypeOK
  <2>2. iv' \in 0..(CtrMod - 1)
    BY <1>4, <2>1, IncCounterType
  <2>3. gamma' \in Nat \X (0..(CtrMod - 1)) /\ num' \in 0..BlockSize
    BY <1>4, <2>1
  <2> QED
    BY <1>1, <1>4, <2>2, <2>3 DEF TypeOK
<1>6. StreamIsOneShot'
  BY <1>1, <1>4 DEF StreamIsOneShot
<1>7. /\ pos' + BlockSize - num' = q * BlockSize + BlockSize
      /\ sinceRekey' + BlockSize - num' = r * BlockSize + BlockSize
  BY <1>2, <1>3, <1>4
<1>8. Aligned'
  <2>1. Whole(sectionSize')
    <3>1. sectionSize \in Nat /\ \E x \in Nat : sectionSize = x * BlockSize
      BY <1>1, <1>3 DEF TypeOK
    <3> QED
      BY <1>4, <3>1, MultipleIff DEF Whole
  <2> QED
    BY <1>7, <2>1, NextBoundary DEF Aligned, Whole
<1>9. CounterInv'
  <2>1. iv' = (IV0 + (q + 1)) % CtrMod
    BY <1>2, <1>4, IncCounterIs
  <2>2. (pos' + BlockSize - num') \div BlockSize = q + 1
    BY <1>7, NextBoundary
  <2> QED
    BY <1>2, <1>4, <2>1, <2>2 DEF CounterInv
<1>10. SectionInv'
  <2>1. CASE sectionSize > 0
    <3>1. sinceRekey < sectionSize
      BY <1>1, <2>1 DEF NextGamma, RekeyDue, TypeOK
    <3>2. sinceRekey + BlockSize <= sectionSize
      BY <1>3, <3>1, MultipleGap
    <3> QED
      BY <1>1, <1>4, <2>1, <3>2 DEF SectionInv, TypeOK
  <2>2. CASE sectionSize = 0
    BY <1>1, <1>4, <2>2 DEF SectionInv
  <2> QED
    BY <1>1, <2>1, <2>2 DEF TypeOK
<1> QED
  BY <1>1, <1>4, <1>5, <1>6, <1>8, <1>9, <1>10 DEF IInv

\* One byte of the current gamma block.
LEMMA XORByteIInv == ASSUME IInv, XORByte PROVE IInv'
<1> USE Params DEF ParamFacts
<1>1. /\ TypeOK /\ StreamIsOneShot /\ SectionInv /\ Aligned /\ CounterInv
      /\ st = "busy" /\ num < BlockSize /\ todo > 0
  BY DEF IInv, XORByte
<1>2. /\ pos' = pos + 1 /\ num' = num + 1 /\ sinceRekey' = sinceRekey + 1 /\ todo' = todo - 1
      /\ UNCHANGED <<st, factory, kind, sectionSize, key, iv, gamma>>
      /\ out' = [p \in 0..(pos + 1 - 1) |-> IF p < pos THEN out[p] ELSE Byte(gamma[1], gamma[2], num)]
  BY DEF XORByte, params, Emitted
<1>t. /\ num \in 0..(BlockSize - 1) /\ pos \in Nat /\ key \in Nat /\ sectionSize \in Nat
      /\ gamma[1] \in Nat /\ gamma[2] \in 0..(CtrMod - 1)
  BY <1>1 DEF TypeOK
<1>3. PICK b \in Nat : pos = b * BlockSize + num
  <2>1. PICK a \in Nat : pos + BlockSize - num = a * BlockSize
    <3>1. pos + BlockSize - num \in Nat
      BY <1>1 DEF TypeOK
    <3> QED
      BY <1>1, <3>1, MultipleIff DEF Aligned, Whole
  <2>2. a > 0
    <3>1. 0 * BlockSize = 0
      BY SMT
    <3> QED
      BY <1>1, <2>1, <3>1 DEF TypeOK
  <2>3. PICK b \in Nat : b = a - 1
    BY <2>2
  <2>4. pos = b * BlockSize + num
    BY <1>1, <2>1, <2>3 DEF TypeOK
  <2> QED
    BY <2>4
<1>d. pos \div BlockSize = b
  BY <1>t, <1>3, DivModIs
<1>4. /\ pos' + BlockSize - num' = pos + BlockSize - num
      /\ sinceRekey' + BlockSize - num' = sinceRekey + BlockSize - num
  BY <1>1, <1>2 DEF TypeOK
<1>5. gamma = <<key, (IV0 + b) % CtrMod>>
  BY <1>1, <1>d DEF CounterInv
<1>6. Byte(gamma[1], gamma[2], num) = ByteAt(sectionSize, pos)
  <2>1. sectionSize = 0 => key = 0
    BY <1>1 DEF SectionInv
  <2>2. sectionSize > 0 => \E r \in 0..(sectionSize - 1) : pos = key * sectionSize + r
    <3>1. sectionSize > 0 => sinceRekey \in 0..(sectionSize - 1) /\ pos = key * sectionSize + sinceRekey
      BY <1>1 DEF SectionInv, TypeOK
    <3> QED
      BY <3>1
  <2>3. ByteAt(sectionSize, pos) = Byte(key, (IV0 + b) % CtrMod, num)
    BY <1>t, <1>3, <2>1, <2>2, ByteAtIs
  <2> QED
    BY <1>5, <2>3
<1>7. StreamIsOneShot'
  <2>1. \A p \in 0..(pos' - 1) : out'[p] = ByteAt(sectionSize, p)
    BY <1>1, <1>2, <1>6 DEF StreamIsOneShot, TypeOK
  <2> QED
    BY <1>2, <2>1 DEF StreamIsOneShot, ByteAt, Byte
<1>8. TypeOK'
  <2>1. Byte(gamma[1], gamma[2], num) \in [key : Nat, ctr : 0..(CtrMod - 1), off : 0..(BlockSize - 1)]
    BY <1>t, ByteType
  <2>2. out' \in [0..(pos' - 1) -> [key : Nat, ctr : 0..(CtrMod - 1), off : 0..(BlockSize - 1)]]
    BY <1>1, <1>2, <2>1 DEF TypeOK
  <2> QED
    BY <1>1, <1>2, <2>2 DEF TypeOK
<1>9. Aligned'
  BY <1>1, <1>2, <1>4 DEF Aligned, Whole
<1>10. CounterInv'
  <2>1. num' < BlockSize => pos' \div BlockSize = b
    <3>1. SUFFICES ASSUME num' < BlockSize PROVE pos' \div BlockSize = b
      OBVIOUS
    <3>2. pos' = b * BlockSize + num' /\ num' \in 0..(BlockSize - 1) /\ pos' \in Nat
      BY <1>1, <1>2, <1>3, <3>1 DEF TypeOK
    <3> QED
      BY <3>2, DivModIs
  <2> QED
    BY <1>1, <1>2, <1>4, <1>5, <2>1 DEF CounterInv, TypeOK
<1>11. SectionInv'
  BY <1>1, <1>2 DEF SectionInv, TypeOK
<1> QED
  BY <1>1, <1>2, <1>7, <1>8, <1>9, <1>10, <1>11 DEF IInv

\* The batch: BulkBlocks whole blocks that neither exceed the data nor cross
\* the end of the section.
LEMMA BulkBlocksFacts ==
  ASSUME IInv, bulkXOR
  PROVE  /\ BulkBlocks \in Nat \ {0}
         /\ BulkBlocks * BlockSize \in Nat
         /\ BulkBlocks * BlockSize <= todo
         /\ sectionSize > 0 => sinceRekey + BulkBlocks * BlockSize <= sectionSize
<1> USE Params DEF ParamFacts
<1>1. AtBoundary /\ TakesBulk /\ Clipped >= MinBulk
  BY DEF bulkXOR, TakesBulk
<1>2. TypeOK /\ SectionInv
  BY <1>1, AtBoundaryFacts
<1>3. /\ todo \div BlockSize \in Nat
      /\ (todo \div BlockSize) * BlockSize <= todo
  <2>1. todo \in Nat
    BY <1>2 DEF TypeOK
  <2> QED
    BY <2>1, DivModBasic
<1>4. sectionSize > 0 => /\ UntilRekey \in Nat
                         /\ sinceRekey + UntilRekey * BlockSize <= sectionSize
  <2>1. SUFFICES ASSUME sectionSize > 0
                 PROVE  UntilRekey \in Nat /\ sinceRekey + UntilRekey * BlockSize <= sectionSize
    OBVIOUS
  <2>2. PICK x \in Nat : x = sectionSize - sinceRekey
    BY <1>2, <2>1 DEF SectionInv, TypeOK
  <2>3. x \div BlockSize \in Nat /\ (x \div BlockSize) * BlockSize <= x
    BY DivModBasic
  <2> QED
    BY <1>2, <2>2, <2>3 DEF UntilRekey, TypeOK
<1>5. /\ Clipped \in Nat
      /\ Clipped <= todo \div BlockSize
      /\ sectionSize > 0 => Clipped <= UntilRekey
  BY <1>2, <1>3, <1>4 DEF Clipped, TypeOK
<1>6. BulkBlocks \in Nat \ {0} /\ BulkBlocks <= Clipped
  BY <1>1, <1>5 DEF BulkBlocks
<1>7. PICK n \in Nat, c \in Nat, d \in Nat : n = BulkBlocks /\ c = Clipped /\ d = todo \div BlockSize
  BY <1>3, <1>5, <1>6
<1>8. n * BlockSize \in Nat /\ n * BlockSize <= c * BlockSize /\ n * BlockSize <= d * BlockSize
  BY <1>5, <1>6, <1>7, SMT
<1>9. sectionSize > 0 => sinceRekey + n * BlockSize <= sectionSize
  <2>1. SUFFICES ASSUME sectionSize > 0 PROVE sinceRekey + n * BlockSize <= sectionSize
    OBVIOUS
  <2>2. PICK u \in Nat : u = UntilRekey
    BY <1>4, <2>1
  <2>3. n <= u
    BY <1>5, <1>6, <1>7, <2>1, <2>2
  <2>4. n * BlockSize <= u * BlockSize
    BY <2>3, SMT
  <2>5. PICK x \in Nat, y \in Nat : x = n * BlockSize /\ y = u * BlockSize
    BY SMT
  <2>6. sinceRekey + y <= sectionSize /\ x <= y /\ sinceRekey \in Nat /\ sectionSize \in Nat
    BY <1>2, <1>4, <2>1, <2>2, <2>4, <2>5 DEF TypeOK
  <2> QED
    BY <2>5, <2>6
<1> QED
  BY <1>2, <1>3, <1>6, <1>7, <1>8, <1>9 DEF TypeOK

\* Every byte of a batch is the byte of the one-shot stream at its position.
LEMMA BulkByte ==
  ASSUME IInv, bulkXOR, NEW j \in 0..(BulkBlocks * BlockSize - 1)
  PROVE  /\ Byte(key, incCounter(iv, j \div BlockSize), j % BlockSize) = ByteAt(sectionSize, pos + j)
         /\ Byte(key, incCounter(iv, j \div BlockSize), j % BlockSize)
              \in [key : Nat, ctr : 0..(CtrMod - 1), off : 0..(BlockSize - 1)]
<1> USE Params DEF ParamFacts
<1>0. AtBoundary
  BY DEF bulkXOR
<1>1. TypeOK /\ SectionInv
  BY <1>0, AtBoundaryFacts
<1>2. PICK q \in Nat : pos = q * BlockSize /\ iv = (IV0 + q) % CtrMod
  BY <1>0, AtBoundaryFacts
<1>3. /\ BulkBlocks * BlockSize \in Nat
      /\ sectionSize > 0 => sinceRekey + BulkBlocks * BlockSize <= sectionSize
  BY BulkBlocksFacts
<1>4. PICK a \in Nat, o \in 0..(BlockSize - 1) :
        j = a * BlockSize + o /\ a = j \div BlockSize /\ o = j % BlockSize
  <2>1. j \in Nat
    BY <1>3
  <2> QED
    BY <2>1, DivModBasic
<1>5. PICK b \in Nat, p \in Nat : b = q + a /\ p = pos + j
  BY <1>1, <1>3 DEF TypeOK
<1>6. p = b * BlockSize + o
  <2>1. b * BlockSize = q * BlockSize + a * BlockSize
    BY <1>5, SMT
  <2> QED
    BY <1>2, <1>4, <1>5, <2>1
<1>7. incCounter(iv, a) = (IV0 + b) % CtrMod
  BY <1>2, <1>5, IncCounterIs
<1>8. sectionSize = 0 => key = 0
  BY <1>1 DEF SectionInv
<1>9. sectionSize > 0 => \E r \in 0..(sectionSize - 1) : p = key * sectionSize + r
  <2>1. SUFFICES ASSUME sectionSize > 0
                 PROVE  \E r \in 0..(sectionSize - 1) : p = key * sectionSize + r
    OBVIOUS
  <2>2. sinceRekey + j \in 0..(sectionSize - 1)
    BY <1>1, <1>3, <2>1 DEF TypeOK
  <2>3. p = key * sectionSize + (sinceRekey + j)
    BY <1>1, <1>5, <2>1 DEF SectionInv, TypeOK
  <2> QED
    BY <2>2, <2>3
<1>10. key \in Nat /\ sectionSize \in Nat /\ iv \in Nat
  BY <1>1 DEF TypeOK
<1>11. ByteAt(sectionSize, p) = Byte(key, (IV0 + b) % CtrMod, o)
  BY <1>6, <1>8, <1>9, <1>10, ByteAtIs
<1>12. incCounter(iv, a) \in 0..(CtrMod - 1)
  BY <1>10, IncCounterType
<1> QED
  BY <1>4, <1>5, <1>7, <1>10, <1>11, <1>12, ByteType

\* A batch leaves the stream as the byte loop would have left it.
LEMMA BulkIInv == ASSUME IInv, bulkXOR PROVE IInv'
<1> USE Params DEF ParamFacts
<1>0. AtBoundary
  BY DEF bulkXOR
<1>1. /\ TypeOK /\ StreamIsOneShot /\ SectionInv
      /\ st = "busy" /\ num = BlockSize
  BY <1>0, AtBoundaryFacts
<1>2. PICK n \in Nat, l \in Nat : n = BulkBlocks /\ l = BulkBlocks * BlockSize /\ l = n * BlockSize
  BY BulkBlocksFacts
<1>3. /\ l <= todo
      /\ sectionSize > 0 => sinceRekey + l <= sectionSize
  BY <1>2, BulkBlocksFacts
<1>4. /\ pos' = pos + l /\ sinceRekey' = sinceRekey + l /\ todo' = todo - l
      /\ iv' = incCounter(iv, n)
      /\ UNCHANGED <<st, factory, kind, sectionSize, key, gamma, num>>
  BY <1>2 DEF bulkXOR, params
<1>o. out' = [p \in 0..(pos + l - 1) |-> IF p < pos THEN out[p] ELSE
                   Byte(key, incCounter(iv, (p - pos) \div BlockSize), (p - pos) % BlockSize)]
  BY <1>2 DEF bulkXOR, Emitted
<1>5. ASSUME NEW p \in 0..(pos' - 1)
      PROVE  /\ out'[p] = ByteAt(sectionSize, p)
             /\ out'[p] \in [key : Nat, ctr : 0..(CtrMod - 1), off : 0..(BlockSize - 1)]
  <2>1. CASE p < pos
    BY <1>1, <1>4, <1>o, <2>1 DEF StreamIsOneShot, TypeOK
  <2>2. CASE p >= pos
    <3>1. PICK j \in 0..(BulkBlocks * BlockSize - 1) : j = p - pos /\ p = pos + j
      BY <1>1, <1>2, <1>4, <2>2 DEF TypeOK
    <3>2. out'[p] = Byte(key, incCounter(iv, j \div BlockSize), j % BlockSize)
      BY <1>1, <1>4, <1>o, <2>2, <3>1 DEF TypeOK
    <3> QED
      BY <3>1, <3>2, BulkByte
  <2> QED
    BY <1>1, <1>4, <2>1, <2>2 DEF TypeOK
<1>6. TypeOK'
  <2>1. out' \in [0..(pos' - 1) -> [key : Nat, ctr : 0..(CtrMod - 1), off : 0..(BlockSize - 1)]]
    <3>1. out' = [p \in 0..(pos + l - 1) |-> out'[p]]
      BY <1>o
    <3>2. pos' = pos + l
      BY <1>4
    <3>3. 0..(pos + l - 1) = 0..(pos' - 1)
      BY <1>1, <3>2, SMT DEF TypeOK
    <3>4. \A p \in 0..(pos + l - 1) :
            out'[p] \in [key : Nat, ctr : 0..(CtrMod - 1), off : 0..(BlockSize - 1)]
      BY <1>5, <3>3, Zenon
    <3>5. out' \in [0..(pos + l - 1) -> [key : Nat, ctr : 0..(CtrMod - 1), off : 0..(BlockSize - 1)]]
      BY <3>1, <3>4, Zenon
    <3> QED
      BY <3>3, <3>5, Zenon
  <2>2. iv' \in 0..(CtrMod - 1)
    <3>1. iv \in Nat
      BY <1>1 DEF TypeOK
    <3> QED
      BY <1>2, <1>4, <3>1, IncCounterType
  <2>3. pos' \in Nat /\ sinceRekey' \in Nat /\ todo' \in Nat
    BY <1>1, <1>3, <1>4 DEF TypeOK
  <2>4. UNCHANGED <<st, factory, kind, sectionSize, key, gamma, num>>
    BY <1>4
  <2> QED
    BY <1>1, <2>1, <2>2, <2>3, <2>4 DEF TypeOK
<1>7. StreamIsOneShot'
  BY <1>4, <1>5 DEF StreamIsOneShot, ByteAt, Byte
<1>8. PICK q \in Nat : pos = q * BlockSize /\ iv = (IV0 + q) % CtrMod
  BY <1>0, AtBoundaryFacts
<1>9. PICK r \in Nat : sinceRekey = r * BlockSize
  BY <1>0, AtBoundaryFacts
<1>10. PICK b \in Nat, c \in Nat : b = q + n /\ c = r + n
  OBVIOUS
<1>11. pos' = b * BlockSize /\ sinceRekey' = c * BlockSize
  <2>1. b * BlockSize = q * BlockSize + n * BlockSize /\ c * BlockSize = r * BlockSize + n * BlockSize
    BY <1>10, SMT
  <2> QED
    BY <1>2, <1>4, <1>8, <1>9, <2>1
<1>12. /\ pos' \in Nat /\ sinceRekey' \in Nat /\ num' = BlockSize
       /\ pos' + BlockSize - num' = pos' /\ sinceRekey' + BlockSize - num' = sinceRekey'
  BY <1>1, <1>4 DEF TypeOK
<1>13. pos' \div BlockSize = b
  <2>1. pos' = b * BlockSize + 0 /\ 0 \in 0..(BlockSize - 1)
    BY <1>11
  <2> QED
    BY <1>12, <2>1, DivModIs
<1>14. Aligned'
  <2>1. pos' % BlockSize = 0 /\ sinceRekey' % BlockSize = 0
    BY <1>11, <1>12, MultipleIff
  <2>2. sectionSize' % BlockSize = 0
    <3>1. sectionSize \in Nat /\ \E m \in Nat : sectionSize = m * BlockSize
      BY <1>0, <1>1, AtBoundaryFacts DEF TypeOK
    <3> QED
      BY <1>4, <3>1, MultipleIff
  <2> QED
    BY <1>12, <2>1, <2>2 DEF Aligned, Whole
<1>15. CounterInv'
  <2>1. iv' = (IV0 + b) % CtrMod
    BY <1>4, <1>8, <1>10, IncCounterIs
  <2>2. (pos' + BlockSize - num') \div BlockSize = b
    BY <1>12, <1>13, Zenon
  <2>3. ~(num' < BlockSize)
    BY <1>12
  <2> QED
    BY <2>1, <2>2, <2>3 DEF CounterInv
<1>16. SectionInv'
  <2>1. CASE sectionSize > 0
    <3>1. PICK x \in Nat : x = key * sectionSize
      BY <1>1 DEF TypeOK
    <3>2. pos = x + sinceRekey /\ factory
      BY <1>1, <2>1, <3>1 DEF SectionInv
    <3>3. pos' = x + sinceRekey' /\ sinceRekey' <= sectionSize /\ ~(num' < BlockSize)
      BY <1>1, <1>3, <1>4, <2>1, <3>2 DEF TypeOK
    <3> QED
      BY <1>4, <2>1, <3>1, <3>2, <3>3 DEF SectionInv
  <2>2. CASE sectionSize = 0
    BY <1>1, <1>4, <2>2 DEF SectionInv
  <2> QED
    BY <1>1, <2>1, <2>2 DEF TypeOK
<1> QED
  BY <1>1, <1>4, <1>6, <1>7, <1>14, <1>15, <1>16 DEF IInv

-----------------------------------------------------------------------------
\* Every step of the stream preserves the invariant.
LEMMA NextIInv == IInv /\ [Next]_vars => IInv'
<1> SUFFICES ASSUME IInv, [Next]_vars PROVE IInv'
  OBVIOUS
<1>1. ASSUME NEW k \in Kinds, NEW l \in IvLens, NewCTR(k, l) PROVE IInv'
  <2>1. CASE l = BlockSize
    <3>1. 0 % BlockSize = 0 /\ 0 \in Nat /\ (0 > 0 => FALSE)
      BY Params DEF ParamFacts
    <3>2. st = "new" /\ MakeStream(k, 0, FALSE)
      BY <1>1, <2>1 DEF NewCTR
    <3> QED
      BY <3>1, <3>2, ConstructIInv, Zenon
  <2>2. CASE l # BlockSize
    BY <1>1, <2>2, IdleIInv DEF NewCTR, Panic, IInv, TypeOK
  <2> QED
    BY <2>1, <2>2
<1>2. ASSUME NEW k \in Kinds, NEW kl \in KeyLens, NEW l \in IvLens, NEW s \in Sections,
             NewCTRACPKM(k, kl, l, s)
      PROVE  IInv'
  <2>1. CASE ValidACPKM(kl, l, s)
    <3>1. s \in Nat /\ s % BlockSize = 0
      BY <2>1, Params DEF ParamFacts, ValidACPKM
    <3> QED
      BY <1>2, <2>1, <3>1, ConstructIInv DEF NewCTRACPKM
  <2>2. CASE ~ValidACPKM(kl, l, s)
    BY <1>2, <2>2, IdleIInv DEF NewCTRACPKM, Panic, IInv, TypeOK
  <2> QED
    BY <2>1, <2>2
<1>3. ASSUME NEW n \in CallLens, XORKeyStream(n) PROVE IInv'
  <2>1. n \in Nat
    BY Params DEF ParamFacts
  <2> QED
    BY <1>3, <2>1, IdleIInv DEF XORKeyStream
<1>4. CASE UNCHANGED vars
  BY <1>4, IdleIInv DEF vars, params, IInv, TypeOK
<1>5. CASE XORKeyStreamPanics
  BY <1>4, <1>5 DEF XORKeyStreamPanics
<1>6. CASE rekeyACPKM
  BY <1>6, RekeyIInv
<1>7. CASE bulkXOR
  BY <1>7, BulkIInv
<1>8. CASE NextGamma
  BY <1>8, NextGammaIInv
<1>9. CASE XORByte
  BY <1>9, XORByteIInv
<1>10. CASE Return
  BY <1>10, IdleIInv DEF Return, IInv, TypeOK
<1> QED
  BY <1>1, <1>2, <1>3, <1>4, <1>5, <1>6, <1>7, <1>8, <1>9, <1>10 DEF Next, Loop

\* The inductive invariant holds in every reachable state, for every block
\* size, counter width, section size and batch bound.
THEOREM InductiveInvariant == Spec => []IInv
<1> QED
  BY InitIInv, NextIInv, PTL DEF Spec

\* Types and ranges of the CTR struct (ctracpkm.go:93-106) in every state: num
\* never passes the block, the counter never leaves its width.
THEOREM TypeCorrectness == Spec => []TypeOK
<1>1. IInv => TypeOK
  BY DEF IInv
<1> QED
  BY <1>1, InductiveInvariant, PTL

\* Split and batch independence of XORKeyStream (ctracpkm.go:202): the bytes
\* emitted are a prefix of the stream that ByteAt defines without any state.
THEOREM OneShot == Spec => []StreamIsOneShot
<1>1. IInv => StreamIsOneShot
  BY DEF IInv
<1> QED
  BY <1>1, InductiveInvariant, PTL

\* Two positions with the same keystream byte are whole counter periods apart.
LEMMA EqualBytesApart ==
  ASSUME NEW s \in Nat, NEW p \in Nat, NEW q \in Nat, p < q, ByteAt(s, p) = ByteAt(s, q)
  PROVE  q - p >= CtrMod * BlockSize
<1> USE Params DEF ParamFacts
<1>1. PICK a \in Nat, o \in 0..(BlockSize - 1) :
        p = a * BlockSize + o /\ a = p \div BlockSize /\ o = p % BlockSize
  BY DivModBasic
<1>2. PICK b \in Nat, t \in 0..(BlockSize - 1) :
        q = b * BlockSize + t /\ b = q \div BlockSize /\ t = q % BlockSize
  BY DivModBasic
<1>3. o = t /\ (IV0 + a) % CtrMod = (IV0 + b) % CtrMod
  BY <1>1, <1>2 DEF ByteAt, Byte
<1>4. PICK u \in Nat, v \in Nat, r \in 0..(CtrMod - 1) :
        IV0 + a = u * CtrMod + r /\ IV0 + b = v * CtrMod + r
  <2>1. PICK x \in Nat, y \in Nat : x = IV0 + a /\ y = IV0 + b
    OBVIOUS
  <2>2. x = (x \div CtrMod) * CtrMod + (x % CtrMod) /\ x \div CtrMod \in Nat /\ x % CtrMod \in 0..(CtrMod - 1)
    BY DivModBasic
  <2>3. y = (y \div CtrMod) * CtrMod + (y % CtrMod) /\ y \div CtrMod \in Nat
    BY DivModBasic
  <2> QED
    BY <1>3, <2>1, <2>2, <2>3
<1>5. a * BlockSize < b * BlockSize
  <2>1. PICK x \in Nat, y \in Nat : x = a * BlockSize /\ y = b * BlockSize
    BY SMT
  <2> QED
    BY <1>1, <1>2, <1>3, <2>1
<1>6. a < b
  <2>1. ASSUME b <= a PROVE FALSE
    <3>1. b * BlockSize <= a * BlockSize
      BY <2>1, SMT
    <3> QED
      BY <1>5, <3>1, SMT
  <2> QED
    BY <2>1
<1>7. u * CtrMod < v * CtrMod
  <2>1. PICK x \in Nat, y \in Nat : x = u * CtrMod /\ y = v * CtrMod
    BY SMT
  <2> QED
    BY <1>4, <1>6, <2>1
<1>8. b - a >= CtrMod
  <2>1. u * CtrMod + CtrMod <= v * CtrMod
    BY <1>7, MultipleGap
  <2>2. PICK x \in Nat, y \in Nat : x = u * CtrMod /\ y = v * CtrMod
    BY SMT
  <2> QED
    BY <1>4, <2>1, <2>2
<1>9. PICK d \in Nat : d = b - a /\ d >= CtrMod
  BY <1>6, <1>8
<1>10. q - p = d * BlockSize
  <2>1. d * BlockSize = b * BlockSize - a * BlockSize
    BY <1>9, SMT
  <2>2. PICK x \in Nat, y \in Nat, z \in Nat :
          x = a * BlockSize /\ y = b * BlockSize /\ z = d * BlockSize
    BY SMT
  <2>3. p = x + o /\ q = y + t /\ z = y - x
    BY <1>1, <1>2, <2>1, <2>2
  <2> QED
    BY <1>3, <2>2, <2>3
<1>11. d * BlockSize >= CtrMod * BlockSize
  BY <1>9, SMT
<1> QED
  BY <1>10, <1>11, SMT

\* Two positions of one section are less than a section apart.
LEMMA SameSectionNear ==
  ASSUME NEW s \in Nat \ {0}, NEW p \in Nat, NEW q \in Nat, p \div s = q \div s
  PROVE  q - p < s
<1>1. PICK k \in Nat, r \in 0..(s - 1) : p = k * s + r /\ k = p \div s
  BY DivModBasic
<1>2. PICK l \in Nat, t \in 0..(s - 1) : q = l * s + t /\ l = q \div s
  BY DivModBasic
<1>3. PICK x \in Nat : x = k * s /\ x = l * s
  BY <1>1, <1>2
<1> QED
  BY <1>1, <1>2, <1>3

\* No keystream byte is used twice: rekeyACPKM (ctracpkm.go:311) changes the
\* key before the running counter can repeat under it.
THEOREM NeverReused == Spec => []NoReuse
<1>1. IInv => NoReuse
  <2> USE Params DEF ParamFacts
  <2>1. SUFFICES ASSUME IInv, NEW q \in 0..(pos - 1), NEW p \in 0..(q - 1), out[p] = out[q],
                        \/ q - p < CtrMod * BlockSize
                        \/ sectionSize > 0 /\ sectionSize <= CtrMod * BlockSize
                 PROVE  FALSE
    BY DEF NoReuse
  <2>2. TypeOK /\ pos \in Nat /\ sectionSize \in Nat
    BY <2>1 DEF IInv, TypeOK
  <2>3. p \in Nat /\ q \in Nat /\ p < q /\ p \in 0..(pos - 1)
    BY <2>2
  <2>4. ByteAt(sectionSize, p) = ByteAt(sectionSize, q)
    BY <2>1, <2>3 DEF IInv, StreamIsOneShot
  <2>5. q - p >= CtrMod * BlockSize
    BY <2>2, <2>3, <2>4, EqualBytesApart
  <2>6. PICK c \in Nat : c = CtrMod * BlockSize
    BY SMT
  <2>7. sectionSize > 0 /\ sectionSize <= c
    BY <2>1, <2>3, <2>5, <2>6
  <2>8. p \div sectionSize = q \div sectionSize
    BY <2>4, <2>7 DEF ByteAt, Byte
  <2>9. sectionSize \in Nat \ {0}
    BY <2>2, <2>7
  <2>10. q - p < sectionSize
    BY <2>3, <2>8, <2>9, SameSectionNear
  <2> QED
    BY <2>2, <2>3, <2>5, <2>6, <2>7, <2>10
<1> QED
  BY <1>1, InductiveInvariant, PTL

-----------------------------------------------------------------------------
\* XORKeyStream implements cipher.Stream as KeyStream states it: every step of
\* the loop, byte or batch, appends the next bytes of the one stream, and all
\* else (calls, panics, re-keying, gamma refills) is invisible.
THEOREM Refinement == Spec => RefinesKeyStream
<1>1. Init => Abstract!Init
  BY DEF Init, Abstract!Init
<1>2. IInv /\ IInv' /\ [Next]_vars => [Abstract!Next]_(Abstract!vars)
  <2> SUFFICES ASSUME IInv, IInv', [Next]_vars PROVE [Abstract!Next]_(Abstract!vars)
    OBVIOUS
  <2> USE Params DEF ParamFacts
  <2>t. /\ pos \in Nat /\ sectionSize \in Nat /\ pos' \in Nat
        /\ sectionSize # -1
    BY DEF IInv, TypeOK
  <2>1. ASSUME NEW s \in Nat, NEW k \in Kinds, NEW f \in BOOLEAN, st = "new", MakeStream(k, s, f)
        PROVE  Abstract!Next
    BY <2>1 DEF MakeStream, Abstract!Next, Abstract!Open
  <2>2. ASSUME UNCHANGED <<sectionSize, pos, out>>,
               (st \in {"new", "panic"}) <=> (st' \in {"new", "panic"})
        PROVE  UNCHANGED Abstract!vars
    BY <2>2 DEF Abstract!vars
  <2>3. ASSUME st = "busy", st' = "busy", pos' > pos, sectionSize' = sectionSize
        PROVE  Abstract!Next
    <3>1. out' = [p \in 0..(pos' - 1) |-> ByteAt(sectionSize, p)]
      <4>1. out' \in [0..(pos' - 1) -> [key : Nat, ctr : 0..(CtrMod - 1), off : 0..(BlockSize - 1)]]
        BY DEF IInv, TypeOK
      <4>2. \A p \in 0..(pos' - 1) : out'[p] = ByteAt(sectionSize, p)
        BY <2>3 DEF IInv, StreamIsOneShot, ByteAt, Byte
      <4> QED
        BY <4>1, <4>2
    <3> QED
      BY <2>3, <2>t, <3>1 DEF Abstract!Next, Abstract!Emit, Abstract!Prefix
  <2>4. ASSUME NEW k \in Kinds, NEW l \in IvLens, NewCTR(k, l)
        PROVE  Abstract!Next \/ UNCHANGED Abstract!vars
    <3>1. CASE l = BlockSize
      BY <2>1, <2>4, <3>1 DEF NewCTR
    <3>2. CASE l # BlockSize
      BY <2>2, <2>4, <3>2 DEF NewCTR, Panic, params
    <3> QED
      BY <3>1, <3>2
  <2>5. ASSUME NEW k \in Kinds, NEW kl \in KeyLens, NEW l \in IvLens, NEW s \in Sections,
               NewCTRACPKM(k, kl, l, s)
        PROVE  Abstract!Next \/ UNCHANGED Abstract!vars
    <3>1. CASE ValidACPKM(kl, l, s)
      <4>1. s \in Nat
        BY <3>1 DEF ValidACPKM
      <4> QED
        BY <2>1, <2>5, <3>1, <4>1 DEF NewCTRACPKM
    <3>2. CASE ~ValidACPKM(kl, l, s)
      BY <2>2, <2>5, <3>2 DEF NewCTRACPKM, Panic, params
    <3> QED
      BY <3>1, <3>2
  <2>6. ASSUME NEW n \in CallLens, XORKeyStream(n) PROVE UNCHANGED Abstract!vars
    BY <2>2, <2>6 DEF XORKeyStream, params
  <2>7. CASE UNCHANGED vars \/ XORKeyStreamPanics
    BY <2>2, <2>7 DEF vars, XORKeyStreamPanics
  <2>8. CASE rekeyACPKM \/ NextGamma \/ Return
    BY <2>2, <2>8 DEF rekeyACPKM, NextGamma, Return, AtBoundary, params
  <2>9. CASE bulkXOR
    <3>1. PICK n \in Nat \ {0} : n = BulkBlocks * BlockSize
      <4>1. BulkBlocks \in Nat \ {0} /\ BulkBlocks * BlockSize \in Nat
        BY <2>9, BulkBlocksFacts
      <4>2. PICK b \in Nat \ {0} : b = BulkBlocks
        BY <4>1
      <4>3. b * BlockSize \in Nat \ {0}
        BY SMT
      <4> QED
        BY <4>2, <4>3
    <3>2. pos' = pos + n /\ st = "busy" /\ st' = "busy" /\ sectionSize' = sectionSize
      BY <2>9, <3>1 DEF bulkXOR, AtBoundary, params
    <3>3. pos' > pos
      BY <2>t, <3>2
    <3> QED
      BY <2>3, <3>2, <3>3
  <2>10. CASE XORByte
    <3>1. pos' = pos + 1 /\ st = "busy" /\ st' = "busy" /\ sectionSize' = sectionSize
      BY <2>10 DEF XORByte, params
    <3>2. pos' > pos
      BY <2>t, <3>1
    <3> QED
      BY <2>3, <3>1, <3>2
  <2> QED
    BY <2>4, <2>5, <2>6, <2>7, <2>8, <2>9, <2>10 DEF Next, Loop
<1> QED
  BY <1>1, <1>2, InitIInv, NextIInv, InductiveInvariant, PTL DEF Spec, Abstract!Spec, RefinesKeyStream

=============================================================================
