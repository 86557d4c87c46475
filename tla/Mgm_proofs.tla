----------------------------- MODULE Mgm_proofs -----------------------------
(***************************************************************************)
(* Proofs about MgmLengths and Mgm for every block size, width of a byte,  *)
(* of a word and of int, and for all nonces and messages.                  *)
(***************************************************************************)
EXTENDS Mgm, NaturalLemmas, SequenceTheorems

-----------------------------------------------------------------------------
(* Powers of two *)

Exps == 0..WordBits

\* Powers of two as far as the word width reaches are positive.
LEMMA PowerType ==
  ASSUME NEW n \in Exps
  PROVE  2^n \in Nat \ {0}
  BY PowerAssumption DEF Exps

\* 2^(m + n) = 2^m * 2^n.
LEMMA PowerSum ==
  ASSUME NEW m \in Exps, NEW n \in Exps, m + n \in Exps
  PROVE  2^(m + n) = 2^m * 2^n
<1> DEFINE good == {k \in 0..n : 2^(m + k) = 2^m * 2^k}
<1>1. 0 \in good
  <2>1. 2^0 = 1 /\ m + 0 = m /\ 2^m \in Nat
    BY PowerType DEF Exps
  <2>2. 2^(m + 0) = 2^m * 2^0
    BY <2>1
  <2> QED
    BY <2>2 DEF Exps
<1>2. ASSUME NEW k \in 0..(n - 1), k \in good PROVE k + 1 \in good
  <2>1. k \in Exps /\ m + k \in Exps /\ (m + k) + 1 = m + (k + 1)
    BY LengthAssumption DEF Exps
  <2>2. 2^((m + k) + 1) = 2 * 2^(m + k) /\ 2^(k + 1) = 2 * 2^k
    BY <2>1, PowerAssumption DEF Exps
  <2>3. PICK x \in Nat, y \in Nat : x = 2^m /\ y = 2^k
    BY <2>1, PowerType
  <2>4. 2 * (x * y) = x * (2 * y)
    BY <2>3
  <2>5. 2^(m + (k + 1)) = 2^m * 2^(k + 1)
    BY <1>2, <2>1, <2>2, <2>3, <2>4
  <2> QED
    BY <2>1, <2>5 DEF Exps
<1>3. n \in Nat
  BY DEF Exps
<1>4. 0..n \subseteq good
  <2> HIDE DEF good
  <2> QED
    BY <1>1, <1>2, <1>3, InductionUpTo
<1> QED
  BY <1>3, <1>4

\* Powers of two grow.
LEMMA PowerMono ==
  ASSUME NEW m \in Exps, NEW n \in Exps, m <= n
  PROVE  2^m <= 2^n
<1>1. n - m \in Exps /\ m + (n - m) = n
  BY LengthAssumption DEF Exps
<1>2. 2^n = 2^m * 2^(n - m)
  BY <1>1, PowerSum
<1>3. PICK x \in Nat \ {0}, y \in Nat \ {0} : x = 2^m /\ y = 2^(n - m)
  BY <1>1, PowerType
<1>4. x <= x * y
  BY <1>3
<1> QED
  BY <1>2, <1>3, <1>4

-----------------------------------------------------------------------------
(* The length limits *)

\* A value below the modulus is its own remainder.
LEMMA SmallMod ==
  ASSUME NEW m \in Nat \ {0}, NEW x \in Nat, x < m
  PROVE  x % m = x /\ x \div m = 0
<1>1. x = 0 * m + x /\ x \in 0..(m - 1)
  OBVIOUS
<1> QED
  BY <1>1, DivModIs

\* The wrapping guards of mgm.go:218-254 admit exactly the lengths of the RFC.
LEMMA LimitExact ==
  ASSUME NEW half \in ShiftAdj..WordBits, NEW uint \in 2..WordBits,
         NEW a \in Lengths(uint), NEW p \in Lengths(uint)
  PROVE  ValidLens(half, uint, a, p) <=> RFCLens(half, a, p)
<1>1. half \in Exps /\ half - ShiftAdj \in Exps /\ ShiftAdj \in Exps /\ uint - 1 \in Exps /\ WordBits \in Exps
  BY LengthAssumption DEF Exps
<1>2. PICK E \in Nat \ {0}, S \in Nat \ {0}, H \in Nat \ {0}, W \in Nat \ {0}, U \in Nat \ {0} :
        /\ E = BitsPerByte /\ S = 2^(half - ShiftAdj) /\ H = 2^half /\ W = 2^WordBits /\ U = 2^(uint - 1)
  BY <1>1, PowerType, LengthAssumption
<1>3. H = S * E
  <2>1. (half - ShiftAdj) + ShiftAdj = half
    BY LengthAssumption
  <2> QED
    BY <1>1, <1>2, <2>1, PowerSum, LengthAssumption
<1>4. H <= W /\ (half < WordBits => 2 * H <= W)
  <2>1. H <= W
    BY <1>1, <1>2, PowerMono DEF Exps
  <2>2. ASSUME half < WordBits PROVE 2 * H <= W
    <3>1. half + 1 \in Exps /\ half + 1 <= WordBits
      BY <1>1, <2>2 DEF Exps
    <3>2. 2^(half + 1) = 2 * H
      BY <1>1, <1>2, PowerAssumption DEF Exps
    <3> QED
      BY <1>1, <1>2, <3>1, <3>2, PowerMono
  <2> QED
    BY <2>1, <2>2
<1>5. a \in Nat /\ p \in Nat /\ a < U /\ p < U
  BY <1>2 DEF Lengths
<1>6. (p <= maxFieldLen(half, uint) /\ a <= maxFieldLen(half, uint)) <=> (p < S /\ a < S)
  <2>1. CASE half - ShiftAdj >= uint - 1
    <3>1. U <= S
      BY <1>1, <1>2, <2>1, PowerMono
    <3> QED
      BY <1>2, <1>5, <2>1, <3>1 DEF maxFieldLen
  <2>2. CASE ~(half - ShiftAdj >= uint - 1)
    BY <1>2, <1>5, <2>2 DEF maxFieldLen
  <2> QED
    BY <2>1, <2>2
<1>7. PICK x \in Nat, y \in Nat : x = a * E /\ y = p * E /\ (a + p) * E = x + y
  BY <1>5
<1>8. (a < S <=> x < H) /\ (p < S <=> y < H)
  <2>1. ASSUME NEW l \in Nat PROVE l < S <=> l * E < S * E
    <3>1. l < S => l * E < S * E
      OBVIOUS
    <3>2. l >= S => l * E >= S * E
      OBVIOUS
    <3> QED
      BY <3>1, <3>2
  <2> QED
    BY <1>3, <1>5, <1>7, <2>1
<1>9. ASSUME x < H, y < H PROVE validateLens(half, a, p) <=> x + y < H
  <2>1. word(a * BitsPerByte) = x /\ word(p * BitsPerByte) = y
    BY <1>2, <1>4, <1>7, <1>9, SmallMod DEF word
  <2>2. validateLens(half, a, p) <=> /\ x <= (x + y) % W
                                     /\ half < WordBits => (x + y) % W < H
    BY <1>2, <2>1 DEF validateLens, word
  <2>3. CASE x + y < W
    <3>1. (x + y) % W = x + y
      BY <2>3, SmallMod
    <3>2. half < WordBits \/ H = W
      BY <1>2, LengthAssumption
    <3> QED
      BY <2>2, <2>3, <3>1, <3>2
  <2>4. CASE x + y >= W
    <3>1. ~(half < WordBits)
      BY <1>4, <1>9, <2>4
    <3>2. H = W
      BY <1>2, <3>1, LengthAssumption
    <3>3. PICK z \in Nat, r \in 0..(W - 1) : z = x + y /\ r = x + y - W /\ z = 1 * W + r
      BY <1>9, <2>4, <3>2
    <3>4. z % W = r
      <4>1. 1 \in Nat /\ z = 1 * W + r
        BY <3>3
      <4> QED
        BY ONLY z \in Nat, W \in Nat \ {0}, r \in 0..(W - 1), <4>1, DivModIs
    <3> QED
      BY <1>9, <2>2, <3>2, <3>3, <3>4
  <2> QED
    BY <2>3, <2>4
<1>10. RFCLens(half, a, p) <=> a + p > 0 /\ x + y < H
  BY <1>2, <1>7 DEF RFCLens
<1>11. ValidLens(half, uint, a, p) <=> a + p > 0 /\ x < H /\ y < H /\ validateLens(half, a, p)
  BY <1>5, <1>6, <1>8 DEF ValidLens
<1> QED
  BY <1>9, <1>10, <1>11

\* The length guards are those of RFC 9058 on every platform: 8 and 16 byte
\* blocks, 32 and 64 bit ints (mgm.go:218-254).
THEOREM LimitsAreRFC == Spec => []LimitIsRFC
<1>1. LimitIsRFC
  BY LimitExact DEF LimitIsRFC
<1> QED
  BY <1>1, PTL

-----------------------------------------------------------------------------
(* The parameters of Mgm *)

HalfBlock == BlockSize \div 2

ParamFacts ==
  /\ BlockSize \in Nat \ {0} /\ HalfBlock \in Nat \ {0} /\ BlockSize = 2 * HalfBlock
  /\ BitsPerByte \in Nat \ {0} /\ HalfBits = BitsPerByte * HalfBlock
  /\ HalfBits \in ShiftAdj..WordBits /\ HalfBits \in Exps /\ WordBits \in Exps
  /\ UintBits \in 2..WordBits /\ CtrMod \in Nat \ {0} /\ CtrMod = 2^HalfBits

\* 2^n > n.
LEMMA PowerAbove ==
  ASSUME NEW n \in Exps
  PROVE  2^n > n
<1> DEFINE good == {k \in 0..n : 2^k > k}
<1>1. 0 \in good
  <2>1. 2^0 = 1
    OBVIOUS
  <2>2. 2^0 > 0
    BY <2>1
  <2> QED
    BY <2>2 DEF Exps
<1>2. ASSUME NEW k \in 0..(n - 1), k \in good PROVE k + 1 \in good
  <2>1. k \in Exps /\ k + 1 \in 0..n
    BY LengthAssumption DEF Exps
  <2>2. 2^(k + 1) = 2 * 2^k /\ 2^k \in Nat /\ 2^k > k
    BY <1>2, <2>1, PowerAssumption DEF Exps
  <2>3. 2^(k + 1) > k + 1
    BY <2>2
  <2> QED
    BY <2>1, <2>3
<1>3. n \in Nat
  BY DEF Exps
<1>4. 0..n \subseteq good
  <2> HIDE DEF good
  <2> QED
    BY <1>1, <1>2, <1>3, InductionUpTo
<1> QED
  BY <1>3, <1>4

\* The assumptions on the parameters: half a block is a whole number of bytes
\* and a length field is wider than the shift from bytes to bits.
LEMMA Params == ParamFacts
<1>1. BlockSize \in Nat \ {0} /\ BlockSize % 2 = 0 /\ WordBits >= HalfBits /\ UintBits \in 2..WordBits
  BY MgmAssumption
<1>2. ShiftAdj \in Exps /\ WordBits \in Exps /\ BitsPerByte = 2^ShiftAdj /\ ShiftAdj \in Nat /\ WordBits \in Nat
  BY LengthAssumption DEF Exps
<1>3. BitsPerByte \in Nat \ {0} /\ BitsPerByte > ShiftAdj
  BY <1>2, PowerType, PowerAbove
<1>4. HalfBlock \in Nat /\ BlockSize = HalfBlock * 2
  BY <1>1, DivModBasic DEF HalfBlock
<1>5. HalfBlock \in Nat \ {0}
  BY <1>1, <1>4
<1>6. HalfBits = BitsPerByte * HalfBlock
  <2>1. PICK q \in Nat : q = BitsPerByte * HalfBlock
    BY <1>3, <1>4
  <2>2. BlockSize * BitsPerByte = q * 2 + 0 /\ BlockSize * BitsPerByte \in Nat
    BY <1>3, <1>4, <2>1
  <2>3. (BlockSize * BitsPerByte) \div 2 = q
    BY <2>2, DivModIs
  <2> QED
    BY <2>1, <2>3 DEF HalfBits
<1>7. BitsPerByte * HalfBlock >= BitsPerByte /\ BitsPerByte * HalfBlock \in Nat
  BY <1>3, <1>5
<1>8. HalfBits \in ShiftAdj..WordBits /\ HalfBits \in Exps
  BY <1>1, <1>2, <1>3, <1>6, <1>7 DEF Exps
<1>9. CtrMod \in Nat \ {0} /\ CtrMod = 2^HalfBits
  BY <1>8, PowerType DEF CtrMod
<1> QED
  BY <1>1, <1>2, <1>3, <1>4, <1>5, <1>6, <1>8, <1>9 DEF ParamFacts

\* What passes the guards: fewer bits, hence fewer blocks, than a counter counts.
LEMMA ValidSmall ==
  ASSUME NEW a \in Nat, NEW p \in Nat, ValidLengths(a, p)
  PROVE  /\ a + p > 0 /\ a + p < CtrMod
         /\ a * BitsPerByte < CtrMod /\ p * BitsPerByte < CtrMod
<1> USE Params DEF ParamFacts
<1>1. a \in Lengths(UintBits) /\ p \in Lengths(UintBits)
  <2>1. a <= maxFieldLen(HalfBits, UintBits) /\ p <= maxFieldLen(HalfBits, UintBits)
    BY DEF ValidLengths, ValidLens
  <2>2. UintBits - 1 \in Exps /\ ShiftAdj \in Nat
    BY LengthAssumption DEF Exps
  <2>3. CASE HalfBits - ShiftAdj >= UintBits - 1
    BY <2>1, <2>2, <2>3, PowerType DEF maxFieldLen, Lengths
  <2>4. CASE ~(HalfBits - ShiftAdj >= UintBits - 1)
    <3>1. HalfBits - ShiftAdj \in Exps /\ HalfBits - ShiftAdj <= UintBits - 1
      BY <2>2, <2>4 DEF Exps
    <3>2. 2^(HalfBits - ShiftAdj) <= 2^(UintBits - 1)
      BY <2>2, <3>1, PowerMono
    <3>3. 2^(HalfBits - ShiftAdj) \in Nat /\ 2^(UintBits - 1) \in Nat
      BY <2>2, <3>1, PowerType
    <3> QED
      BY <2>1, <2>4, <3>2, <3>3 DEF maxFieldLen, Lengths
  <2> QED
    BY <2>3, <2>4
<1>2. a + p > 0 /\ (a + p) * BitsPerByte < CtrMod
  BY <1>1, LimitExact DEF ValidLengths, RFCLens
<1>3. PICK x \in Nat, y \in Nat :
        /\ x = a * BitsPerByte /\ y = p * BitsPerByte /\ (a + p) * BitsPerByte = x + y
        /\ a <= x /\ p <= y
  OBVIOUS
<1> QED
  BY <1>2, <1>3

-----------------------------------------------------------------------------
(* Blocks *)

\* k whole blocks and a last one of r bytes.
LEMMA BlocksIs ==
  ASSUME NEW k \in Nat, NEW r \in 1..BlockSize
  PROVE  BlocksOf(k * BlockSize + r) = k + 1 /\ BlocksOf(k * BlockSize) = k
<1> USE Params DEF ParamFacts
<1>1. PICK x \in Nat : x = k * BlockSize /\ (k + 1) * BlockSize = x + BlockSize
  OBVIOUS
<1>2. BlocksOf(x + r) = k + 1
  <2>1. PICK z \in Nat, q \in Nat, t \in 0..(BlockSize - 1) :
          z = x + r + BlockSize - 1 /\ q = k + 1 /\ t = r - 1
    BY <1>1
  <2>2. z = q * BlockSize + t
    BY <1>1, <2>1
  <2>3. z \div BlockSize = q
    BY <2>2, DivModIs
  <2> QED
    BY <2>1, <2>3 DEF BlocksOf
<1>3. BlocksOf(x) = k
  <2>1. x + BlockSize - 1 = k * BlockSize + (BlockSize - 1)
    BY <1>1
  <2>2. x + BlockSize - 1 \in Nat /\ BlockSize - 1 \in 0..(BlockSize - 1)
    BY <1>1
  <2> QED
    BY <2>1, <2>2, DivModIs DEF BlocksOf
<1> QED
  BY <1>1, <1>2, <1>3

\* The blocks of l bytes hold them all, the last one at least one of them.
LEMMA BlocksBound ==
  ASSUME NEW l \in Nat
  PROVE  /\ BlocksOf(l) \in Nat /\ BlocksOf(l) <= l
         /\ l <= BlocksOf(l) * BlockSize /\ BlocksOf(l) * BlockSize < l + BlockSize
<1> USE Params DEF ParamFacts
<1>1. PICK z \in Nat : z = l + BlockSize - 1
  OBVIOUS
<1>2. PICK q \in Nat, r \in 0..(BlockSize - 1) :
        z = q * BlockSize + r /\ z \div BlockSize = q /\ z % BlockSize = r
  BY DivModNames
<1>3. PICK x \in Nat : x = q * BlockSize
  OBVIOUS
<1>4. l <= x /\ x < l + BlockSize
  BY <1>1, <1>2, <1>3
<1>5. q <= l
  <2>1. ASSUME q >= l + 1 PROVE FALSE
    <3>1. q * BlockSize >= (l + 1) * BlockSize
      BY <2>1
    <3>2. (l + 1) * BlockSize = l * BlockSize + BlockSize /\ l * BlockSize >= l
      OBVIOUS
    <3> QED
      BY <1>3, <1>4, <3>1, <3>2
  <2> QED
    BY <2>1
<1> QED
  BY <1>1, <1>2, <1>3, <1>4, <1>5 DEF BlocksOf

-----------------------------------------------------------------------------
(* The ciphertext *)

\* A function on 1..n is a sequence of length n.
LEMMA FcnSeq ==
  ASSUME NEW S, NEW n \in Nat, NEW f \in [1..n -> S]
  PROVE  f \in Seq(S) /\ Len(f) = n
  OBVIOUS

\* The keystream byte of position i under nonce n.
PadAt(n, i) == <<<<<<0, n[2]>>, (i - 1) \div BlockSize>>, ((i - 1) % BlockSize) + 1>>

\* A message is short enough for its keystream bytes to exist.
LEMMA PadType ==
  ASSUME NEW n \in {0} \X Rests, NEW i \in Nat \ {0}, i <= CtrMod
  PROVE  PadAt(n, i) \in Pads
<1> USE Params DEF ParamFacts
<1>1. PICK z \in Nat : z = i - 1
  OBVIOUS
<1>2. PICK q \in Nat, r \in 0..(BlockSize - 1) :
        z = q * BlockSize + r /\ z \div BlockSize = q /\ z % BlockSize = r
  BY DivModNames
<1>3. q * BlockSize >= q
  OBVIOUS
<1>4. q \in 0..(CtrMod - 1) /\ r + 1 \in 1..BlockSize
  BY <1>1, <1>2, <1>3
<1>5. <<0, n[2]>> \in {0} \X Rests
  OBVIOUS
<1> QED
  BY <1>1, <1>2, <1>4, <1>5 DEF PadAt, Pads

\* Encryption keeps the length and the type of a message.
LEMMA RefCtType ==
  ASSUME NEW n \in {0} \X Rests, NEW s \in Seq(Bytes), Len(s) < CtrMod
  PROVE  /\ RefCt(n, s) \in Seq(Bytes) /\ Len(RefCt(n, s)) = Len(s)
         /\ \A i \in 1..Len(s) : RefCt(n, s)[i] = Byte(s[i].v, Xor(s[i].ks, {PadAt(n, i)}))
<1>1. Len(s) \in Nat /\ s \in [1..Len(s) -> Bytes] /\ CtrMod \in Nat
  BY Params, LenProperties DEF ParamFacts
<1>2. RefCt(n, s) = [i \in 1..Len(s) |-> Byte(s[i].v, Xor(s[i].ks, {PadAt(n, i)}))]
  BY DEF RefCt, PadAt
<1>3. ASSUME NEW i \in 1..Len(s) PROVE Byte(s[i].v, Xor(s[i].ks, {PadAt(n, i)})) \in Bytes
  <2>1. s[i] \in Bytes /\ PadAt(n, i) \in Pads
    BY <1>1, PadType
  <2> QED
    BY <2>1 DEF Bytes, Byte, Xor
<1>4. RefCt(n, s) \in [1..Len(s) -> Bytes]
  BY <1>2, <1>3
<1> QED
  BY <1>1, <1>2, <1>4, FcnSeq

\* xoring the keystream twice gives the message back.
LEMMA RefCtTwice ==
  ASSUME NEW n \in {0} \X Rests, NEW s \in Seq(Bytes), Len(s) < CtrMod
  PROVE  RefCt(n, RefCt(n, s)) = s
<1> DEFINE c == RefCt(n, s)
           d == RefCt(n, c)
<1>1. c \in Seq(Bytes) /\ Len(c) = Len(s)
  BY RefCtType
<1>2. d \in Seq(Bytes) /\ Len(d) = Len(s)
  BY <1>1, RefCtType
<1>3. ASSUME NEW i \in 1..Len(s) PROVE d[i] = s[i]
  <2>1. s[i] \in Bytes
    BY ElementOfSeq
  <2>2. c[i] = Byte(s[i].v, Xor(s[i].ks, {PadAt(n, i)}))
    BY RefCtType
  <2>3. d[i] = Byte(c[i].v, Xor(c[i].ks, {PadAt(n, i)}))
    BY <1>1, RefCtType
  <2>4. PICK v, A : s[i] = [v |-> v, ks |-> A]
    BY <2>1 DEF Bytes
  <2>5. Xor(Xor(A, {PadAt(n, i)}), {PadAt(n, i)}) = A
    BY DEF Xor
  <2>6. c[i].v = v /\ c[i].ks = Xor(A, {PadAt(n, i)})
    BY <2>2, <2>4 DEF Byte
  <2> QED
    BY <2>3, <2>4, <2>5, <2>6 DEF Byte
<1> HIDE DEF c, d
<1>4. d = s
  BY <1>2, <1>3, SeqEqual
<1> QED
  BY <1>4 DEF c, d

-----------------------------------------------------------------------------
(* The length block *)

\* Bytes below the last ones of a field, as a power of two.
Weight(k) == 2^(BitsPerByte * k)

\* The weights of the bytes of a field: each is a byte wider than the one before.
LEMMA WeightFacts ==
  ASSUME NEW k \in 0..HalfBlock
  PROVE  /\ Weight(k) \in Nat \ {0} /\ 2^BitsPerByte \in Nat \ {0}
         /\ Weight(0) = 1 /\ Weight(HalfBlock) = CtrMod
         /\ k < HalfBlock => Weight(k + 1) = Weight(k) * 2^BitsPerByte
<1> USE Params DEF ParamFacts
<1>1. PICK x \in Nat : x = BitsPerByte * k /\ x <= BitsPerByte * HalfBlock
  OBVIOUS
<1>2. BitsPerByte * HalfBlock >= BitsPerByte
  OBVIOUS
<1>3. x \in Exps /\ BitsPerByte \in Exps
  BY <1>1, <1>2 DEF Exps
<1>4. BitsPerByte * 0 = 0 /\ 2^0 = 1
  OBVIOUS
<1>5. ASSUME k < HalfBlock PROVE Weight(k + 1) = Weight(k) * 2^BitsPerByte
  <2>1. BitsPerByte * (k + 1) = x + BitsPerByte
    BY <1>1
  <2>2. BitsPerByte * (k + 1) <= BitsPerByte * HalfBlock
    BY <1>5
  <2>3. x + BitsPerByte \in Exps
    BY <2>1, <2>2 DEF Exps
  <2> QED
    BY <1>1, <1>3, <2>1, <2>3, PowerSum DEF Weight
<1> QED
  BY <1>1, <1>3, <1>4, <1>5, PowerType DEF Weight

\* A number below 2^(n/2) is determined by its big-endian bytes.
LEMMA DigitsEqual ==
  ASSUME NEW x \in Nat, NEW y \in Nat, x < CtrMod, y < CtrMod,
         \A k \in 0..(HalfBlock - 1) :
           (x \div Weight(k)) % 2^BitsPerByte = (y \div Weight(k)) % 2^BitsPerByte
  PROVE  x = y
<1> DEFINE good == {k \in 0..HalfBlock : x % Weight(k) = y % Weight(k)}
<1>h. HalfBlock \in Nat \ {0} /\ CtrMod \in Nat \ {0}
  BY Params DEF ParamFacts
<1>1. 0 \in good
  <2>1. 0 \in 0..HalfBlock /\ Weight(0) = 1
    BY <1>h, WeightFacts
  <2>2. x % 1 \in 0..(1 - 1) /\ y % 1 \in 0..(1 - 1)
    BY DivModBasic
  <2> QED
    BY <2>1, <2>2
<1>2. ASSUME NEW k \in 0..(HalfBlock - 1), k \in good PROVE k + 1 \in good
  <2>1. k \in 0..HalfBlock /\ k < HalfBlock /\ k + 1 \in 0..HalfBlock
    BY <1>h
  <2>2. PICK P \in Nat \ {0}, D \in Nat \ {0} :
          P = Weight(k) /\ D = 2^BitsPerByte /\ Weight(k + 1) = P * D
    BY <2>1, WeightFacts
  <2>3. /\ x % (P * D) = ((x \div P) % D) * P + (x % P)
        /\ y % (P * D) = ((y \div P) % D) * P + (y % P)
    BY ModSplit
  <2> QED
    BY <1>2, <2>1, <2>2, <2>3
<1>3. 0..HalfBlock \subseteq good
  <2> HIDE DEF good
  <2> QED
    BY <1>h, <1>1, <1>2, InductionUpTo
<1>4. HalfBlock \in 0..HalfBlock /\ Weight(HalfBlock) = CtrMod
  BY <1>h, WeightFacts
<1>5. x % CtrMod = y % CtrMod
  BY <1>3, <1>4
<1>6. x % CtrMod = x /\ y % CtrMod = y
  <2> HIDE DEF good
  <2> QED
    BY <1>h, SmallMod
<1> QED
  BY <1>5, <1>6

\* The bytes of a length that passed the guards; nothing is truncated.
LEMMA LenBytesIs ==
  ASSUME NEW l \in Nat, l * BitsPerByte < CtrMod
  PROVE  /\ LenBytes(l) \in [1..HalfBlock -> Bytes]
         /\ \A k \in 0..(HalfBlock - 1) :
              LenBytes(l)[HalfBlock - k] = Byte(((l * BitsPerByte) \div Weight(k)) % 2^BitsPerByte, {})
<1> USE Params DEF ParamFacts
<1>1. PICK x \in Nat : x = l * BitsPerByte
  OBVIOUS
<1>2. CtrMod <= 2^WordBits /\ 2^WordBits \in Nat \ {0}
  BY PowerMono, PowerType DEF Exps
<1>3. LenField(HalfBits, l) = x
  <2>1. x % 2^WordBits = x
    BY <1>1, <1>2, SmallMod
  <2>2. x % CtrMod = x
    BY <1>1, SmallMod
  <2> QED
    BY <1>1, <2>1, <2>2 DEF LenField, word
<1> DEFINE B(i) == Byte((x \div Weight(HalfBlock - i)) % 2^BitsPerByte, {})
<1>4. LenBytes(l) = [i \in 1..HalfBlock |-> B(i)]
  BY <1>3 DEF LenBytes, Weight, HalfBlock
<1>5. ASSUME NEW i \in 1..HalfBlock PROVE B(i) \in Bytes
  <2>1. HalfBlock - i \in 0..HalfBlock
    OBVIOUS
  <2>2. PICK P \in Nat \ {0}, D \in Nat \ {0} : P = Weight(HalfBlock - i) /\ D = 2^BitsPerByte
    BY <2>1, WeightFacts
  <2>3. x \div P \in Nat
    BY DivModBasic
  <2>4. (x \div P) % D \in 0..(D - 1)
    BY <2>3, DivModBasic
  <2>5. (x \div P) % D \in Nat
    BY <2>4
  <2> QED
    BY <2>2, <2>5 DEF Byte, Bytes
<1>6. ASSUME NEW k \in 0..(HalfBlock - 1)
      PROVE  LenBytes(l)[HalfBlock - k] = Byte((x \div Weight(k)) % 2^BitsPerByte, {})
  <2>1. HalfBlock - k \in 1..HalfBlock /\ HalfBlock - (HalfBlock - k) = k
    OBVIOUS
  <2> QED
    BY <1>4, <2>1
<1> QED
  BY <1>1, <1>4, <1>5, <1>6

\* Equal bytes, equal lengths.
LEMMA LenBytesInjective ==
  ASSUME NEW l \in Nat, NEW m \in Nat, l * BitsPerByte < CtrMod, m * BitsPerByte < CtrMod,
         \A i \in 1..HalfBlock : LenBytes(l)[i] = LenBytes(m)[i]
  PROVE  l = m
<1> USE Params DEF ParamFacts
<1>1. PICK x \in Nat, y \in Nat : x = l * BitsPerByte /\ y = m * BitsPerByte
  OBVIOUS
<1>2. ASSUME NEW k \in 0..(HalfBlock - 1)
      PROVE  (x \div Weight(k)) % 2^BitsPerByte = (y \div Weight(k)) % 2^BitsPerByte
  <2>1. HalfBlock - k \in 1..HalfBlock
    OBVIOUS
  <2>2. Byte((x \div Weight(k)) % 2^BitsPerByte, {}) = Byte((y \div Weight(k)) % 2^BitsPerByte, {})
    BY <1>1, <2>1, LenBytesIs
  <2> QED
    BY <2>2 DEF Byte
<1>3. x = y
  BY <1>1, <1>2, DigitsEqual
<1> QED
  BY <1>1, <1>3

-----------------------------------------------------------------------------
(* The blocks and the tag *)

Block == [1..BlockSize -> Bytes]
ZeroBlock == [i \in 1..BlockSize |-> Zero]

\* The length block has room for both lengths and keeps them apart.
LEMMA LenBFacts ==
  ASSUME NEW a \in Nat, NEW c \in Nat, a * BitsPerByte < CtrMod, c * BitsPerByte < CtrMod
  PROVE  /\ lenB(a, c) \in Block
         /\ \A i \in 1..HalfBlock :
              lenB(a, c)[i] = LenBytes(a)[i] /\ lenB(a, c)[HalfBlock + i] = LenBytes(c)[i]
<1> USE Params DEF ParamFacts
<1>1. /\ LenBytes(a) \in Seq(Bytes) /\ Len(LenBytes(a)) = HalfBlock
      /\ LenBytes(c) \in Seq(Bytes) /\ Len(LenBytes(c)) = HalfBlock
  BY LenBytesIs, FcnSeq
<1>2. /\ lenB(a, c) \in Seq(Bytes) /\ Len(lenB(a, c)) = HalfBlock + HalfBlock
      /\ \A i \in 1..(HalfBlock + HalfBlock) :
           lenB(a, c)[i] = IF i <= HalfBlock THEN LenBytes(a)[i] ELSE LenBytes(c)[i - HalfBlock]
  BY <1>1, ConcatProperties DEF lenB
<1>3. lenB(a, c) \in [1..(HalfBlock + HalfBlock) -> Bytes]
  BY <1>2, LenProperties
<1>4. HalfBlock + HalfBlock = BlockSize
  OBVIOUS
<1>5. ASSUME NEW i \in 1..HalfBlock
      PROVE  lenB(a, c)[i] = LenBytes(a)[i] /\ lenB(a, c)[HalfBlock + i] = LenBytes(c)[i]
  <2>1. /\ i \in 1..(HalfBlock + HalfBlock) /\ HalfBlock + i \in 1..(HalfBlock + HalfBlock)
        /\ i <= HalfBlock /\ ~(HalfBlock + i <= HalfBlock) /\ (HalfBlock + i) - HalfBlock = i
    OBVIOUS
  <2> QED
    BY <1>2, <2>1
<1> QED
  BY <1>3, <1>4, <1>5 DEF Block

\* Equal length blocks, equal lengths.
LEMMA LenBInjective ==
  ASSUME NEW a \in Nat, NEW c \in Nat, NEW x \in Nat, NEW y \in Nat,
         a * BitsPerByte < CtrMod, c * BitsPerByte < CtrMod,
         x * BitsPerByte < CtrMod, y * BitsPerByte < CtrMod,
         lenB(a, c) = lenB(x, y)
  PROVE  a = x /\ c = y
<1>1. \A i \in 1..HalfBlock : LenBytes(a)[i] = LenBytes(x)[i]
  BY LenBFacts
<1>2. \A i \in 1..HalfBlock : LenBytes(c)[i] = LenBytes(y)[i]
  BY LenBFacts
<1> QED
  BY <1>1, <1>2, LenBytesInjective

\* All-zero blocks are one block.
LEMMA ZeroIs ==
  ASSUME NEW b \in Block
  PROVE  IsZero(b) <=> b = ZeroBlock
  BY DEF Block, IsZero, ZeroBlock

\* The length block is never the zero block: its term is always in the tag.
LEMMA LenBNotZero ==
  ASSUME NEW a \in Nat, NEW c \in Nat, a + c > 0,
         a * BitsPerByte < CtrMod, c * BitsPerByte < CtrMod
  PROVE  ~IsZero(lenB(a, c))
<1> USE Params DEF ParamFacts
<1> SUFFICES ASSUME IsZero(lenB(a, c)) PROVE FALSE
  OBVIOUS
<1>1. 0 * BitsPerByte = 0 /\ 0 * BitsPerByte < CtrMod
  OBVIOUS
<1>2. lenB(a, c) \in Block /\ lenB(0, 0) \in Block
  BY <1>1, LenBFacts
<1>3. ASSUME NEW i \in 1..HalfBlock PROVE LenBytes(0)[i] = Zero
  <2>1. HalfBlock - i \in 0..(HalfBlock - 1) /\ HalfBlock - (HalfBlock - i) = i
    OBVIOUS
  <2>2. LenBytes(0)[i] = Byte((0 \div Weight(HalfBlock - i)) % 2^BitsPerByte, {})
    <3>1. LenBytes(0)[HalfBlock - (HalfBlock - i)]
            = Byte(((0 * BitsPerByte) \div Weight(HalfBlock - i)) % 2^BitsPerByte, {})
      BY <1>1, <2>1, LenBytesIs
    <3> QED
      BY <1>1, <2>1, <3>1
  <2>3. PICK P \in Nat \ {0}, D \in Nat \ {0} : P = Weight(HalfBlock - i) /\ D = 2^BitsPerByte
    BY <2>1, WeightFacts
  <2>4. 0 \div P = 0 /\ 0 % D = 0
    BY SmallMod
  <2> QED
    BY <2>2, <2>3, <2>4 DEF Zero
<1>4. ASSUME NEW i \in 1..HalfBlock
      PROVE  LenBytes(a)[i] = LenBytes(0)[i] /\ LenBytes(c)[i] = LenBytes(0)[i]
  <2>1. i \in 1..BlockSize /\ HalfBlock + i \in 1..BlockSize
    OBVIOUS
  <2>2. lenB(a, c)[i] = Zero /\ lenB(a, c)[HalfBlock + i] = Zero
    BY <1>2, <2>1 DEF IsZero, Block
  <2> QED
    BY <1>3, <2>2, LenBFacts
<1>5. a = 0 /\ c = 0
  BY <1>1, <1>4, LenBytesInjective
<1> QED
  BY <1>5

\* Byte i of block j of the padded data.
ByteOf(s, j, i) == IF (j - 1) * BlockSize + i <= Len(s) THEN s[(j - 1) * BlockSize + i] ELSE Zero

\* The padded blocks of s are blocks.
LEMMA RefBlocksFacts ==
  ASSUME NEW s \in Seq(Bytes)
  PROVE  /\ RefBlocks(s) \in Seq(Block) /\ Len(RefBlocks(s)) = BlocksOf(Len(s)) /\ BlocksOf(Len(s)) \in Nat
         /\ \A j \in 1..BlocksOf(Len(s)) : RefBlocks(s)[j] = [i \in 1..BlockSize |-> ByteOf(s, j, i)]
<1> USE Params DEF ParamFacts
<1>1. Len(s) \in Nat /\ BlocksOf(Len(s)) \in Nat
  BY LenProperties, BlocksBound
<1>2. RefBlocks(s) = [j \in 1..BlocksOf(Len(s)) |-> [i \in 1..BlockSize |-> ByteOf(s, j, i)]]
  BY DEF RefBlocks, ByteOf
<1>3. ASSUME NEW j \in 1..BlocksOf(Len(s)), NEW i \in 1..BlockSize PROVE ByteOf(s, j, i) \in Bytes
  <2>1. PICK k \in Nat \ {0} : k = (j - 1) * BlockSize + i
    <3>1. (j - 1) * BlockSize \in Nat
      BY <1>1
    <3> QED
      BY <3>1
  <2>2. Zero \in Bytes
    BY DEF Zero, Byte, Bytes
  <2>3. k <= Len(s) => s[k] \in Bytes
    BY <1>1, ElementOfSeq
  <2> QED
    BY <2>1, <2>2, <2>3 DEF ByteOf
<1>4. RefBlocks(s) \in [1..BlocksOf(Len(s)) -> Block]
  BY <1>2, <1>3 DEF Block
<1> QED
  BY <1>1, <1>2, <1>4, FcnSeq

\* Padded blocks and the length determine the data.
LEMMA RefBlocksInjective ==
  ASSUME NEW s \in Seq(Bytes), NEW t \in Seq(Bytes), Len(s) = Len(t),
         \A j \in 1..BlocksOf(Len(s)) : RefBlocks(s)[j] = RefBlocks(t)[j]
  PROVE  s = t
<1> USE Params DEF ParamFacts
<1>1. Len(s) \in Nat
  BY LenProperties
<1>2. ASSUME NEW k \in 1..Len(s) PROVE s[k] = t[k]
  <2>1. PICK z \in Nat : z = k - 1
    BY <1>1
  <2>2. PICK q \in Nat, r \in 0..(BlockSize - 1) :
          z = q * BlockSize + r /\ z \div BlockSize = q /\ z % BlockSize = r
    BY DivModNames
  <2>3. q + 1 \in 1..BlocksOf(Len(s)) /\ r + 1 \in 1..BlockSize
    <3>1. PICK m \in Nat : m = BlocksOf(Len(s)) /\ Len(s) <= m * BlockSize
      BY <1>1, BlocksBound
    <3>2. ASSUME q >= m PROVE FALSE
      <4>1. q * BlockSize >= m * BlockSize
        BY <3>2
      <4> QED
        BY <1>1, <2>1, <2>2, <3>1, <4>1
    <3> QED
      BY <3>1, <3>2
  <2>4. ((q + 1) - 1) * BlockSize + (r + 1) = k
    BY <1>1, <2>1, <2>2
  <2>5. ByteOf(s, q + 1, r + 1) = ByteOf(t, q + 1, r + 1)
    <3>1. PICK j \in 1..BlocksOf(Len(s)), i \in 1..BlockSize : j = q + 1 /\ i = r + 1
      BY <2>3
    <3>2. RefBlocks(s)[j] = [k1 \in 1..BlockSize |-> ByteOf(s, j, k1)]
      BY RefBlocksFacts
    <3>3. RefBlocks(t)[j] = [k1 \in 1..BlockSize |-> ByteOf(t, j, k1)]
      BY RefBlocksFacts
    <3>4. RefBlocks(s)[j][i] = RefBlocks(t)[j][i]
      OBVIOUS
    <3>5. ByteOf(s, j, i) = ByteOf(t, j, i)
      BY <3>2, <3>3, <3>4
    <3> QED
      BY <3>1, <3>5
  <2> QED
    BY <1>1, <2>4, <2>5 DEF ByteOf
<1> QED
  BY <1>2, SeqEqual

\* The sequence that auth works through: A blocks of data, C of ciphertext, the lengths.
AllIs(all, a, c, A, C) ==
  /\ all \in Seq(Block) /\ Len(all) = A + C + 1
  /\ \A j \in 1..A : all[j] = RefBlocks(a)[j]
  /\ \A j \in 1..C : all[A + j] = RefBlocks(c)[j]
  /\ all[A + C + 1] = lenB(Len(a), Len(c))

\* AllBlocks is that sequence.
LEMMA AllBlocksFacts ==
  ASSUME NEW a \in Seq(Bytes), NEW c \in Seq(Bytes),
         Len(a) * BitsPerByte < CtrMod, Len(c) * BitsPerByte < CtrMod
  PROVE  AllIs(AllBlocks(a, c), a, c, BlocksOf(Len(a)), BlocksOf(Len(c)))
<1>1. Len(a) \in Nat /\ Len(c) \in Nat
  BY LenProperties
<1>2. PICK A \in Nat, C \in Nat : A = BlocksOf(Len(a)) /\ C = BlocksOf(Len(c))
  BY <1>1, BlocksBound
<1>3. PICK l \in Block : l = lenB(Len(a), Len(c))
  BY <1>1, LenBFacts
<1>4. PICK R \in Seq(Block), S \in Seq(Block) : R = RefBlocks(a) /\ S = RefBlocks(c) /\ Len(R) = A /\ Len(S) = C
  BY <1>2, RefBlocksFacts
<1>5. <<l>> \in Seq(Block) /\ Len(<<l>>) = 1 /\ <<l>>[1] = l
  OBVIOUS
<1>6. /\ R \o S \in Seq(Block) /\ Len(R \o S) = A + C
      /\ \A i \in 1..(A + C) : (R \o S)[i] = IF i <= A THEN R[i] ELSE S[i - A]
  BY <1>4, ConcatProperties
<1>7. PICK T \in Seq(Block) : T = R \o S /\ Len(T) = A + C
  BY <1>6
<1>8. /\ T \o <<l>> \in Seq(Block) /\ Len(T \o <<l>>) = A + C + 1
      /\ \A i \in 1..(A + C + 1) : (T \o <<l>>)[i] = IF i <= A + C THEN T[i] ELSE <<l>>[i - (A + C)]
  BY <1>5, <1>7, ConcatProperties
<1>9. AllBlocks(a, c) = T \o <<l>>
  BY <1>3, <1>4, <1>7 DEF AllBlocks
<1>10. \A j \in 1..A : (T \o <<l>>)[j] = R[j]
  <2> TAKE j \in 1..A
  <2>1. j \in 1..(A + C + 1) /\ j \in 1..(A + C) /\ j <= A + C /\ j <= A
    OBVIOUS
  <2> QED
    BY <1>6, <1>7, <1>8, <2>1
<1>11. \A j \in 1..C : (T \o <<l>>)[A + j] = S[j]
  <2> TAKE j \in 1..C
  <2>1. A + j \in 1..(A + C + 1) /\ A + j \in 1..(A + C) /\ A + j <= A + C /\ ~(A + j <= A) /\ (A + j) - A = j
    OBVIOUS
  <2> QED
    BY <1>6, <1>7, <1>8, <2>1
<1>12. (T \o <<l>>)[A + C + 1] = l
  <2>1. A + C + 1 \in 1..(A + C + 1) /\ ~(A + C + 1 <= A + C) /\ (A + C + 1) - (A + C) = 1
    OBVIOUS
  <2> QED
    BY <1>5, <1>8, <2>1
<1> QED
  BY <1>2, <1>3, <1>4, <1>8, <1>9, <1>10, <1>11, <1>12 DEF AllIs

\* The term of block b at place j.
Term(n, j, b) == <<<<<<1, n[2]>>, j - 1>>, b>>

\* The terms of a tag, one by one.
LEMMA TermsIff ==
  ASSUME NEW n, NEW all, NEW k \in Nat
  PROVE  /\ Terms(n, all, k) = {Term(n, j, all[j]) : j \in {i \in 1..k : ~IsZero(all[i])}}
         /\ \A j \in Nat \ {0} : \A b :
              Term(n, j, b) \in Terms(n, all, k) <=> j \in 1..k /\ ~IsZero(all[j]) /\ b = all[j]
<1>1. ASSUME NEW j \in Nat \ {0}, NEW i \in Nat \ {0}, NEW b, NEW d, Term(n, j, b) = Term(n, i, d)
      PROVE  i = j /\ b = d
  BY <1>1 DEF Term
<1>2. Terms(n, all, k) = {Term(n, j, all[j]) : j \in {i \in 1..k : ~IsZero(all[i])}}
  BY DEF Terms, Term
<1>3. ASSUME NEW j \in Nat \ {0}, NEW b
      PROVE  Term(n, j, b) \in Terms(n, all, k) <=> j \in 1..k /\ ~IsZero(all[j]) /\ b = all[j]
  BY <1>1, <1>2
<1> QED
  BY <1>2, <1>3

\* A block at the same place of two equal tags is the same block, when not zero.
LEMMA TermsEqual ==
  ASSUME NEW n, NEW S, NEW T, NEW M \in Nat, NEW N \in Nat, Terms(n, S, M) = Terms(n, T, N),
         NEW j \in 1..M, ~IsZero(S[j])
  PROVE  j \in 1..N /\ S[j] = T[j] /\ ~IsZero(T[j])
<1>1. j \in Nat \ {0}
  OBVIOUS
<1>2. PICK b : b = S[j]
  OBVIOUS
<1>3. Term(n, j, b) \in Terms(n, S, M)
  BY <1>1, <1>2, TermsIff
<1>4. Term(n, j, b) \in Terms(n, T, N)
  BY <1>3
<1>5. j \in 1..N /\ ~IsZero(T[j]) /\ b = T[j]
  BY <1>1, <1>4, TermsIff
<1> QED
  BY <1>2, <1>5

\* The tag of RFC 9058 determines the additional data and the ciphertext.
LEMMA TagInjective ==
  ASSUME NEW n, NEW a \in Seq(Bytes), NEW c \in Seq(Bytes), NEW x \in Seq(Bytes), NEW y \in Seq(Bytes),
         ValidLengths(Len(a), Len(c)), ValidLengths(Len(x), Len(y)),
         RefTag(n, a, c) = RefTag(n, x, y)
  PROVE  a = x /\ c = y
<1>1. Len(a) \in Nat /\ Len(c) \in Nat /\ Len(x) \in Nat /\ Len(y) \in Nat
  BY LenProperties
<1>2. /\ Len(a) + Len(c) > 0 /\ Len(a) * BitsPerByte < CtrMod /\ Len(c) * BitsPerByte < CtrMod
      /\ Len(x) + Len(y) > 0 /\ Len(x) * BitsPerByte < CtrMod /\ Len(y) * BitsPerByte < CtrMod
  BY <1>1, ValidSmall
<1>3. PICK A \in Nat, C \in Nat, X \in Nat, Y \in Nat :
        A = BlocksOf(Len(a)) /\ C = BlocksOf(Len(c)) /\ X = BlocksOf(Len(x)) /\ Y = BlocksOf(Len(y))
  BY <1>1, BlocksBound
<1>4. PICK S, T : S = AllBlocks(a, c) /\ T = AllBlocks(x, y)
  OBVIOUS
<1>5. AllIs(S, a, c, A, C)
  BY <1>2, <1>3, <1>4, AllBlocksFacts
<1>6. AllIs(T, x, y, X, Y)
  BY <1>2, <1>3, <1>4, AllBlocksFacts
<1>7. PICK M \in Nat \ {0}, N \in Nat \ {0} : M = A + C + 1 /\ N = X + Y + 1
  OBVIOUS
<1>8. Terms(n, S, M) = Terms(n, T, N)
  BY <1>4, <1>5, <1>6, <1>7 DEF RefTag, AllIs
<1>9. S[M] = lenB(Len(a), Len(c)) /\ T[N] = lenB(Len(x), Len(y))
  BY <1>5, <1>6, <1>7 DEF AllIs
<1>10. ~IsZero(S[M]) /\ ~IsZero(T[N])
  <2>1. ~IsZero(lenB(Len(a), Len(c))) /\ ~IsZero(lenB(Len(x), Len(y)))
    BY <1>1, <1>2, LenBNotZero
  <2> QED
    BY <1>9, <2>1
<1>11. M = N /\ S[M] = T[N]
  <2>1. M \in 1..N /\ S[M] = T[M]
    BY <1>8, <1>10, TermsEqual
  <2>2. N \in 1..M
    BY <1>8, <1>10, TermsEqual
  <2>3. M = N
    BY <2>1, <2>2
  <2> QED
    BY <2>1, <2>3
<1>12. Len(a) = Len(x) /\ Len(c) = Len(y)
  <2>1. lenB(Len(a), Len(c)) = lenB(Len(x), Len(y))
    BY <1>9, <1>11
  <2> QED
    BY <1>1, <1>2, <2>1, LenBInjective
<1>13. A = X /\ C = Y
  BY <1>3, <1>12
<1>14. ASSUME NEW j \in 1..M PROVE S[j] = T[j]
  <2>1. S[j] \in Block /\ T[j] \in Block
    <3>1. j \in 1..Len(S) /\ j \in 1..Len(T)
      BY <1>5, <1>6, <1>7, <1>13 DEF AllIs
    <3> QED
      BY <1>5, <1>6, <3>1, ElementOfSeq DEF AllIs
  <2>2. CASE ~IsZero(S[j])
    BY <1>8, <2>2, TermsEqual
  <2>3. CASE ~IsZero(T[j])
    BY <1>8, <1>11, <2>3, TermsEqual
  <2>4. CASE IsZero(S[j]) /\ IsZero(T[j])
    BY <2>1, <2>4, ZeroIs
  <2> QED
    BY <2>2, <2>3, <2>4
<1>15. \A j \in 1..A : RefBlocks(a)[j] = RefBlocks(x)[j]
  <2> TAKE j \in 1..A
  <2>1. j \in 1..M /\ j \in 1..X
    BY <1>7, <1>13
  <2> QED
    BY <1>5, <1>6, <1>14, <2>1 DEF AllIs
<1>16. \A j \in 1..C : RefBlocks(c)[j] = RefBlocks(y)[j]
  <2> TAKE j \in 1..C
  <2>1. A + j \in 1..M /\ j \in 1..Y
    BY <1>7, <1>13
  <2>2. S[A + j] = T[X + j]
    BY <1>13, <1>14, <2>1
  <2> QED
    BY <1>5, <1>6, <2>1, <2>2 DEF AllIs
<1>17. a = x
  BY <1>3, <1>12, <1>15, RefBlocksInjective
<1>18. c = y
  BY <1>3, <1>12, <1>16, RefBlocksInjective
<1> QED
  BY <1>17, <1>18

-----------------------------------------------------------------------------
(* The inductive invariant *)

\* Arguments are sequences of bytes.
LEMMA PlainFacts ==
  ASSUME NEW m \in Messages
  PROVE  Plain(m) \in Seq(Bytes) /\ Len(Plain(m)) = Len(m)
<1>1. m \in Seq(Values) /\ Values \subseteq Nat
  BY MgmAssumption
<1>2. Len(m) \in Nat /\ m \in [1..Len(m) -> Values] /\ DOMAIN m = 1..Len(m)
  BY <1>1, LenProperties
<1>3. Plain(m) \in [1..Len(m) -> Bytes]
  BY <1>1, <1>2 DEF Plain, Byte, Bytes
<1> QED
  BY <1>2, <1>3, FcnSeq

\* What the guards say about the call in progress, or the last one.
LEMMA CallLens ==
  ASSUME IInv, pc # "idle" \/ op # "none"
  PROVE  /\ Len(in) \in Nat /\ Len(ad) \in Nat /\ Len(in) < CtrMod /\ Len(ad) + Len(in) < CtrMod
         /\ Len(ad) * BitsPerByte < CtrMod /\ Len(in) * BitsPerByte < CtrMod
         /\ icn \in {0} \X Rests /\ in \in Seq(Bytes) /\ ad \in Seq(Bytes) /\ CtrMod \in Nat \ {0}
<1>1. in \in Seq(Bytes) /\ ad \in Seq(Bytes) /\ icn \in {0} \X Rests /\ ValidLengths(Len(ad), Len(in))
  BY DEF IInv, TypeOK, CallInv
<1>2. Len(in) \in Nat /\ Len(ad) \in Nat
  BY <1>1, LenProperties
<1>3. CtrMod \in Nat \ {0}
  BY Params DEF ParamFacts
<1> QED
  BY <1>1, <1>2, <1>3, ValidSmall

\* No blocks, no terms.
LEMMA NoBlocks ==
  BlocksOf(0) = 0 /\ \A n, all : Terms(n, all, 0) = {}
<1>1. BlocksOf(0) = 0
  BY BlocksBound
<1> QED
  BY <1>1 DEF Terms

\* Before the first call.
LEMMA InitIInv == Init => IInv
<1> SUFFICES ASSUME Init PROVE IInv
  OBVIOUS
<1>1. TypeOK
  BY DEF Init, TypeOK
<1> QED
  BY <1>1 DEF Init, IInv, CallInv, CryptInv, AuthInv, CompareInv, IdleInv, SealedInv, SeedInv

\* A call that is turned down leaves nothing behind.
LEMMA RejectIInv ==
  ASSUME IInv, pc = "idle", NEW r \in {"panic", "error"}, Reject(r)
  PROVE  IInv'
<1>1. TypeOK'
  BY DEF IInv, TypeOK, Reject
<1>2. SealedInv'
  BY DEF IInv, SealedInv, Reject
<1>3. SeedInv'
  BY DEF IInv, SeedInv, Reject
<1> QED
  BY <1>1, <1>2, <1>3 DEF IInv, CallInv, CryptInv, AuthInv, CompareInv, IdleInv, Reject

\* A valid nonce keeps its rest, under either top bit.
LEMMA NonceFacts ==
  ASSUME NEW n \in Nonces, ValidNonce(n)
  PROVE  <<n[2], n[3]>> \in {0} \X Rests /\ <<n[2], n[3]>>[2] = n[3] /\ n[3] \in Rests
  BY DEF ValidNonce, Rests

\* Every keystream starts from its nonce.
LEMMA SeedAdded ==
  ASSUME SeedInv, NEW n \in {0} \X Rests, StartCrypt(n)
  PROVE  SeedInv'
<1>1. PICK r \in Rests : n = <<0, r>>
  OBVIOUS
<1>2. seeds' = seeds \cup {<<<<0, r>>, <<0, r>>>>}
  BY <1>1 DEF StartCrypt
<1> QED
  BY <1>2 DEF SeedInv

\* Seal, turned down or started.
LEMMA SealIInv ==
  ASSUME IInv, NEW n \in Nonces, NEW pt \in Messages, NEW a \in Messages, Seal(n, pt, a)
  PROVE  IInv'
<1>0. pc = "idle"
  BY DEF Seal
<1>1. CASE ~ValidNonce(n) \/ ~ValidLengths(Len(a), Len(pt))
  BY <1>0, <1>1, RejectIInv DEF Seal
<1>2. CASE ValidNonce(n) /\ ValidLengths(Len(a), Len(pt))
  <2>1. /\ pc' = "crypt" /\ op' = "seal" /\ icn' = <<n[2], n[3]>> /\ in' = Plain(pt) /\ ad' = Plain(a)
        /\ done' = 0 /\ out' = <<>> /\ result' = "none" /\ StartCrypt(<<n[2], n[3]>>) /\ sealed' = sealed
    BY <1>2 DEF Seal
  <2>2. in' \in Seq(Bytes) /\ ad' \in Seq(Bytes) /\ Len(in') = Len(pt) /\ Len(ad') = Len(a)
    BY <2>1, PlainFacts
  <2>3. icn' \in {0} \X Rests
    BY <1>2, <2>1, NonceFacts
  <2>4. TypeOK' /\ CallInv'
    BY <1>2, <2>1, <2>2, <2>3 DEF TypeOK, CallInv, ValidLengths
  <2>5. CryptInv'
    <3>1. Len(in') \in Nat /\ 0 % BlockSize = 0
      <4>1. BlockSize \in Nat \ {0} /\ 0 < BlockSize
        BY Params DEF ParamFacts
      <4> QED
        BY <2>2, <4>1, SmallMod, LenProperties
    <3>2. yi' = <<<<0, icn'[2]>>, BlocksOf(0)>>
      BY <2>1, NoBlocks DEF StartCrypt
    <3> QED
      BY <2>1, <3>1, <3>2 DEF CryptInv, Boundary
  <2>6. SealedInv'
    BY <2>1 DEF IInv, SealedInv
  <2>7. SeedInv'
    BY <1>2, <2>1, NonceFacts, SeedAdded DEF IInv
  <2> QED
    BY <2>1, <2>4, <2>5, <2>6, <2>7 DEF IInv, AuthInv, CompareInv, IdleInv
<1> QED
  BY <1>1, <1>2

\* Ciphertexts that exist are sequences of bytes.
LEMMA ReceivedType ==
  ASSUME IInv, NEW c \in Received
  PROVE  c \in Seq(Bytes)
<1>1. CASE sealed = <<>>
  BY <1>1 DEF Received
<1>2. CASE sealed # <<>>
  <2>1. PICK s \in Seq(Bytes) : s = sealed.ct
    <3>1. /\ sealed.nonce \in {0} \X Rests /\ sealed.ad \in Seq(Bytes) /\ sealed.pt \in Seq(Bytes)
          /\ ValidLengths(Len(sealed.ad), Len(sealed.pt)) /\ sealed.ct = RefCt(sealed.nonce, sealed.pt)
      BY <1>2 DEF IInv, SealedInv
    <3>2. Len(sealed.ad) \in Nat /\ Len(sealed.pt) \in Nat /\ CtrMod \in Nat
      BY <3>1, Params, LenProperties DEF ParamFacts
    <3>3. Len(sealed.pt) < CtrMod
      BY <3>1, <3>2, ValidSmall
    <3> QED
      BY <3>1, <3>3, RefCtType
  <2>2. Len(s) \in Nat /\ DOMAIN s = 1..Len(s)
    BY LenProperties
  <2>3. CASE c = s
    BY <2>3
  <2>4. CASE c = Append(s, Zero)
    <3>1. Zero \in Bytes
      BY DEF Zero, Byte, Bytes
    <3> QED
      BY <2>4, <3>1
  <2>5. CASE c = SubSeq(s, 1, Len(s) - 1)
    <3>1. \A i \in 1..(Len(s) - 1) : s[i] \in Bytes
      BY <2>2, ElementOfSeq
    <3> QED
      BY <2>2, <2>5, <3>1, SubSeqProperties
  <2>6. ASSUME NEW i \in DOMAIN s, c = [s EXCEPT ![i].v = (@ + 1) % 2] PROVE c \in Seq(Bytes)
    <3>1. i \in 1..Len(s) /\ s[i] \in Bytes
      BY <2>2, <2>6, ElementOfSeq
    <3>2. (s[i].v + 1) % 2 \in Nat
      <4>1. PICK u \in Nat : u = s[i].v + 1
        BY <3>1 DEF Bytes
      <4>2. u % 2 \in 0..(2 - 1)
        BY DivModBasic
      <4> QED
        BY <4>1, <4>2
    <3>3. [s[i] EXCEPT !.v = (@ + 1) % 2] \in Bytes
      BY <3>1, <3>2 DEF Bytes
    <3>4. c = [s EXCEPT ![i] = [s[i] EXCEPT !.v = (@ + 1) % 2]]
      BY <2>6
    <3> QED
      BY <3>1, <3>3, <3>4, ExceptSeq
  <2> QED
    BY <1>2, <2>1, <2>3, <2>4, <2>5, <2>6 DEF Received
<1> QED
  BY <1>1, <1>2

\* Open of an argument shorter than a tag.
LEMMA OpenShortIInv ==
  ASSUME IInv, NEW n \in Nonces, OpenShort(n)
  PROVE  IInv'
  BY RejectIInv DEF OpenShort

\* A pass starts at a block boundary.
LEMMA BoundaryZero ==
  ASSUME NEW s \in Seq(Bytes)
  PROVE  Len(s) \in Nat /\ 0 <= Len(s) /\ 0 % BlockSize = 0
<1>1. BlockSize \in Nat \ {0} /\ 0 < BlockSize
  BY Params DEF ParamFacts
<1> QED
  BY <1>1, SmallMod, LenProperties

\* Open, turned down or started.
LEMMA OpenIInv ==
  ASSUME IInv, NEW n \in Nonces, NEW c \in Received, NEW a \in Messages,
         Open(n, c, IF sealed = <<>> THEN {} ELSE sealed.tag, a)
  PROVE  IInv'
<1>0. pc = "idle"
  BY DEF Open
<1>1. CASE ~ValidNonce(n) \/ ~ValidLengths(Len(a), Len(c))
  BY <1>0, <1>1, RejectIInv DEF Open
<1>2. CASE ValidNonce(n) /\ ValidLengths(Len(a), Len(c))
  <2>1. /\ pc' = "ad" /\ op' = "open" /\ icn' = <<n[2], n[3]>> /\ in' = c /\ ad' = Plain(a)
        /\ done' = 0 /\ out' = <<>> /\ result' = "none" /\ StartAuth(<<n[2], n[3]>>)
        /\ sealed' = sealed /\ seeds' = seeds /\ recv' = IF sealed = <<>> THEN {} ELSE sealed.tag
    BY <1>2 DEF Open
  <2>2. in' \in Seq(Bytes) /\ ad' \in Seq(Bytes) /\ Len(ad') = Len(a)
    BY <2>1, PlainFacts, ReceivedType
  <2>3. icn' \in {0} \X Rests
    BY <1>2, <2>1, NonceFacts
  <2>4. TypeOK' /\ CallInv'
    BY <1>2, <2>1, <2>2, <2>3 DEF TypeOK, CallInv, ValidLengths
  <2>5. AuthInv'
    <3>1. Data' = ad' /\ Handled' = 0
      BY <2>1, NoBlocks DEF Data, Handled
    <3>2. zi' = <<<<1, icn'[2]>>, 0>> /\ sum' = {}
      BY <2>1 DEF StartAuth
    <3>3. Boundary(Data)'
      BY <2>1, <2>2, <3>1, BoundaryZero DEF Boundary
    <3>4. sum' = Terms(icn, AllBlocks(ad, CtOf), Handled)'
      BY <3>1, <3>2, NoBlocks
    <3> QED
      BY <2>1, <3>1, <3>2, <3>3, <3>4 DEF AuthInv
  <2>6. SealedInv' /\ SeedInv'
    BY <2>1 DEF IInv, SealedInv, SeedInv
  <2> QED
    BY <2>1, <2>4, <2>5, <2>6 DEF IInv, CryptInv, CompareInv, IdleInv
<1> QED
  BY <1>1, <1>2

\* A turn of a loop: the bytes of one block, the last one possibly shorter.
LEMMA TurnFacts ==
  ASSUME NEW s \in Seq(Bytes), done \in Nat, Boundary(s), done < Len(s)
  PROVE  \E k \in Nat, r \in 1..BlockSize :
           /\ done = k * BlockSize /\ r = Room(s) /\ done + r <= Len(s)
           /\ r = BlockSize \/ done + r = Len(s)
           /\ BlocksOf(done) = k /\ BlocksOf(done + r) = k + 1
           /\ done + r = Len(s) \/ (done + r) % BlockSize = 0
<1> USE Params DEF ParamFacts
<1>1. Len(s) \in Nat /\ done % BlockSize = 0
  BY LenProperties DEF Boundary
<1>2. PICK k \in Nat, z \in 0..(BlockSize - 1) :
        done = k * BlockSize + z /\ done \div BlockSize = k /\ done % BlockSize = z
  BY DivModNames
<1>3. done = k * BlockSize
  BY <1>1, <1>2
<1>4. PICK r \in 1..BlockSize :
        r = Room(s) /\ done + r <= Len(s) /\ (r = BlockSize \/ done + r = Len(s))
  BY <1>1 DEF Room
<1>5. BlocksOf(done) = k /\ BlocksOf(done + r) = k + 1
  BY <1>3, BlocksIs
<1>6. ASSUME r = BlockSize PROVE (done + r) % BlockSize = 0
  <2>1. PICK q \in Nat, x \in Nat : q = k + 1 /\ x = done + r
    OBVIOUS
  <2>2. x = q * BlockSize
    BY <1>3, <1>6, <2>1
  <2>3. x % BlockSize = 0
    BY <2>2, MultipleIff
  <2> QED
    BY <2>1, <2>3
<1> QED
  BY <1>3, <1>4, <1>5, <1>6

\* Positions of one block have one counter.
LEMMA PadInBlock ==
  ASSUME NEW n, NEW k \in Nat, NEW i \in 1..BlockSize
  PROVE  PadAt(n, k * BlockSize + i) = <<<<<<0, n[2]>>, k>>, i>>
<1> USE Params DEF ParamFacts
<1>1. PICK x \in Nat, t \in 0..(BlockSize - 1) : t = i - 1 /\ x = (k * BlockSize + i) - 1
  OBVIOUS
<1>2. x = k * BlockSize + t
  BY <1>1
<1>3. x \div BlockSize = k /\ x % BlockSize = t
  BY <1>2, DivModIs
<1>4. t + 1 = i
  BY <1>1
<1> QED
  BY <1>1, <1>3, <1>4 DEF PadAt

\* One turn of crypt (mgm.go:330-364): its bytes are those of the RFC.
LEMMA CryptBlockIInv == ASSUME IInv, CryptBlock PROVE IInv'
<1>1. /\ pc = "crypt" /\ done < Len(in) /\ done \in Nat /\ out \in Seq(Bytes)
      /\ yi = <<<<0, icn[2]>>, BlocksOf(done)>> /\ Boundary(in) /\ Len(out) = done
      /\ \A i \in 1..done : out[i] = RefCt(icn, in)[i]
  BY DEF CryptBlock, IInv, TypeOK, CryptInv
<1>2. /\ Len(in) \in Nat /\ Len(in) < CtrMod /\ icn \in {0} \X Rests /\ in \in Seq(Bytes)
      /\ CtrMod \in Nat \ {0}
  BY <1>1, CallLens
<1>3. PICK k \in Nat, r \in 1..BlockSize :
        /\ done = k * BlockSize /\ r = Room(in) /\ done + r <= Len(in)
        /\ r = BlockSize \/ done + r = Len(in)
        /\ BlocksOf(done) = k /\ BlocksOf(done + r) = k + 1
        /\ done + r = Len(in) \/ (done + r) % BlockSize = 0
  BY <1>1, <1>2, TurnFacts
<1>4. r \in Nat /\ BlockSize \in Nat
  BY Params DEF ParamFacts
<1> DEFINE F == [i \in 1..r |-> Byte(in[done + i].v, Xor(in[done + i].ks, {<<yi, i>>}))]
<1>5. out' = out \o F /\ done' = done + r /\ yi' = incrR(yi)
  BY <1>3 DEF CryptBlock
<1>6. RefCt(icn, in) \in Seq(Bytes) /\ Len(RefCt(icn, in)) = Len(in)
  BY <1>2, RefCtType
<1>7. ASSUME NEW i \in 1..r PROVE F[i] = RefCt(icn, in)[done + i] /\ F[i] \in Bytes
  <2>1. done + i \in 1..Len(in) /\ i \in 1..BlockSize
    BY <1>1, <1>2, <1>3, <1>4
  <2>2. PadAt(icn, done + i) = <<yi, i>>
    <3> HIDE DEF F
    <3>1. PadAt(icn, k * BlockSize + i) = <<<<<<0, icn[2]>>, k>>, i>>
      BY <2>1, PadInBlock
    <3> QED
      BY <1>1, <1>3, <3>1
  <2>3. RefCt(icn, in)[done + i] = Byte(in[done + i].v, Xor(in[done + i].ks, {PadAt(icn, done + i)}))
    BY <1>2, <2>1, RefCtType
  <2>4. RefCt(icn, in)[done + i] \in Bytes
    BY <1>6, <2>1, ElementOfSeq
  <2> QED
    BY <2>2, <2>3, <2>4
<1>8. F \in Seq(Bytes) /\ Len(F) = r
  <2>1. F \in [1..r -> Bytes]
    BY <1>7
  <2> HIDE DEF F
  <2> QED
    BY <1>4, <2>1, FcnSeq
<1>9. /\ out' \in Seq(Bytes) /\ Len(out') = done'
      /\ \A i \in 1..done' : out'[i] = RefCt(icn, in)[i]
  <2> HIDE DEF F
  <2>1. /\ out \o F \in Seq(Bytes) /\ Len(out \o F) = done + r
        /\ \A i \in 1..(done + r) : (out \o F)[i] = IF i <= done THEN out[i] ELSE F[i - done]
    BY <1>1, <1>8, ConcatProperties
  <2>2. ASSUME NEW i \in 1..(done + r) PROVE (out \o F)[i] = RefCt(icn, in)[i]
    <3>1. CASE i <= done
      BY <1>1, <1>4, <2>1, <3>1
    <3>2. CASE ~(i <= done)
      <4>1. PICK j \in 1..r : j = i - done /\ done + j = i
        BY <1>1, <1>4, <3>2
      <4>2. (out \o F)[i] = F[j]
        BY <2>1, <3>2, <4>1
      <4> QED
        BY <1>7, <4>1, <4>2
    <3> QED
      BY <3>1, <3>2
  <2> QED
    BY <1>5, <2>1, <2>2
<1>10. yi' = <<<<0, icn[2]>>, BlocksOf(done')>>
  <2>1. k + 1 <= done + r
    <3>1. PICK l \in Nat : l = done + r /\ BlocksOf(l) = k + 1
      BY <1>1, <1>3, <1>4
    <3>2. BlocksOf(l) <= l
      BY BlocksBound
    <3> QED
      BY <3>1, <3>2
  <2>2. k + 1 < CtrMod
    BY <1>1, <1>2, <1>3, <1>4, <2>1
  <2>3. (k + 1) % CtrMod = k + 1
    BY <1>2, <2>2, SmallMod
  <2> QED
    BY <1>1, <1>3, <1>5, <2>3 DEF incrR, Incr
<1>11. /\ pc' = pc /\ op' = op /\ icn' = icn /\ in' = in /\ ad' = ad /\ recv' = recv /\ result' = result
       /\ sealed' = sealed /\ seeds' = seeds /\ done' \in Nat
  BY <1>1, <1>4, <1>5 DEF CryptBlock
<1>12. TypeOK' /\ CallInv'
  BY <1>9, <1>11 DEF IInv, TypeOK, CallInv
<1>13. CryptInv'
  <2>1. Boundary(in)'
    BY <1>3, <1>5, <1>11 DEF Boundary
  <2> QED
    BY <1>9, <1>10, <1>11, <2>1 DEF IInv, CryptInv
<1>14. SealedInv' /\ SeedInv'
  BY <1>11 DEF IInv, SealedInv, SeedInv
<1> QED
  BY <1>1, <1>11, <1>12, <1>13, <1>14 DEF IInv, AuthInv, CompareInv, IdleInv

\* crypt returns the ciphertext of the RFC.
LEMMA CryptDoneIInv == ASSUME IInv, CryptDone PROVE IInv'
<1>1. /\ pc = "crypt" /\ done = Len(in) /\ out \in Seq(Bytes) /\ Len(out) = done /\ op \in {"seal", "open"}
      /\ \A i \in 1..done : out[i] = RefCt(icn, in)[i]
      /\ op = "open" => recv = RefTag(icn, ad, in)
  BY DEF CryptDone, IInv, TypeOK, CryptInv, CallInv
<1>2. Len(in) < CtrMod /\ icn \in {0} \X Rests /\ in \in Seq(Bytes) /\ ad \in Seq(Bytes)
  BY <1>1, CallLens
<1>3. out = RefCt(icn, in)
  <2>1. RefCt(icn, in) \in Seq(Bytes) /\ Len(RefCt(icn, in)) = Len(in)
    BY <1>2, RefCtType
  <2> QED
    BY <1>1, <2>1, SeqEqual
<1>4. /\ op' = op /\ icn' = icn /\ in' = in /\ ad' = ad /\ recv' = recv /\ out' = out /\ tag' = tag
      /\ sealed' = sealed /\ seeds' = seeds
  BY DEF CryptDone
<1>5. SealedInv' /\ SeedInv'
  BY <1>4 DEF IInv, SealedInv, SeedInv
<1>6. CASE op = "seal"
  <2>1. pc' = "ad" /\ done' = 0 /\ result' = result /\ zi' = <<<<1, icn[2]>>, 0>> /\ sum' = {}
    BY <1>6 DEF CryptDone, StartAuth
  <2>2. TypeOK' /\ CallInv'
    BY <1>1, <1>4, <1>6, <2>1 DEF IInv, TypeOK, CallInv
  <2>3. Data' = ad' /\ Handled' = 0
    BY <2>1, NoBlocks DEF Data, Handled
  <2>4. Boundary(Data)'
    BY <1>2, <1>4, <2>1, <2>3, BoundaryZero DEF Boundary
  <2>5. AuthInv'
    BY <1>3, <1>4, <1>6, <2>1, <2>3, <2>4, NoBlocks DEF AuthInv
  <2> QED
    BY <1>5, <2>1, <2>2, <2>5 DEF IInv, CryptInv, CompareInv, IdleInv
<1>7. CASE op = "open"
  <2>1. pc' = "idle" /\ done' = done /\ result' = "ok"
    BY <1>7 DEF CryptDone
  <2>2. TypeOK' /\ CallInv'
    BY <1>1, <1>4, <1>7, <2>1 DEF IInv, TypeOK, CallInv
  <2>3. IdleInv'
    BY <1>1, <1>3, <1>4, <1>7, <2>1 DEF IdleInv
  <2> QED
    BY <1>5, <2>1, <2>2, <2>3 DEF IInv, CryptInv, AuthInv, CompareInv
<1> QED
  BY <1>1, <1>6, <1>7

\* Adding the term of the next block.
LEMMA AccumulateIs ==
  ASSUME NEW n, NEW all, NEW h \in Nat, NEW b, b = all[h + 1],
         zi = <<<<1, n[2]>>, h>>, sum = Terms(n, all, h), Accumulate(b)
  PROVE  sum' = Terms(n, all, h + 1)
<1>1. <<zi, b>> = Term(n, h + 1, b) /\ h + 1 \in Nat \ {0}
  BY DEF Term
<1>2. Term(n, h + 1, b) \notin sum
  <2>1. ~(h + 1 \in 1..h)
    OBVIOUS
  <2> QED
    BY <1>1, <2>1, TermsIff
<1>3. sum' = IF IsZero(b) THEN sum ELSE sum \cup {Term(n, h + 1, b)}
  BY <1>1, <1>2 DEF Accumulate, Xor
<1>4. /\ sum = {Term(n, j, all[j]) : j \in {i \in 1..h : ~IsZero(all[i])}}
      /\ Terms(n, all, h + 1) = {Term(n, j, all[j]) : j \in {i \in 1..(h + 1) : ~IsZero(all[i])}}
  BY <1>1, TermsIff
<1>5. 1..(h + 1) = (1..h) \cup {h + 1}
  OBVIOUS
<1>6. CASE IsZero(b)
  <2>1. {i \in 1..(h + 1) : ~IsZero(all[i])} = {i \in 1..h : ~IsZero(all[i])}
    BY <1>5, <1>6
  <2> QED
    BY <1>3, <1>4, <1>6, <2>1
<1>7. CASE ~IsZero(b)
  <2>1. {i \in 1..(h + 1) : ~IsZero(all[i])} = {i \in 1..h : ~IsZero(all[i])} \cup {h + 1}
    BY <1>5, <1>7
  <2>2. Terms(n, all, h + 1) = {Term(n, j, all[j]) : j \in {i \in 1..h : ~IsZero(all[i])}} \cup {Term(n, h + 1, b)}
    BY <1>4, <2>1
  <2> QED
    BY <1>3, <1>4, <1>7, <2>2
<1> QED
  BY <1>6, <1>7

\* d, of r bytes and padded if short, is block j of s.
TurnIs(d, r, s, j) ==
  /\ Len(d) = r
  /\ (IF r < BlockSize THEN Padded(d) ELSE d) = [i \in 1..BlockSize |-> ByteOf(s, j, i)]

\* The block that a turn of process handles is the padded block of the RFC,
\* whatever the padding buffer held before (mgm.go:387-413).
LEMMA TurnBlock ==
  ASSUME NEW s \in Seq(Bytes), NEW k \in Nat, NEW r \in 1..BlockSize, NEW d,
         NEW x \in Nat, x = k * BlockSize, x + r <= Len(s), r = BlockSize \/ x + r = Len(s),
         d = SubSeq(s, x + 1, x + r)
  PROVE  TurnIs(d, r, s, k + 1)
<1> USE Params DEF ParamFacts
<1>1. x = k * BlockSize /\ ((k + 1) - 1) * BlockSize = x
  OBVIOUS
<1>2. Len(s) \in Nat /\ \A i \in 1..Len(s) : s[i] \in Bytes
  BY LenProperties, ElementOfSeq
<1>3. \A i \in (x + 1)..(x + r) : s[i] \in Bytes
  BY <1>1, <1>2
<1>4. d \in Seq(Bytes) /\ Len(d) = r /\ \A i \in 1..r : d[i] = s[x + i]
  <2>1. x + 1 \in Int /\ x + r \in Int /\ x + 1 <= x + r /\ (x + r) - (x + 1) + 1 = r
    OBVIOUS
  <2>2. /\ SubSeq(s, x + 1, x + r) \in Seq(Bytes) /\ Len(SubSeq(s, x + 1, x + r)) = (x + r) - (x + 1) + 1
        /\ \A i \in 1..((x + r) - (x + 1) + 1) : SubSeq(s, x + 1, x + r)[i] = s[(x + 1) + i - 1]
    BY <1>3, <2>1, SubSeqProperties
  <2>3. d = SubSeq(s, x + 1, x + r) /\ \A i \in 1..r : (x + 1) + i - 1 = x + i
    BY <1>1
  <2> QED
    BY <2>1, <2>2, <2>3
<1>5. ASSUME NEW i \in 1..BlockSize PROVE ByteOf(s, k + 1, i) = IF i <= r THEN d[i] ELSE Zero
  <2>1. ByteOf(s, k + 1, i) = IF x + i <= Len(s) THEN s[x + i] ELSE Zero
    BY <1>1 DEF ByteOf
  <2>2. CASE i <= r
    BY <1>1, <1>2, <1>4, <2>1, <2>2
  <2>3. CASE ~(i <= r)
    BY <1>1, <1>2, <2>1, <2>3
  <2> QED
    BY <2>2, <2>3
<1>6. CASE r < BlockSize
  BY <1>4, <1>5, <1>6 DEF Padded, TurnIs
<1>7. CASE r = BlockSize
  <2>1. d \in [1..BlockSize -> Bytes]
    BY <1>4, <1>7, LenProperties
  <2>2. \A i \in 1..BlockSize : d[i] = ByteOf(s, k + 1, i)
    BY <1>5, <1>7
  <2>3. d = [i \in 1..BlockSize |-> ByteOf(s, k + 1, i)]
    BY <2>1, <2>2
  <2> QED
    BY <1>4, <1>7, <2>3 DEF TurnIs
<1> QED
  BY <1>6, <1>7

\* What auth works on.
LEMMA AuthFacts ==
  ASSUME IInv, pc \in {"ad", "ct", "len"}
  PROVE  \E A \in Nat, C \in Nat :
           /\ A = BlocksOf(Len(ad)) /\ C = BlocksOf(Len(CtOf)) /\ A + C < CtrMod
           /\ AllIs(AllBlocks(ad, CtOf), ad, CtOf, A, C)
           /\ CtOf \in Seq(Bytes) /\ Len(CtOf) = Len(in)
<1>1. /\ Len(in) \in Nat /\ Len(ad) \in Nat /\ Len(in) < CtrMod /\ Len(ad) + Len(in) < CtrMod
      /\ Len(ad) * BitsPerByte < CtrMod /\ Len(in) * BitsPerByte < CtrMod
      /\ icn \in {0} \X Rests /\ in \in Seq(Bytes) /\ ad \in Seq(Bytes) /\ CtrMod \in Nat \ {0}
  BY CallLens
<1>2. CtOf \in Seq(Bytes) /\ Len(CtOf) = Len(in)
  <2>1. op = "seal" => out = RefCt(icn, in)
    BY DEF IInv, AuthInv
  <2>2. RefCt(icn, in) \in Seq(Bytes) /\ Len(RefCt(icn, in)) = Len(in)
    BY <1>1, RefCtType
  <2> QED
    BY <1>1, <2>1, <2>2 DEF CtOf
<1>3. PICK A \in Nat, C \in Nat : A = BlocksOf(Len(ad)) /\ C = BlocksOf(Len(CtOf)) /\ A <= Len(ad) /\ C <= Len(in)
  BY <1>1, <1>2, BlocksBound
<1>4. A + C < CtrMod
  BY <1>1, <1>3
<1>5. AllIs(AllBlocks(ad, CtOf), ad, CtOf, A, C)
  BY <1>1, <1>2, <1>3, AllBlocksFacts
<1> QED
  BY <1>2, <1>3, <1>4, <1>5

\* One turn of process (mgm.go:366-413): the term of the next block is added.
LEMMA AuthBlockIInv == ASSUME IInv, AuthBlock PROVE IInv'
<1>1. /\ pc \in {"ad", "ct"} /\ done < Len(Data) /\ done \in Nat /\ Boundary(Data)
      /\ zi = <<<<1, icn[2]>>, Handled>> /\ sum = Terms(icn, AllBlocks(ad, CtOf), Handled)
      /\ out = IF op = "seal" THEN RefCt(icn, in) ELSE <<>>
  BY DEF AuthBlock, IInv, TypeOK, AuthInv
<1>2. PICK A \in Nat, C \in Nat :
        /\ A = BlocksOf(Len(ad)) /\ C = BlocksOf(Len(CtOf)) /\ A + C < CtrMod
        /\ AllIs(AllBlocks(ad, CtOf), ad, CtOf, A, C)
        /\ CtOf \in Seq(Bytes) /\ Len(CtOf) = Len(in)
  BY <1>1, AuthFacts
<1>3. PICK s \in Seq(Bytes) : s = Data /\ (pc = "ad" => s = ad) /\ (pc = "ct" => s = CtOf)
  BY <1>1, <1>2 DEF Data, IInv, TypeOK
<1>4. PICK k \in Nat, r \in 1..BlockSize :
        /\ done = k * BlockSize /\ r = Room(s) /\ done + r <= Len(s)
        /\ r = BlockSize \/ done + r = Len(s)
        /\ BlocksOf(done) = k /\ BlocksOf(done + r) = k + 1
        /\ done + r = Len(s) \/ (done + r) % BlockSize = 0
  BY <1>1, <1>3, TurnFacts
<1>5. k + 1 \in 1..BlocksOf(Len(s))
  <2>1. BlockSize \in Nat \ {0}
    BY Params DEF ParamFacts
  <2>2. PICK m \in Nat : m = BlocksOf(Len(s)) /\ Len(s) <= m * BlockSize /\ Len(s) \in Nat
    BY LenProperties, BlocksBound
  <2>3. ASSUME k >= m PROVE FALSE
    <3>1. k * BlockSize >= m * BlockSize
      BY <2>1, <2>3
    <3>2. done < Len(s) /\ done = k * BlockSize /\ k * BlockSize \in Nat /\ m * BlockSize \in Nat
      BY <1>1, <1>3, <1>4, <2>1
    <3> QED
      BY <2>2, <3>1, <3>2
  <2> QED
    BY <2>2, <2>3
<1>6. PICK h \in Nat, all \in {AllBlocks(ad, CtOf)} :
        /\ h = Handled /\ all = AllBlocks(ad, CtOf) /\ all[h + 1] = RefBlocks(s)[k + 1] /\ h + 1 <= A + C
  <2>1. CASE pc = "ad"
    <3>1. Handled = k
      BY <1>4, <2>1 DEF Handled
    <3>2. k + 1 \in 1..A
      BY <1>2, <1>3, <1>5, <2>1
    <3>3. AllBlocks(ad, CtOf)[k + 1] = RefBlocks(ad)[k + 1]
      BY <1>2, <3>2 DEF AllIs
    <3> QED
      BY <1>3, <2>1, <3>1, <3>2, <3>3
  <2>2. CASE pc = "ct"
    <3>1. Handled = A + k
      BY <1>2, <1>4, <2>2 DEF Handled
    <3>2. k + 1 \in 1..C /\ (A + k) + 1 = A + (k + 1)
      BY <1>2, <1>3, <1>5, <2>2
    <3>3. AllBlocks(ad, CtOf)[A + (k + 1)] = RefBlocks(CtOf)[k + 1]
      BY <1>2, <3>2 DEF AllIs
    <3>4. AllBlocks(ad, CtOf)[(A + k) + 1] = RefBlocks(CtOf)[k + 1] /\ A + k \in Nat
      BY <3>2, <3>3
    <3>5. (A + k) + 1 <= A + C
      BY <3>2
    <3> QED
      BY <1>3, <2>2, <3>1, <3>4, <3>5
  <2> QED
    BY <1>1, <2>1, <2>2
<1>7. PICK d : d = SubSeq(s, done + 1, done + r)
  OBVIOUS
<1>8. Len(d) = r /\ (IF r < BlockSize THEN Padded(d) ELSE d) = RefBlocks(s)[k + 1]
  <2>1. Len(d) = r /\ (IF r < BlockSize THEN Padded(d) ELSE d) = [i \in 1..BlockSize |-> ByteOf(s, k + 1, i)]
    <3>1. TurnIs(d, r, s, k + 1)
      BY <1>1, <1>4, <1>7, TurnBlock
    <3> QED
      BY <3>1 DEF TurnIs
  <2> QED
    BY <1>5, <2>1, RefBlocksFacts
<1>9. /\ Accumulate(RefBlocks(s)[k + 1]) /\ done' = done + r /\ zi' = incrL(zi)
  <2>1. Accumulate(IF Len(d) < BlockSize THEN Padded(d) ELSE d) /\ done' = done + Len(d)
    BY <1>3, <1>4, <1>7 DEF AuthBlock
  <2> QED
    BY <1>8, <2>1 DEF AuthBlock
<1>10. sum' = Terms(icn, all, h + 1)
  BY <1>1, <1>6, <1>9, AccumulateIs
<1>11. zi' = <<<<1, icn[2]>>, h + 1>>
  <2>0. CtrMod \in Nat \ {0}
    BY Params DEF ParamFacts
  <2>1. h + 1 < CtrMod
    <3>1. h + 1 <= A + C /\ A + C < CtrMod
      BY <1>2, <1>6
    <3> QED
      BY <2>0, <3>1
  <2>2. (h + 1) % CtrMod = h + 1
    BY <2>0, <2>1, SmallMod
  <2> QED
    BY <1>1, <1>6, <1>9, <2>2 DEF incrL, Incr
<1>12. /\ pc' = pc /\ op' = op /\ icn' = icn /\ in' = in /\ ad' = ad /\ recv' = recv /\ result' = result
       /\ sealed' = sealed /\ seeds' = seeds /\ out' = out /\ CtOf' = CtOf /\ Data' = Data
  BY DEF AuthBlock, CtOf, Data
<1>13. done' \in Nat /\ Boundary(Data)'
  <2>1. done' = done + r /\ done + r \in Nat
    BY <1>1, <1>9, Params DEF ParamFacts
  <2> QED
    BY <1>3, <1>4, <1>12, <2>1 DEF Boundary
<1>14. Handled' = h + 1
  <2>1. BlocksOf(done') = k + 1 /\ BlocksOf(done) = k
    BY <1>4, <1>9
  <2>2. CASE pc = "ad"
    BY <1>6, <1>12, <2>1, <2>2 DEF Handled
  <2>3. CASE pc = "ct"
    BY <1>2, <1>6, <1>12, <2>1, <2>3 DEF Handled
  <2> QED
    BY <1>1, <2>2, <2>3
<1>15. TypeOK' /\ CallInv'
  BY <1>12, <1>13 DEF IInv, TypeOK, CallInv
<1>16. AuthInv'
  BY <1>1, <1>6, <1>10, <1>11, <1>12, <1>13, <1>14 DEF AuthInv
<1>17. SealedInv' /\ SeedInv'
  BY <1>12 DEF IInv, SealedInv, SeedInv
<1> QED
  BY <1>1, <1>12, <1>15, <1>16, <1>17 DEF IInv, CryptInv, CompareInv, IdleInv

\* auth goes on with the ciphertext, and then with the length block.
LEMMA AuthDoneIInv == ASSUME IInv, AuthDone PROVE IInv'
<1>1. /\ pc \in {"ad", "ct"} /\ done = Len(Data) /\ done' = 0 /\ (pc' = IF pc = "ad" THEN "ct" ELSE "len")
      /\ zi = <<<<1, icn[2]>>, Handled>> /\ sum = Terms(icn, AllBlocks(ad, CtOf), Handled)
      /\ out = IF op = "seal" THEN RefCt(icn, in) ELSE <<>>
  BY DEF AuthDone, IInv, AuthInv
<1>2. PICK A \in Nat, C \in Nat :
        A = BlocksOf(Len(ad)) /\ C = BlocksOf(Len(CtOf)) /\ CtOf \in Seq(Bytes)
  BY <1>1, AuthFacts
<1>3. /\ op' = op /\ icn' = icn /\ in' = in /\ ad' = ad /\ recv' = recv /\ result' = result /\ zi' = zi
      /\ sum' = sum /\ sealed' = sealed /\ seeds' = seeds /\ out' = out /\ CtOf' = CtOf
  BY DEF AuthDone, CtOf
<1>4. Handled' = Handled /\ (pc' = "ct" => Data' = CtOf')
  <2>1. CASE pc = "ad"
    <3>1. Handled = A /\ Handled' = A + BlocksOf(0)
      BY <1>1, <1>2, <1>3, <2>1 DEF Handled, Data
    <3>2. Handled' = Handled
      BY <3>1, NoBlocks
    <3> QED
      BY <1>1, <2>1, <3>2 DEF Data
  <2>2. CASE pc = "ct"
    BY <1>1, <1>2, <1>3, <2>2 DEF Handled, Data
  <2> QED
    BY <1>1, <2>1, <2>2
<1>5. TypeOK' /\ CallInv'
  BY <1>1, <1>3 DEF IInv, TypeOK, CallInv
<1>6. pc' = "ct" => Boundary(Data)'
  BY <1>1, <1>2, <1>3, <1>4, BoundaryZero DEF Boundary
<1>7. AuthInv'
  BY <1>1, <1>3, <1>4, <1>6 DEF AuthInv
<1>8. SealedInv' /\ SeedInv'
  BY <1>3 DEF IInv, SealedInv, SeedInv
<1> QED
  BY <1>1, <1>5, <1>7, <1>8 DEF IInv, CryptInv, CompareInv, IdleInv

\* The length block ends the sum, which is then the tag of the RFC (mgm.go:415-432).
LEMMA TaggedIInv == ASSUME IInv, Tagged PROVE IInv'
<1>1. /\ pc = "len" /\ done = 0 /\ op \in {"seal", "open"}
      /\ zi = <<<<1, icn[2]>>, Handled>> /\ sum = Terms(icn, AllBlocks(ad, CtOf), Handled)
      /\ out = IF op = "seal" THEN RefCt(icn, in) ELSE <<>>
  BY DEF Tagged, IInv, AuthInv, CallInv
<1>2. PICK A \in Nat, C \in Nat :
        /\ A = BlocksOf(Len(ad)) /\ C = BlocksOf(Len(CtOf))
        /\ AllIs(AllBlocks(ad, CtOf), ad, CtOf, A, C)
  BY <1>1, AuthFacts
<1>3. PICK h \in Nat, all \in {AllBlocks(ad, CtOf)} : h = A + C /\ all = AllBlocks(ad, CtOf)
  BY <1>2
<1>4. h = Handled /\ Len(all) = h + 1 /\ all[h + 1] = lenB(Len(ad), Len(CtOf))
  BY <1>1, <1>2, <1>3 DEF Handled, AllIs
<1>5. Accumulate(all[h + 1]) /\ tag' = sum'
  BY <1>4 DEF Tagged
<1>6. sum' = Terms(icn, all, h + 1)
  BY <1>1, <1>3, <1>4, <1>5, AccumulateIs
<1>7. tag' = RefTag(icn, ad, CtOf) /\ sum' = tag'
  BY <1>3, <1>4, <1>5, <1>6 DEF RefTag
<1>8. /\ op' = op /\ icn' = icn /\ in' = in /\ ad' = ad /\ recv' = recv /\ out' = out /\ seeds' = seeds
      /\ done' = done
  BY DEF Tagged
<1>9. SeedInv'
  BY <1>8 DEF IInv, SeedInv
<1>10. CASE op = "seal"
  <2>1. /\ pc' = "idle" /\ result' = "ok" /\ CtOf = out
        /\ sealed' = [nonce |-> icn, ad |-> ad, pt |-> in, ct |-> out, tag |-> sum']
    BY <1>10 DEF Tagged, CtOf
  <2>2. TypeOK' /\ CallInv'
    BY <1>1, <1>8, <1>10, <2>1 DEF IInv, TypeOK, CallInv
  <2>3. IdleInv'
    BY <1>1, <1>7, <1>8, <1>10, <2>1 DEF IdleInv
  <2>4. /\ sealed'.nonce = icn /\ sealed'.ad = ad /\ sealed'.pt = in /\ sealed'.ct = out
        /\ sealed'.tag = RefTag(icn, ad, out)
    BY <1>7, <2>1
  <2>5. icn \in {0} \X Rests /\ ad \in Seq(Bytes) /\ in \in Seq(Bytes) /\ ValidLengths(Len(ad), Len(in))
    BY <1>1 DEF IInv, TypeOK, CallInv
  <2>6. SealedInv'
    BY <1>1, <1>10, <2>4, <2>5 DEF SealedInv
  <2> QED
    BY <1>9, <2>1, <2>2, <2>3, <2>6 DEF IInv, CryptInv, AuthInv, CompareInv
<1>11. CASE op = "open"
  <2>1. pc' = "compare" /\ result' = result /\ sealed' = sealed /\ CtOf = in
    BY <1>11 DEF Tagged, CtOf
  <2>2. TypeOK' /\ CallInv'
    BY <1>1, <1>8, <1>11, <2>1 DEF IInv, TypeOK, CallInv
  <2>3. CompareInv'
    BY <1>1, <1>7, <1>8, <1>11, <2>1 DEF CompareInv
  <2>4. SealedInv'
    BY <2>1 DEF IInv, SealedInv
  <2> QED
    BY <1>9, <2>1, <2>2, <2>3, <2>4 DEF IInv, CryptInv, AuthInv, IdleInv
<1> QED
  BY <1>1, <1>10, <1>11

\* Open goes on only with the tag of the RFC (mgm.go:196-203).
LEMMA CompareIInv == ASSUME IInv, Compare PROVE IInv'
<1>1. /\ pc = "compare" /\ op = "open" /\ out = <<>> /\ done = 0 /\ tag = RefTag(icn, ad, in)
      /\ icn \in {0} \X Rests /\ in \in Seq(Bytes)
  BY DEF Compare, IInv, CompareInv, CallInv, TypeOK
<1>2. /\ op' = op /\ icn' = icn /\ in' = in /\ ad' = ad /\ recv' = recv /\ out' = out /\ done' = done
      /\ sealed' = sealed
  BY DEF Compare
<1>3. SealedInv'
  BY <1>2 DEF IInv, SealedInv
<1>4. CASE tag = recv
  <2>1. pc' = "crypt" /\ StartCrypt(icn) /\ result' = result
    BY <1>4 DEF Compare
  <2>2. TypeOK' /\ CallInv'
    BY <1>1, <1>2, <2>1 DEF IInv, TypeOK, CallInv
  <2>3. SeedInv'
    BY <1>1, <2>1, SeedAdded DEF IInv
  <2>4. CryptInv'
    <3>1. yi' = <<<<0, icn[2]>>, BlocksOf(0)>>
      BY <2>1, NoBlocks DEF StartCrypt
    <3>2. Boundary(in)'
      BY <1>1, <1>2, BoundaryZero DEF Boundary
    <3> QED
      BY <1>1, <1>2, <1>4, <3>1, <3>2 DEF CryptInv
  <2> QED
    BY <1>3, <2>1, <2>2, <2>3, <2>4 DEF IInv, AuthInv, CompareInv, IdleInv
<1>5. CASE tag # recv
  <2>1. pc' = "idle" /\ result' = "error" /\ seeds' = seeds
    BY <1>5 DEF Compare
  <2>2. TypeOK' /\ CallInv'
    BY <1>1, <1>2, <2>1 DEF IInv, TypeOK, CallInv
  <2>3. SeedInv'
    BY <2>1 DEF IInv, SeedInv
  <2>4. IdleInv'
    BY <1>1, <1>2, <1>5, <2>1 DEF IdleInv
  <2> QED
    BY <1>3, <2>1, <2>2, <2>3, <2>4 DEF IInv, CryptInv, AuthInv, CompareInv
<1> QED
  BY <1>4, <1>5

\* Every step of a call.
LEMMA NextIInv == IInv /\ [Next]_vars => IInv'
<1> SUFFICES ASSUME IInv, [Next]_vars PROVE IInv'
  OBVIOUS
<1>1. CASE \E n \in Nonces, pt, a \in Messages : Seal(n, pt, a)
  BY <1>1, SealIInv
<1>2. CASE \E n \in Nonces, a \in Messages : \E c \in Received :
             Open(n, c, IF sealed = <<>> THEN {} ELSE sealed.tag, a)
  BY <1>2, OpenIInv
<1>3. CASE \E n \in Nonces : OpenShort(n)
  BY <1>3, OpenShortIInv
<1>4. CASE CryptBlock \/ CryptDone
  BY <1>4, CryptBlockIInv, CryptDoneIInv
<1>5. CASE AuthBlock \/ AuthDone
  BY <1>5, AuthBlockIInv, AuthDoneIInv
<1>6. CASE Tagged \/ Compare
  BY <1>6, TaggedIInv, CompareIInv
<1>7. CASE UNCHANGED vars
  <2>1. TypeOK' /\ CallInv' /\ CompareInv' /\ IdleInv' /\ SealedInv' /\ SeedInv'
    BY <1>7 DEF vars, IInv, TypeOK, CallInv, CompareInv, IdleInv, SealedInv, SeedInv
  <2>2. CryptInv' /\ AuthInv'
    BY <1>7 DEF vars, IInv, CryptInv, AuthInv, Boundary, Handled, Data, CtOf
  <2> QED
    BY <2>1, <2>2 DEF IInv
<1> QED
  BY <1>1, <1>2, <1>3, <1>4, <1>5, <1>6, <1>7 DEF Next

\* At every step of every call, whatever calls came before, what has been
\* written, counted and summed is what RFC 9058 says about the bytes handled so
\* far (mgm.go:135-205, 330-442).
THEOREM InductiveInvariant == Spec => []IInv
  BY InitIInv, NextIInv, PTL DEF Spec

\* Seal returns the ciphertext and the tag of RFC 9058 for its arguments alone,
\* whatever the scratch buffers held (mgm.go:135-162).
THEOREM SealsAreRFC == Spec => []SealIsRFC
<1>1. IInv => SealIsRFC
  BY DEF IInv, IdleInv, SealIsRFC
<1> QED
  BY <1>1, InductiveInvariant, PTL

\* The length block alone makes a tag of lengths that the guards accept nonempty.
LEMMA TagNotEmpty ==
  ASSUME NEW n, NEW a \in Seq(Bytes), NEW c \in Seq(Bytes), ValidLengths(Len(a), Len(c))
  PROVE  RefTag(n, a, c) # {}
<1>1. Len(a) \in Nat /\ Len(c) \in Nat
  BY LenProperties
<1>2. Len(a) + Len(c) > 0 /\ Len(a) * BitsPerByte < CtrMod /\ Len(c) * BitsPerByte < CtrMod
  BY <1>1, ValidSmall
<1>3. PICK A \in Nat, C \in Nat : A = BlocksOf(Len(a)) /\ C = BlocksOf(Len(c))
  BY <1>1, BlocksBound
<1>4. AllIs(AllBlocks(a, c), a, c, A, C)
  BY <1>2, <1>3, AllBlocksFacts
<1>5. PICK h \in Nat \ {0}, all \in {AllBlocks(a, c)} : h = A + C + 1 /\ all = AllBlocks(a, c)
  BY <1>3
<1>6. Len(all) = h /\ all[h] = lenB(Len(a), Len(c))
  BY <1>4, <1>5 DEF AllIs
<1>7. ~IsZero(all[h])
  BY <1>1, <1>2, <1>6, LenBNotZero
<1>8. h \in Nat /\ h \in 1..h
  OBVIOUS
<1>9. Term(n, h, all[h]) \in Terms(n, all, h)
  BY <1>7, <1>8, TermsIff
<1>10. RefTag(n, a, c) = Terms(n, all, h)
  BY <1>5, <1>6 DEF RefTag
<1> QED
  BY <1>9, <1>10

\* Open succeeds exactly with the tag of its nonce, additional data and
\* ciphertext, and then returns what Seal was given (mgm.go:167-205).
THEOREM OpenInverts == Spec => []OpenInvertsSeal
<1>1. ASSUME IInv PROVE OpenInvertsSeal
  <2> SUFFICES ASSUME pc = "idle", op = "open"
               PROVE  /\ result = "ok" <=> recv = RefTag(icn, ad, in)
                      /\ result = "ok" => RefCt(icn, out) = in
                      /\ result = "ok" /\ icn = sealed.nonce /\ ad = sealed.ad =>
                           in = sealed.ct /\ out = sealed.pt
    BY DEF OpenInvertsSeal
  <2>1. Len(in) < CtrMod /\ icn \in {0} \X Rests /\ in \in Seq(Bytes) /\ ad \in Seq(Bytes)
    BY <1>1, CallLens
  <2>2. ValidLengths(Len(ad), Len(in)) /\ recv = IF sealed = <<>> THEN {} ELSE sealed.tag
    BY <1>1 DEF IInv, CallInv
  <2>3. IF recv = RefTag(icn, ad, in) THEN result = "ok" /\ out = RefCt(icn, in)
        ELSE result = "error" /\ out = <<>>
    BY <1>1 DEF IInv, IdleInv
  <2>4. result = "ok" <=> recv = RefTag(icn, ad, in)
    BY <2>3
  <2>5. ASSUME result = "ok" PROVE RefCt(icn, out) = in
    <3>1. out = RefCt(icn, in)
      BY <2>3, <2>5
    <3> QED
      BY <2>1, <3>1, RefCtTwice
  <2>6. ASSUME result = "ok", icn = sealed.nonce, ad = sealed.ad
        PROVE  in = sealed.ct /\ out = sealed.pt
    <3>1. recv = RefTag(icn, ad, in) /\ out = RefCt(icn, in)
      BY <2>3, <2>6
    <3>2. recv # {}
      BY <2>1, <2>2, <3>1, TagNotEmpty
    <3>3. /\ sealed # <<>> /\ recv = sealed.tag /\ sealed.pt \in Seq(Bytes)
          /\ ValidLengths(Len(ad), Len(sealed.pt)) /\ sealed.ct = RefCt(icn, sealed.pt)
          /\ sealed.tag = RefTag(icn, ad, sealed.ct)
      BY <1>1, <2>2, <2>6, <3>2 DEF IInv, SealedInv
    <3>4. PICK pt \in Seq(Bytes), ct \in {sealed.ct} : pt = sealed.pt /\ ct = sealed.ct
      BY <3>3
    <3>5. Len(pt) < CtrMod
      <4>1. Len(ad) \in Nat /\ Len(pt) \in Nat /\ CtrMod \in Nat
        BY <2>1, Params, LenProperties DEF ParamFacts
      <4>2. Len(ad) + Len(pt) < CtrMod
        BY <3>3, <3>4, <4>1, ValidSmall
      <4> QED
        BY <4>1, <4>2
    <3>6. ct \in Seq(Bytes) /\ Len(ct) = Len(pt) /\ ct = RefCt(icn, pt)
      BY <2>1, <3>3, <3>4, <3>5, RefCtType
    <3>7. in = ct
      <4>1. RefTag(icn, ad, in) = RefTag(icn, ad, ct) /\ ValidLengths(Len(ad), Len(ct))
        BY <3>1, <3>3, <3>4, <3>6
      <4> QED
        BY <2>1, <2>2, <3>6, <4>1, TagInjective
    <3>8. out = pt
      BY <2>1, <3>1, <3>5, <3>6, <3>7, RefCtTwice
    <3> QED
      BY <3>4, <3>7, <3>8
  <2> QED
    BY <2>4, <2>5, <2>6
<1> QED
  BY <1>1, InductiveInvariant, PTL

\* No other additional data and text that Seal accepts have the tag of the
\* message sealed last: zero padding hides nothing (mgm.go:366-427).
THEOREM TagsSeparate == Spec => []TagSeparates
<1>1. ASSUME IInv PROVE TagSeparates
  <2> SUFFICES ASSUME sealed # <<>>, NEW a \in Messages, NEW c \in Messages,
                      ValidLengths(Len(a), Len(c)),
                      RefTag(sealed.nonce, Plain(a), Plain(c)) = RefTag(sealed.nonce, sealed.ad, sealed.pt)
               PROVE  Plain(a) = sealed.ad /\ Plain(c) = sealed.pt
    BY DEF TagSeparates
  <2>1. /\ sealed.ad \in Seq(Bytes) /\ sealed.pt \in Seq(Bytes)
        /\ ValidLengths(Len(sealed.ad), Len(sealed.pt))
    BY <1>1 DEF IInv, SealedInv
  <2>2. /\ Plain(a) \in Seq(Bytes) /\ Plain(c) \in Seq(Bytes)
        /\ ValidLengths(Len(Plain(a)), Len(Plain(c)))
    BY PlainFacts
  <2> QED
    BY <2>1, <2>2, TagInjective
<1> QED
  BY <1>1, InductiveInvariant, PTL

\* A call that fails has written nothing to dst (mgm.go:167-203).
THEOREM NothingIsReleased == Spec => []NothingReleased
<1>1. IInv => NothingReleased
  BY DEF IInv, TypeOK, CallInv, IdleInv, NothingReleased
<1> QED
  BY <1>1, InductiveInvariant, PTL

\* Messages under two nonces are encrypted with keystreams of two seeds (mgm.go:434-442).
THEOREM NoncesAreSeparate == Spec => []NoncesSeparate
<1>1. IInv => NoncesSeparate
  BY DEF IInv, SeedInv, NoncesSeparate
<1> QED
  BY <1>1, InductiveInvariant, PTL
=============================================================================
