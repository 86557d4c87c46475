-------------------------- MODULE GostKeys_proofs ---------------------------
(***************************************************************************)
(* Montgomery arithmetic and projective coordinates, signatures, key       *)
(* agreement and scalar multiplication, for every width of limbs, bytes    *)
(* and windows.                                                            *)
(*                                                                         *)
(* What the field computes is proved (FieldLaw, CoordinateLaw).  Three     *)
(* laws of elliptic curves are hypotheses of the theorems about the calls, *)
(* and ArithmeticExact checks them on the curves of the run: Add is a      *)
(* group operation (GroupLaw), in which q and the cofactor are what they   *)
(* are registered as (OrderLaw), and the complete formulas compute it      *)
(* (FormulaLaw).                                                           *)
(***************************************************************************)
EXTENDS GostKeys, NaturalLemmas, SequenceTheorems

-----------------------------------------------------------------------------
(* Powers of two *)

LEMMA PowerFacts ==
  /\ MaxBits \in Nat /\ 2^0 = 1
  /\ \A n \in 0..MaxBits : 2^n \in Nat \ {0} /\ 2^(n + 1) = 2 * 2^n
<1>1. LimbBits * Limbs \in Nat
  BY LimbAssumption
<1> QED
  BY <1>1, PowerAssumption DEF MaxBits

LEMMA PowerType ==
  ASSUME NEW n \in 0..MaxBits
  PROVE  2^n \in Nat \ {0} /\ n \in Nat
  BY PowerFacts

\* Exponents add up.
LEMMA PowerSum ==
  ASSUME NEW m \in Nat, NEW n \in Nat, m + n <= MaxBits
  PROVE  2^(m + n) = 2^m * 2^n
<1> DEFINE good == {i \in 0..n : 2^(m + i) = 2^m * 2^i}
<1>0. MaxBits \in Nat /\ m \in 0..MaxBits
  BY PowerFacts
<1>1. 0 \in good
  <2>1. 2^m \in Nat /\ 2^0 = 1 /\ m + 0 = m
    BY <1>0, PowerFacts
  <2>2. 2^(m + 0) = 2^m
    BY <2>1
  <2>3. 2^m * 2^0 = 2^m
    BY <2>1
  <2> QED
    BY <2>2, <2>3
<1>2. ASSUME NEW i \in 0..(n - 1), i \in good PROVE i + 1 \in good
  <2>1. /\ i \in 0..MaxBits /\ m + i \in 0..MaxBits /\ i + 1 \in 0..n
        /\ m + (i + 1) = (m + i) + 1
    BY <1>0
  <2>2. PICK a \in Nat, b \in Nat, e \in Nat : a = 2^m /\ b = 2^i /\ e = 2^(m + i)
    BY <1>0, <2>1, PowerType
  <2>3. 2^(i + 1) = 2 * b /\ 2^((m + i) + 1) = 2 * e
    BY <2>1, <2>2, PowerFacts
  <2>4. e = a * b
    BY <1>2, <2>2
  <2>5. 2 * e = a * (2 * b)
    BY <2>4
  <2>6. 2^(m + (i + 1)) = 2^m * 2^(i + 1)
    BY <2>1, <2>2, <2>3, <2>5
  <2> QED
    BY <2>1, <2>6
<1>3. 0..n \subseteq good
  <2> HIDE DEF good
  <2> QED
    BY <1>1, <1>2, InductionUpTo
<1>4. n \in 0..n
  OBVIOUS
<1> QED
  BY <1>3, <1>4

\* BitLen is the number of bits: the top one is set.
LEMMA BitLenIs ==
  ASSUME NEW k \in Nat, k < 2^MaxBits
  PROVE  /\ BitLen(k) \in 0..MaxBits /\ k < 2^BitLen(k)
         /\ BitLen(k) = 0 \/ k >= 2^(BitLen(k) - 1)
<1> DEFINE above == {n \in 0..MaxBits : k < 2^n}
           IsLen(n) == k < 2^n /\ (n = 0 \/ k >= 2^(n - 1))
<1>1. MaxBits \in above /\ above \subseteq Nat
  BY PowerFacts
<1>2. PICK n \in above : \A j \in above : n <= j
  <2> HIDE DEF above
  <2> QED
    BY <1>1, LeastNatural
<1>3. n = 0 \/ k >= 2^(n - 1)
  <2> SUFFICES ASSUME n # 0 PROVE k >= 2^(n - 1)
    OBVIOUS
  <2>1. n - 1 \in 0..MaxBits /\ n - 1 \notin above
    BY <1>2, PowerFacts
  <2>2. 2^(n - 1) \in Nat
    BY <2>1, PowerFacts
  <2> QED
    BY <2>1, <2>2
<1>5. IsLen(n)
  BY <1>2, <1>3
<1>6. PICK l : l = BitLen(k)
  OBVIOUS
<1>7. l \in 0..MaxBits /\ IsLen(l)
  <2>1. l = CHOOSE i \in 0..MaxBits : IsLen(i)
    BY <1>6 DEF BitLen
  <2> HIDE DEF IsLen
  <2> QED
    BY <1>2, <1>5, <2>1
<1> QED
  BY <1>6, <1>7

-----------------------------------------------------------------------------
(* The group *)

\* Repeated addition, without a bound.
Times(c, k, pt) ==
  (CHOOSE m \in [Nat -> Points(c)] : m[0] = Infinity /\ \A n \in Nat : m[n + 1] = Add(c, m[n], pt))[k]

LEMMA Neutral ==
  ASSUME NEW c, NEW s
  PROVE  /\ Add(c, Infinity, s) = s /\ Add(c, s, Infinity) = s
         /\ Infinity \in Points(c) /\ Double(c, Infinity) = Infinity
  BY DEF Add, Points, Double

LEMMA SumIn ==
  ASSUME NEW c, GroupLaw(c), NEW s \in Points(c), NEW t \in Points(c)
  PROVE  Add(c, s, t) \in Points(c) /\ Add(c, s, t) = Add(c, t, s)
  BY DEF GroupLaw

LEMMA Associative ==
  ASSUME NEW c, GroupLaw(c), NEW s \in Points(c), NEW t \in Points(c), NEW u \in Points(c)
  PROVE  Add(c, Add(c, s, t), u) = Add(c, s, Add(c, t, u))
  BY DEF GroupLaw

LEMMA TimesNext ==
  ASSUME NEW c, GroupLaw(c), NEW pt \in Points(c)
  PROVE  /\ Times(c, 0, pt) = Infinity
         /\ \A k \in Nat : /\ Times(c, k, pt) \in Points(c)
                           /\ Times(c, k + 1, pt) = Add(c, Times(c, k, pt), pt)
<1> DEFINE IsTimes(m) == m[0] = Infinity /\ \A n \in Nat : m[n + 1] = Add(c, m[n], pt)
           step == [s \in Points(c) |-> Add(c, s, pt)]
<1>1. step \in [Points(c) -> Points(c)] /\ Infinity \in Points(c)
  BY SumIn, Neutral
<1>2. PICK f \in [Nat -> Points(c)] : f[0] = Infinity /\ \A n \in Nat : f[n + 1] = step[f[n]]
  <2> HIDE DEF step
  <2> QED
    BY <1>1, RecursionNat
<1>3. IsTimes(f)
  BY <1>2
<1>4. PICK m \in [Nat -> Points(c)] : m = (CHOOSE g \in [Nat -> Points(c)] : IsTimes(g)) /\ IsTimes(m)
  <2> HIDE DEF IsTimes
  <2> QED
    BY <1>3
<1>5. \A k : Times(c, k, pt) = m[k]
  BY <1>4 DEF Times
<1> QED
  BY <1>4, <1>5

LEMMA TimesIs ==
  ASSUME NEW c, GroupLaw(c), NEW pt \in Points(c), NEW k \in Nat
  PROVE  /\ Times(c, k, pt) \in Points(c) /\ Times(c, k + 1, pt) = Add(c, Times(c, k, pt), pt)
         /\ Times(c, 0, pt) = Infinity /\ Times(c, 1, pt) = pt
<1>1. Times(c, 0 + 1, pt) = Add(c, Times(c, 0, pt), pt) /\ Times(c, 0, pt) = Infinity
  BY TimesNext
<1>2. Times(c, 1, pt) = pt
  BY <1>1, Neutral
<1> QED
  BY <1>1, <1>2, TimesNext

\* Multiples add up.
LEMMA TimesSum ==
  ASSUME NEW c, GroupLaw(c), NEW pt \in Points(c), NEW k \in Nat, NEW l \in Nat
  PROVE  Times(c, k + l, pt) = Add(c, Times(c, k, pt), Times(c, l, pt))
<1> DEFINE good == {i \in Nat : Times(c, k + i, pt) = Add(c, Times(c, k, pt), Times(c, i, pt))}
<1>1. 0 \in good
  <2>1. Times(c, 0, pt) = Infinity /\ k + 0 = k
    BY TimesIs
  <2> QED
    BY <2>1, Neutral
<1>2. ASSUME NEW i \in Nat, i \in good PROVE i + 1 \in good
  <2>1. PICK a \in Points(c), b \in Points(c) : a = Times(c, k, pt) /\ b = Times(c, i, pt)
    BY TimesIs
  <2>2. k + i \in Nat /\ k + (i + 1) = (k + i) + 1
    OBVIOUS
  <2>3. Times(c, k + (i + 1), pt) = Add(c, Times(c, k + i, pt), pt)
    BY <2>2, TimesIs
  <2>4. Times(c, k + i, pt) = Add(c, a, b)
    BY <1>2, <2>1
  <2>5. Times(c, i + 1, pt) = Add(c, b, pt)
    BY <2>1, TimesIs
  <2>6. Add(c, Add(c, a, b), pt) = Add(c, a, Add(c, b, pt))
    BY Associative
  <2> QED
    BY <2>1, <2>3, <2>4, <2>5, <2>6
<1>3. Nat \subseteq good
  <2> HIDE DEF good
  <2> QED
    BY <1>1, <1>2, InductionNat
<1> QED
  BY <1>3

\* Multiples of multiples.
LEMMA TimesTimes ==
  ASSUME NEW c, GroupLaw(c), NEW pt \in Points(c), NEW k \in Nat, NEW l \in Nat
  PROVE  Times(c, l, Times(c, k, pt)) = Times(c, k * l, pt)
<1> DEFINE good == {i \in Nat : Times(c, i, Times(c, k, pt)) = Times(c, k * i, pt)}
<1>0. PICK a \in Points(c) : a = Times(c, k, pt)
  BY TimesIs
<1>1. 0 \in good
  <2>1. Times(c, 0, pt) = Infinity /\ k * 0 = 0 /\ Times(c, 0, a) = Infinity
    BY TimesIs
  <2> QED
    BY <1>0, <2>1
<1>2. ASSUME NEW i \in Nat, i \in good PROVE i + 1 \in good
  <2>1. PICK n \in Nat : n = k * i
    OBVIOUS
  <2>2. k * (i + 1) = n + k
    BY <2>1
  <2>3. Times(c, i + 1, a) = Add(c, Times(c, i, a), a)
    BY TimesIs
  <2>4. Times(c, i, a) = Times(c, n, pt)
    BY <1>0, <1>2, <2>1
  <2>5. Times(c, n + k, pt) = Add(c, Times(c, n, pt), a)
    BY <1>0, TimesSum
  <2> QED
    BY <1>0, <2>2, <2>3, <2>4, <2>5
<1>3. Nat \subseteq good
  <2> HIDE DEF good
  <2> QED
    BY <1>1, <1>2, InductionNat
<1> QED
  BY <1>3

LEMMA TimesInfinity ==
  ASSUME NEW c, GroupLaw(c), NEW k \in Nat
  PROVE  Times(c, k, Infinity) = Infinity
<1>1. Infinity \in Points(c)
  BY Neutral
<1>2. Times(c, 0, Infinity) = Infinity /\ 0 * k = 0
  BY <1>1, TimesIs
<1>3. Times(c, k, Times(c, 0, Infinity)) = Times(c, 0 * k, Infinity)
  BY <1>1, TimesTimes
<1> QED
  BY <1>2, <1>3

\* Doubling is adding a point to itself: p is odd.
LEMMA DoubleIs ==
  ASSUME NEW c \in Curves, NEW s \in Points(c)
  PROVE  Double(c, s) = Add(c, s, s)
<1>1. CASE s = Infinity
  BY <1>1, Neutral
<1>2. CASE s # Infinity
  <2>1. PICK p \in Nat : p = c.p /\ p % 2 = 1
    BY CurveAssumption
  <2>2. PICK x \in 0..(p - 1), y \in 0..(p - 1) : s = <<x, y>>
    BY <1>2, <2>1 DEF Points
  <2>3. s[1] = x /\ s[2] = y
    BY <2>2
  <2>4. y # 0 => (y + y) % p # 0
    <3> SUFFICES ASSUME y # 0, (y + y) % p = 0 PROVE FALSE
      OBVIOUS
    <3>1. p \in Nat \ {0} /\ y + y \in Nat
      BY <2>2
    <3>2. PICK i \in Nat : y + y = i * p
      BY <3>1, MultipleIff
    <3>3. i = 1
      <4>1. i # 0
        BY <3>1, <3>2
      <4>2. ASSUME i >= 2 PROVE FALSE
        <5>1. i * p >= 2 * p
          BY <3>1, <4>2
        <5> QED
          BY <2>2, <3>2, <5>1
      <4> QED
        BY <4>1, <4>2
    <3>4. p = y + y
      BY <3>1, <3>2, <3>3
    <3>5. p = y * 2 + 0 /\ 0 \in 0..(2 - 1) /\ 2 \in Nat \ {0} /\ y \in Nat
      BY <3>4
    <3>6. p % 2 = 0
      BY <3>5, DivModIs
    <3> QED
      BY <2>1, <3>6
  <2>5. y = 0 => (y + y) % p = 0
    <3>1. p \in Nat \ {0}
      BY <2>2
    <3> QED
      BY <3>1
  <2> QED
    BY <1>2, <2>1, <2>3, <2>4, <2>5 DEF Add, Double
<1> QED
  BY <1>1, <1>2

-----------------------------------------------------------------------------
(* Scalar multiplication *)

\* Dropping one bit more.
LEMMA BitDown ==
  ASSUME NEW k \in Nat, NEW i \in 0..(MaxBits - 1)
  PROVE  /\ k \div 2^i \in Nat /\ k \div 2^(i + 1) \in Nat /\ Bit(k, i) \in {0, 1}
         /\ k \div 2^i = 2 * (k \div 2^(i + 1)) + Bit(k, i)
<1>1. PICK w \in Nat \ {0} : w = 2^i /\ 2^(i + 1) = 2 * w
  <2>1. i \in 0..MaxBits
    BY PowerFacts
  <2> QED
    BY <2>1, PowerFacts
<1>2. PICK a \in Nat, r \in 0..(w - 1) : k = a * w + r /\ k \div w = a
  BY DivModNames
<1>3. PICK b \in Nat, t \in 0..(2 - 1) : a = b * 2 + t /\ a % 2 = t
  <2>1. 2 \in Nat \ {0}
    OBVIOUS
  <2> QED
    BY <2>1, DivModNames
<1>4. PICK v \in Nat \ {0} : v = 2 * w
  OBVIOUS
<1>5. PICK u \in Nat : u = t * w + r
  OBVIOUS
<1>6. u \in 0..(v - 1)
  <2>1. t * w = 0 \/ t * w = w
    BY <1>3
  <2> QED
    BY <1>4, <1>5, <2>1
<1>7. k = b * v + u
  <2>1. a * w = (b * 2) * w + t * w
    BY <1>3
  <2>2. (b * 2) * w = b * v
    BY <1>4
  <2> QED
    BY <1>2, <1>5, <2>1, <2>2
<1>8. k \div v = b
  BY <1>6, <1>7, DivModIs
<1> QED
  BY <1>1, <1>2, <1>3, <1>4, <1>8 DEF Bit

\* The steps of ScalarMult over n bits.
AccStep(c, k, pt, j, s) == IF Bit(k, j) = 1 THEN Add(c, Double(c, s), pt) ELSE Double(c, s)
AccEqn(c, k, pt, n, f) ==
  f = [i \in 0..n |-> IF i = 0 THEN Infinity ELSE AccStep(c, k, pt, n - i, f[i - 1])]

LEMMA AccExists ==
  ASSUME NEW c \in Curves, GroupLaw(c), NEW k, NEW pt \in Points(c), NEW n \in Nat
  PROVE  \E f \in [0..n -> Points(c)] : AccEqn(c, k, pt, n, f)
<1> DEFINE step == [i \in 1..n |-> [s \in Points(c) |-> AccStep(c, k, pt, n - i, s)]]
<1>1. ASSUME NEW j, NEW s \in Points(c) PROVE AccStep(c, k, pt, j, s) \in Points(c)
  <2>1. Double(c, s) \in Points(c)
    BY DoubleIs, SumIn
  <2> QED
    BY <2>1, SumIn DEF AccStep
<1>2. step \in [1..n -> [Points(c) -> Points(c)]]
  BY <1>1
<1>3. PICK f \in [0..n -> Points(c)] : f[0] = Infinity /\ \A i \in 1..n : f[i] = step[i][f[i - 1]]
  <2> HIDE DEF step
  <2>1. Recursive(Points(c), Infinity, n, step) # {}
    BY <1>2, Neutral, RecursionUpTo
  <2> QED
    BY <2>1 DEF Recursive
<1>4. ASSUME NEW i \in 0..n
      PROVE  f[i] = IF i = 0 THEN Infinity ELSE AccStep(c, k, pt, n - i, f[i - 1])
  <2>1. CASE i = 0
    BY <1>3, <2>1
  <2>2. CASE i # 0
    <3>1. i \in 1..n /\ i - 1 \in 0..n /\ f[i - 1] \in Points(c)
      BY <1>3, <2>2
    <3> QED
      BY <1>3, <2>2, <3>1
  <2> QED
    BY <2>1, <2>2
<1> QED
  BY <1>4 DEF AccEqn

\* After i steps the accumulator is the multiple by the first i bits.
LEMMA AccIs ==
  ASSUME NEW c \in Curves, GroupLaw(c), NEW k \in Nat, NEW pt \in Points(c), NEW n \in 0..MaxBits,
         k < 2^n, NEW f, AccEqn(c, k, pt, n, f)
  PROVE  f[n] = Times(c, k, pt)
<1> DEFINE good == {i \in 0..n : f[i] = Times(c, k \div 2^(n - i), pt)}
<1>0. n \in Nat /\ MaxBits \in Nat
  BY PowerFacts
<1>1. 0 \in good
  <2>1. 2^n \in Nat \ {0} /\ k = 0 * 2^n + k
    BY PowerFacts
  <2>2. PICK w \in Nat \ {0} : w = 2^n /\ k \in 0..(w - 1) /\ k = 0 * w + k /\ 0 \in Nat
    BY <2>1
  <2>3. k \div w = 0
    BY <2>2, DivModIs
  <2>4. k \div 2^(n - 0) = 0
    BY <1>0, <2>2, <2>3
  <2>5. f[0] = Infinity
    BY <1>0 DEF AccEqn
  <2>6. Times(c, 0, pt) = Infinity
    BY TimesIs
  <2> QED
    BY <1>0, <2>4, <2>5, <2>6
<1>2. ASSUME NEW i \in 0..(n - 1), i \in good PROVE i + 1 \in good
  <2>1. PICK j \in 0..(MaxBits - 1) : j = n - (i + 1) /\ j + 1 = n - i
    BY <1>0
  <2>2. PICK a \in Nat, b \in Nat, t \in {0, 1} :
          a = k \div 2^j /\ b = k \div 2^(j + 1) /\ t = Bit(k, j) /\ a = 2 * b + t
    <3>1. /\ k \div 2^j \in Nat /\ k \div 2^(j + 1) \in Nat /\ Bit(k, j) \in {0, 1}
          /\ k \div 2^j = 2 * (k \div 2^(j + 1)) + Bit(k, j)
      BY BitDown
    <3> QED
      BY <3>1, Zenon
  <2>3. f[i] = Times(c, b, pt)
    BY <1>2, <2>1, <2>2
  <2>4. i + 1 \in 0..n /\ i + 1 # 0 /\ (i + 1) - 1 = i
    BY <1>0
  <2>5. f[i + 1] = AccStep(c, k, pt, j, f[i])
    BY <2>1, <2>4 DEF AccEqn
  <2>6. PICK s \in Points(c) : s = Times(c, b, pt)
    BY TimesIs
  <2>7. Double(c, s) = Times(c, b + b, pt)
    BY <2>6, DoubleIs, TimesSum
  <2>8. f[i + 1] = Times(c, a, pt)
    <3>1. CASE t = 1
      <4>1. a = (b + b) + 1 /\ b + b \in Nat
        BY <2>2, <3>1
      <4>2. Times(c, (b + b) + 1, pt) = Add(c, Times(c, b + b, pt), pt)
        BY <4>1, TimesIs
      <4> QED
        BY <2>2, <2>3, <2>5, <2>6, <2>7, <3>1, <4>1, <4>2 DEF AccStep
    <3>2. CASE t = 0
      <4>1. a = b + b
        BY <2>2, <3>2
      <4> QED
        BY <2>2, <2>3, <2>5, <2>6, <2>7, <3>2, <4>1 DEF AccStep
    <3> QED
      BY <3>1, <3>2
  <2> QED
    BY <2>1, <2>2, <2>4, <2>8
<1>3. 0..n \subseteq good
  <2> HIDE DEF good
  <2> QED
    BY <1>0, <1>1, <1>2, InductionUpTo
<1>4. n \in 0..n /\ n - n = 0
  BY <1>0
<1>5. f[n] = Times(c, k \div 2^0, pt)
  BY <1>3, <1>4
<1>6. k \div 2^0 = k
  <2>1. 2^0 = 1 /\ k = k * 1 + 0 /\ 1 \in Nat \ {0} /\ 0 \in 0..(1 - 1)
    BY PowerFacts
  <2>2. k \div 1 = k
    BY <2>1, DivModIs
  <2> QED
    BY <2>1, <2>2
<1> QED
  BY <1>5, <1>6

\* Double-and-add is repeated addition (curves.go:445-460).
LEMMA ScalarMultIs ==
  ASSUME NEW c \in Curves, GroupLaw(c), NEW k \in Nat, k < 2^MaxBits, NEW pt \in Points(c)
  PROVE  ScalarMult(c, k, pt) = Times(c, k, pt)
<1>1. PICK n \in 0..MaxBits : n = BitLen(k) /\ k < 2^n
  BY BitLenIs
<1>2. n \in Nat
  BY PowerFacts
<1> DEFINE f == CHOOSE g : AccEqn(c, k, pt, n, g)
<1>3. AccEqn(c, k, pt, n, f)
  BY <1>2, AccExists
<1>4. ScalarMult(c, k, pt) = IF k <= 0 \/ pt = Infinity THEN Infinity ELSE f[n]
  BY <1>1 DEF ScalarMult, AccEqn, AccStep
<1> HIDE DEF f
<1>5. f[n] = Times(c, k, pt)
  BY <1>1, <1>3, AccIs
<1>6. k = 0 => Times(c, k, pt) = Infinity
  BY TimesIs
<1>7. pt = Infinity => Times(c, k, pt) = Infinity
  BY TimesInfinity
<1> QED
  BY <1>4, <1>5, <1>6, <1>7

-----------------------------------------------------------------------------
(* The subgroup of the base point *)

LEMMA CurveFacts ==
  ASSUME NEW c \in Curves
  PROVE  /\ c.q \in Nat \ {0, 1} /\ c.q < R /\ c.p \in Nat /\ c.p < R
         /\ R \in Nat \ {0} /\ 4 * R = 2^MaxBits
         /\ Base(c) \in Points(c) /\ Base(c) # Infinity
<1>1. PICK n \in Nat : n = LimbBits * Limbs /\ MaxBits = n + 2
  BY LimbAssumption DEF MaxBits
<1>2. n \in 0..MaxBits /\ n + 1 \in 0..MaxBits /\ (n + 1) + 1 = n + 2
  BY <1>1
<1>3. PICK w \in Nat \ {0} : w = 2^n
  BY <1>2, PowerFacts
<1>4. 2^(n + 1) = 2 * w /\ 2^((n + 1) + 1) = 2 * 2^(n + 1)
  BY <1>2, <1>3, PowerFacts
<1>5. R = w /\ 2^MaxBits = 4 * w
  BY <1>1, <1>2, <1>3, <1>4 DEF R
<1>6. c.p < R /\ c.q < R /\ IsOnCurve(c, Base(c))
  BY KeysAssumption
<1>7. c.p \in Nat /\ c.q \in Nat \ {0, 1}
  BY CurveAssumption
<1>8. Base(c) # Infinity
  BY DEF Base, Infinity
<1>9. Base(c) \in Points(c)
  <2>1. PICK x, y : Base(c) = <<x, y>>
    BY DEF Base
  <2>2. x \in 0..(c.p - 1) /\ y \in 0..(c.p - 1)
    BY <1>6, <1>8, <2>1 DEF IsOnCurve
  <2> QED
    BY <1>6, <2>1, <2>2 DEF Points
<1> QED
  BY <1>3, <1>5, <1>6, <1>7, <1>8, <1>9

\* Multiples is repeated addition below q.
MulEqn(c, pt, f) == f = [k \in 0..(c.q - 1) |-> IF k = 0 THEN Infinity ELSE Add(c, f[k - 1], pt)]

LEMMA MultiplesIs ==
  ASSUME NEW c \in Curves, GroupLaw(c), NEW pt \in Points(c), NEW k \in 0..(c.q - 1)
  PROVE  Multiples(c, pt)[k] = Times(c, k, pt)
<1>0. PICK q \in Nat \ {0} : q = c.q /\ q > 1
  BY CurveFacts
<1> DEFINE f == [i \in 0..(q - 1) |-> Times(c, i, pt)]
<1>1. MulEqn(c, pt, f)
  <2>1. ASSUME NEW i \in 0..(q - 1)
        PROVE  Times(c, i, pt) = IF i = 0 THEN Infinity ELSE Add(c, f[i - 1], pt)
    <3>1. CASE i = 0
      BY <3>1, TimesIs
    <3>2. CASE i # 0
      <4>1. i - 1 \in Nat /\ i - 1 \in 0..(q - 1) /\ (i - 1) + 1 = i
        BY <3>2
      <4>2. Times(c, (i - 1) + 1, pt) = Add(c, Times(c, i - 1, pt), pt)
        BY <4>1, TimesIs
      <4> QED
        BY <3>2, <4>1, <4>2
    <3> QED
      BY <3>1, <3>2
  <2> QED
    BY <1>0, <2>1 DEF MulEqn
<1> DEFINE m == CHOOSE g : MulEqn(c, pt, g)
<1>2. Multiples(c, pt) = m
  BY DEF Multiples, MulEqn
<1>3. MulEqn(c, pt, m)
  <2> HIDE DEF f
  <2> QED
    BY <1>1
<1> HIDE DEF m
<1> DEFINE same == {i \in 0..(q - 1) : m[i] = Times(c, i, pt)}
<1>4. 0 \in same
  <2>1. m[0] = Infinity
    BY <1>0, <1>3 DEF MulEqn
  <2> QED
    BY <1>0, <2>1, TimesIs
<1>5. ASSUME NEW i \in 0..((q - 1) - 1), i \in same PROVE i + 1 \in same
  <2>1. i + 1 \in 0..(q - 1) /\ i + 1 # 0 /\ (i + 1) - 1 = i /\ i \in Nat
    OBVIOUS
  <2>2. m[i + 1] = Add(c, m[i], pt)
    BY <1>0, <1>3, <2>1 DEF MulEqn
  <2>3. Times(c, i + 1, pt) = Add(c, Times(c, i, pt), pt)
    BY <2>1, TimesIs
  <2> QED
    BY <1>5, <2>1, <2>2, <2>3
<1>6. 0..(q - 1) \subseteq same
  <2>1. q - 1 \in Nat
    OBVIOUS
  <2> HIDE DEF same
  <2> QED
    BY <1>4, <1>5, <2>1, InductionUpTo
<1> QED
  BY <1>0, <1>2, <1>6

\* k times the base point.
OfBase(c, k) == Times(c, k, Base(c))

LEMMA OfBaseIs ==
  ASSUME NEW c \in Curves, GroupLaw(c), NEW k \in Nat
  PROVE  /\ OfBase(c, k) \in Points(c) /\ OfBase(c, 0) = Infinity /\ OfBase(c, 1) = Base(c)
         /\ k < c.q => BaseMultiples[c][k] = OfBase(c, k)
<1>1. Base(c) \in Points(c) /\ c.q \in Nat
  BY CurveFacts
<1>2. BaseMultiples[c] = Multiples(c, Base(c))
  BY DEF BaseMultiples
<1>3. k < c.q => Multiples(c, Base(c))[k] = Times(c, k, Base(c))
  BY <1>1, MultiplesIs
<1> QED
  BY <1>1, <1>2, <1>3, TimesIs DEF OfBase

\* Multiples of the base point depend on the scalar modulo q only.
LEMMA OrderIs ==
  ASSUME NEW c \in Curves, GroupLaw(c), OrderLaw(c), NEW k \in Nat, NEW l \in Nat, Same(c.q, k, l)
  PROVE  OfBase(c, k) = OfBase(c, l)
<1>0. PICK q \in Nat \ {0} : q = c.q /\ q > 1
  BY CurveFacts
<1>1. PICK b \in Points(c) : b = Base(c)
  BY CurveFacts
<1>2. OfBase(c, q) = Infinity
  <2>1. q - 1 \in Nat /\ q - 1 < c.q /\ (q - 1) + 1 = q
    BY <1>0
  <2>2. BaseMultiples[c][q - 1] = Times(c, q - 1, b)
    BY <1>1, <2>1, OfBaseIs DEF OfBase
  <2>3. Add(c, Times(c, q - 1, b), b) = Infinity
    BY <1>0, <1>1, <2>2 DEF OrderLaw
  <2>4. Times(c, (q - 1) + 1, b) = Add(c, Times(c, q - 1, b), b)
    BY <2>1, TimesIs
  <2> QED
    BY <1>1, <2>1, <2>3, <2>4 DEF OfBase
<1>3. ASSUME NEW i \in Nat, NEW n \in Nat PROVE OfBase(c, n + i * q) = OfBase(c, n)
  <2>1. Times(c, i, Times(c, q, b)) = Times(c, q * i, b)
    BY TimesTimes
  <2>2. Times(c, i, Infinity) = Infinity
    BY TimesInfinity
  <2>3. PICK z \in Nat : z = i * q /\ z = q * i
    OBVIOUS
  <2>4. Times(c, z, b) = Infinity
    BY <1>1, <1>2, <2>1, <2>2, <2>3 DEF OfBase
  <2>5. Times(c, n + z, b) = Add(c, Times(c, n, b), Times(c, z, b))
    BY TimesSum
  <2> QED
    BY <1>1, <2>3, <2>4, <2>5, Neutral DEF OfBase
<1>4. PICK i \in Nat, j \in Nat : k + i * q = l + j * q
  <2>1. Same(q, k, l)
    BY <1>0
  <2> QED
    BY <2>1, SameIff
<1>5. OfBase(c, k + i * q) = OfBase(c, k)
  BY <1>3
<1>6. OfBase(c, l + j * q) = OfBase(c, l)
  BY <1>3
<1> QED
  BY <1>4, <1>5, <1>6

\* A multiple by a scalar that q does not divide is not the identity: the scalar
\* has an inverse, and the base point is not the identity.
LEMMA NotIdentity ==
  ASSUME NEW c \in Curves, GroupLaw(c), OrderLaw(c), NEW k \in Nat, k % c.q # 0
  PROVE  OfBase(c, k) # Infinity
<1> SUFFICES ASSUME OfBase(c, k) = Infinity PROVE FALSE
  OBVIOUS
<1>0. PICK q \in Nat \ {0} : q = c.q /\ q > 1
  BY CurveFacts
<1>1. PICK x \in 1..(q - 1) : x = k % q /\ Same(q, x, k)
  <2>1. k % q \in 0..(q - 1) /\ Same(q, k % q, k)
    BY SameMod
  <2> QED
    BY <1>0, <2>1
<1>2. PICK y \in 0..(q - 1) : (x * y) % q = 1
  BY <1>0, CurveAssumption
<1>3. y \in Nat /\ x \in Nat /\ x * y \in Nat /\ k * y \in Nat
  OBVIOUS
<1>4. Same(q, k, x)
  BY <1>1 DEF Same
<1>5. Same(q, k * y, x * y)
  BY <1>3, <1>4, SameTimes
<1>6. Same(q, x * y, 1)
  <2>1. 1 % q = 1
    BY <1>0, SameSmall
  <2> QED
    BY <1>2, <2>1 DEF Same
<1>7. Same(q, k * y, 1)
  BY <1>5, <1>6, SameTrans
<1>8. OfBase(c, k * y) = Base(c)
  BY <1>0, <1>3, <1>7, OrderIs, OfBaseIs
<1>9. Base(c) \in Points(c)
  BY CurveFacts
<1>10. OfBase(c, k * y) = Times(c, y, OfBase(c, k))
  BY <1>3, <1>9, TimesTimes DEF OfBase
<1>11. Times(c, y, Infinity) = Infinity
  BY <1>3, TimesInfinity
<1> QED
  BY <1>8, <1>10, <1>11, CurveFacts

LEMMA SubgroupIs ==
  ASSUME NEW c \in Curves, GroupLaw(c), OrderLaw(c), NEW pt
  PROVE  InSubgroup(c, pt) <=> \E k \in Nat : pt = OfBase(c, k)
<1>0. PICK q \in Nat \ {0} : q = c.q /\ q > 1
  BY CurveFacts
<1>1. ASSUME InSubgroup(c, pt) PROVE \E k \in Nat : pt = OfBase(c, k)
  <2>1. PICK k \in 0..(q - 1) : BaseMultiples[c][k] = pt
    BY <1>0, <1>1 DEF InSubgroup
  <2>2. k \in Nat /\ k < c.q
    BY <1>0
  <2> QED
    BY <2>1, <2>2, OfBaseIs
<1>2. ASSUME NEW k \in Nat, pt = OfBase(c, k) PROVE InSubgroup(c, pt)
  <2>1. PICK x \in 0..(q - 1) : x = k % q /\ Same(q, x, k)
    BY SameMod
  <2>2. x \in Nat /\ x < c.q
    BY <1>0
  <2>3. OfBase(c, x) = OfBase(c, k)
    BY <1>0, <2>1, <2>2, OrderIs
  <2>4. BaseMultiples[c][x] = OfBase(c, x)
    BY <2>2, OfBaseIs
  <2> QED
    BY <1>0, <1>2, <2>3, <2>4 DEF InSubgroup
<1> QED
  BY <1>1, <1>2

-----------------------------------------------------------------------------
(* Bytes *)

LEMMA ByteFacts ==
  /\ 2^ByteBits \in Nat \ {0} /\ PointSize \in Nat \ {0} /\ ByteBits \in Nat \ {0}
  /\ MaxBits \in Nat /\ ByteBits * PointSize <= MaxBits /\ ByteBits \in 0..MaxBits
<1>1. PICK l \in Nat : l = LimbBits * Limbs
  BY LimbAssumption
<1>2. PICK b \in Nat \ {0}, n \in Nat \ {0} : b = ByteBits /\ n = PointSize /\ b * n = l
  BY <1>1, KeysAssumption
<1>3. b <= b * n
  BY <1>2
<1>4. MaxBits = l + 2
  BY <1>1 DEF MaxBits
<1>5. b \in 0..MaxBits
  BY <1>2, <1>3, <1>4
<1> QED
  BY <1>2, <1>4, <1>5, PowerFacts

\* The weight of the byte with j bytes below it.
Weight(j) == 2^(ByteBits * j)

LEMMA WeightIs ==
  ASSUME NEW j \in 0..PointSize
  PROVE  /\ Weight(j) \in Nat \ {0} /\ Weight(0) = 1 /\ Weight(PointSize) = R
         /\ j < PointSize => Weight(j + 1) = Weight(j) * 2^ByteBits
<1>0. PICK b \in Nat \ {0}, n \in Nat \ {0} : b = ByteBits /\ n = PointSize /\ b * n <= MaxBits
  BY ByteFacts
<1>1. PICK m \in Nat : m = b * j
  BY <1>0
<1>2. ASSUME NEW i \in 0..n PROVE b * i <= b * n /\ b * i \in Nat
  OBVIOUS
<1>3. m \in 0..MaxBits
  BY <1>0, <1>1, <1>2, PowerFacts
<1>4. Weight(j) \in Nat \ {0}
  BY <1>0, <1>1, <1>3, PowerType DEF Weight
<1>5. Weight(0) = 1
  <2>1. ByteBits * 0 = 0
    BY <1>0
  <2> QED
    BY <2>1, PowerFacts DEF Weight
<1>6. Weight(PointSize) = R
  BY KeysAssumption DEF Weight, R
<1>7. ASSUME j < n PROVE Weight(j + 1) = Weight(j) * 2^ByteBits
  <2>1. j + 1 \in 0..n /\ b * (j + 1) = m + b
    BY <1>0, <1>1, <1>7
  <2>2. m + b <= MaxBits
    BY <1>0, <1>2, <2>1, PowerFacts
  <2>3. 2^(m + b) = 2^m * 2^b
    BY <2>2, PowerSum
  <2> QED
    BY <1>0, <1>1, <2>1, <2>3 DEF Weight
<1> QED
  BY <1>0, <1>4, <1>5, <1>6, <1>7

\* Bytes are digits.
LEMMA WeightDown ==
  ASSUME NEW n \in Nat, NEW j \in 0..(PointSize - 1)
  PROVE  /\ n \div Weight(j) \in Nat /\ n \div Weight(j + 1) \in Nat
         /\ n \div Weight(j + 1) = (n \div Weight(j)) \div 2^ByteBits
         /\ (n \div Weight(j)) % 2^ByteBits \in 0..(2^ByteBits - 1)
         /\ n \div Weight(j) = (n \div Weight(j + 1)) * 2^ByteBits + ((n \div Weight(j)) % 2^ByteBits)
<1>1. j \in 0..PointSize /\ j < PointSize
  BY ByteFacts
<1>2. PICK w \in Nat \ {0}, v \in Nat \ {0} : w = Weight(j) /\ v = 2^ByteBits /\ Weight(j + 1) = w * v
  BY <1>1, ByteFacts, WeightIs
<1>3. n \div w \in Nat /\ (n \div w) \div v = n \div (w * v)
  BY DivDiv
<1>4. PICK a \in Nat : a = n \div w
  BY <1>3
<1>5. a \div v \in Nat /\ a % v \in 0..(v - 1) /\ a = (a \div v) * v + (a % v)
  BY DivModBasic
<1> QED
  BY <1>2, <1>3, <1>4, <1>5

\* The loop of SetBytes.
SetEqn(b, f) == f = [i \in 0..Len(b) |-> IF i = 0 THEN 0 ELSE f[i - 1] * 2^ByteBits + b[i]]

LEMMA SetBytesOf ==
  ASSUME NEW b \in Seq(ByteVals)
  PROVE  \E f \in [0..Len(b) -> Nat] : SetEqn(b, f) /\ SetBytes(b) = f[Len(b)]
<1>0. PICK n \in Nat, v \in Nat \ {0} : n = Len(b) /\ v = 2^ByteBits
  BY LenProperties, ByteFacts
<1>1. \A i \in 1..n : b[i] \in Nat
  BY <1>0, ElementOfSeq DEF ByteVals
<1> DEFINE step == [i \in 1..n |-> [s \in Nat |-> s * v + b[i]]]
<1>2. step \in [1..n -> [Nat -> Nat]]
  BY <1>1
<1>3. PICK f \in [0..n -> Nat] : f[0] = 0 /\ \A i \in 1..n : f[i] = step[i][f[i - 1]]
  <2>1. PICK N : N = Nat
    OBVIOUS
  <2> HIDE DEF step
  <2>2. step \in [1..n -> [N -> N]] /\ 0 \in N
    BY <1>2, <2>1
  <2>3. Recursive(N, 0, n, step) # {}
    BY <2>2, RecursionUpTo
  <2> QED
    BY <2>1, <2>3 DEF Recursive
<1>4. ASSUME NEW i \in 0..n PROVE f[i] = IF i = 0 THEN 0 ELSE f[i - 1] * v + b[i]
  <2>1. CASE i = 0
    BY <1>3, <2>1
  <2>2. CASE i # 0
    <3>1. i \in 1..n /\ i - 1 \in 0..n /\ f[i - 1] \in Nat
      BY <1>3, <2>2
    <3> QED
      BY <1>3, <2>2, <3>1
  <2> QED
    BY <2>1, <2>2
<1>5. SetEqn(b, f)
  BY <1>0, <1>4 DEF SetEqn
<1> DEFINE g == CHOOSE h : SetEqn(b, h)
<1>6. SetBytes(b) = g[n]
  BY <1>0 DEF SetBytes, SetEqn
<1>7. SetEqn(b, g)
  BY <1>5
<1> HIDE DEF g
<1> DEFINE same == {i \in 0..n : f[i] = g[i]}
<1>8. 0 \in same
  BY <1>0, <1>5, <1>7 DEF SetEqn
<1>9. ASSUME NEW i \in 0..(n - 1), i \in same PROVE i + 1 \in same
  <2>1. i + 1 \in 0..n /\ i + 1 # 0 /\ (i + 1) - 1 = i
    OBVIOUS
  <2>2. f[i + 1] = f[i] * v + b[i + 1]
    BY <1>0, <1>5, <2>1 DEF SetEqn
  <2>3. g[i + 1] = g[i] * v + b[i + 1]
    BY <1>0, <1>7, <2>1 DEF SetEqn
  <2> QED
    BY <1>9, <2>1, <2>2, <2>3
<1>10. 0..n \subseteq same
  <2> HIDE DEF same
  <2> QED
    BY <1>8, <1>9, InductionUpTo
<1>11. SetBytes(b) = f[n]
  BY <1>6, <1>10
<1> QED
  BY <1>0, <1>5, <1>11

LEMMA SetBytesType ==
  ASSUME NEW b \in Seq(ByteVals)
  PROVE  SetBytes(b) \in Nat
<1>1. Len(b) \in Nat
  BY LenProperties
<1> QED
  BY <1>1, SetBytesOf

LEMMA FillType ==
  ASSUME NEW n \in Nat
  PROVE  /\ fillBE(n) \in Seq(ByteVals) /\ Len(fillBE(n)) = PointSize
         /\ \A i \in 1..PointSize : fillBE(n)[i] = (n \div Weight(PointSize - i)) % 2^ByteBits
<1>1. PICK s \in Nat \ {0} : s = PointSize
  BY ByteFacts
<1>2. \A i \in 1..s : (n \div Weight(s - i)) % 2^ByteBits \in ByteVals
  <2> SUFFICES ASSUME NEW i \in 1..s PROVE (n \div Weight(s - i)) % 2^ByteBits \in ByteVals
    OBVIOUS
  <2>1. s - i \in 0..(PointSize - 1)
    BY <1>1
  <2> QED
    BY <2>1, WeightDown DEF ByteVals
<1>3. fillBE(n) = [i \in 1..s |-> (n \div Weight(s - i)) % 2^ByteBits]
  BY <1>1 DEF fillBE, Weight
<1>4. PICK f : f = fillBE(n)
  OBVIOUS
<1>5. f \in [1..s -> ByteVals]
  BY <1>2, <1>3, <1>4
<1>6. f \in Seq(ByteVals) /\ Len(f) = s
  BY <1>5
<1> QED
  BY <1>1, <1>3, <1>4, <1>6

\* What FillBytes wrote, SetBytes reads.
LEMMA SetFill ==
  ASSUME NEW n \in Nat, n < R
  PROVE  SetBytes(fillBE(n)) = n
<1>0. PICK s \in Nat \ {0}, v \in Nat \ {0} : s = PointSize /\ v = 2^ByteBits
  BY ByteFacts
<1>1. PICK b \in Seq(ByteVals) : /\ b = fillBE(n) /\ Len(b) = s
                                /\ \A i \in 1..s : b[i] = (n \div Weight(s - i)) % v
  BY <1>0, FillType
<1>2. PICK f \in [0..s -> Nat] : SetEqn(b, f) /\ SetBytes(b) = f[s]
  BY <1>1, SetBytesOf
<1> DEFINE good == {i \in 0..s : f[i] = n \div Weight(s - i)}
<1>3. 0 \in good
  <2>1. s \in 0..PointSize
    BY <1>0
  <2>2. PICK w \in Nat \ {0} : w = Weight(s) /\ w = R
    BY <1>0, <2>1, WeightIs
  <2>3. n \in 0..(w - 1)
    BY <2>2
  <2>4. n \div w = 0
    BY <2>3, SameSmall
  <2>5. f[0] = 0
    BY <1>1, <1>2 DEF SetEqn
  <2>6. s - 0 = s /\ 0 \in 0..s
    OBVIOUS
  <2>7. f[0] = n \div Weight(s - 0)
    BY <2>2, <2>4, <2>5, <2>6
  <2> QED
    BY <2>6, <2>7
<1>4. ASSUME NEW i \in 0..(s - 1), i \in good PROVE i + 1 \in good
  <2>1. PICK j \in 0..(PointSize - 1) : j = s - (i + 1) /\ j + 1 = s - i
    BY <1>0
  <2>2. i + 1 \in 0..s /\ i + 1 \in 1..s /\ i + 1 # 0 /\ (i + 1) - 1 = i
    OBVIOUS
  <2>3. f[i + 1] = f[i] * v + b[i + 1]
    BY <1>0, <1>1, <1>2, <2>2 DEF SetEqn
  <2>4. b[i + 1] = (n \div Weight(j)) % v
    BY <1>1, <2>1, <2>2
  <2>5. f[i] = n \div Weight(j + 1)
    BY <1>4, <2>1
  <2>6. n \div Weight(j) = (n \div Weight(j + 1)) * v + ((n \div Weight(j)) % v)
    BY <1>0, WeightDown
  <2> QED
    BY <2>1, <2>2, <2>3, <2>4, <2>5, <2>6
<1>5. 0..s \subseteq good
  <2> HIDE DEF good
  <2> QED
    BY <1>3, <1>4, InductionUpTo
<1>6. s \in good /\ s - s = 0
  BY <1>5
<1>7. f[s] = n \div Weight(0)
  BY <1>6
<1>8. Weight(0) = 1
  <2>1. 0 \in 0..PointSize
    BY <1>0
  <2> QED
    BY <2>1, WeightIs
<1>9. n = n * 1 + 0 /\ 1 \in Nat \ {0} /\ 0 \in 0..(1 - 1)
  OBVIOUS
<1>10. n \div 1 = n
  BY <1>9, DivModIs
<1> QED
  BY <1>1, <1>2, <1>7, <1>8, <1>10

\* What SetBytes reads, FillBytes writes again.
LEMMA FillSet ==
  ASSUME NEW b \in Seq(ByteVals), Len(b) = PointSize
  PROVE  SetBytes(b) \in Nat /\ fillBE(SetBytes(b)) = b
<1>0. PICK s \in Nat \ {0}, v \in Nat \ {0} : s = PointSize /\ v = 2^ByteBits
  BY ByteFacts
<1>1. PICK f \in [0..s -> Nat] : SetEqn(b, f) /\ SetBytes(b) = f[s]
  BY <1>0, SetBytesOf
<1>2. PICK n \in Nat : n = f[s]
  BY <1>1
<1>3. ASSUME NEW i \in 1..s PROVE f[i] \div v = f[i - 1] /\ f[i] % v = b[i]
  <2>1. i \in 0..s /\ i # 0 /\ i - 1 \in 0..s
    OBVIOUS
  <2>2. f[i] = f[i - 1] * v + b[i]
    BY <1>0, <1>1, <2>1 DEF SetEqn
  <2>3. PICK a \in Nat, t \in 0..(v - 1), u \in Nat : a = f[i - 1] /\ t = b[i] /\ u = f[i]
    <3>1. b[i] \in ByteVals
      BY <1>0, ElementOfSeq
    <3> QED
      BY <1>0, <1>1, <2>1, <3>1 DEF ByteVals
  <2>4. u = a * v + t
    BY <2>2, <2>3
  <2>5. (a * v + t) \div v = a /\ (a * v + t) % v = t
    BY DivModOf
  <2> QED
    BY <2>3, <2>4, <2>5
<1> DEFINE good == {j \in 0..s : n \div Weight(j) = f[s - j]}
<1>4. 0 \in good
  <2>1. 0 \in 0..PointSize /\ s - 0 = s
    BY <1>0
  <2>2. Weight(0) = 1
    BY <2>1, WeightIs
  <2>3. n = n * 1 + 0 /\ 1 \in Nat \ {0} /\ 0 \in 0..(1 - 1)
    OBVIOUS
  <2>4. n \div 1 = n
    BY <2>3, DivModIs
  <2>5. n \div Weight(0) = f[s - 0]
    BY <1>2, <2>1, <2>2, <2>4
  <2> QED
    BY <1>0, <2>1, <2>5
<1>5. ASSUME NEW j \in 0..(s - 1), j \in good PROVE j + 1 \in good
  <2>1. j \in 0..(PointSize - 1) /\ j + 1 \in 0..s
    BY <1>0
  <2>2. n \div Weight(j + 1) = (n \div Weight(j)) \div v
    BY <1>0, <2>1, WeightDown
  <2>3. PICK i \in 1..s : i = s - j /\ i - 1 = s - (j + 1)
    OBVIOUS
  <2>4. n \div Weight(j) = f[i]
    BY <1>5, <2>3
  <2>5. f[i] \div v = f[i - 1]
    BY <1>3
  <2>6. n \div Weight(j + 1) = f[s - (j + 1)]
    BY <2>2, <2>3, <2>4, <2>5
  <2> QED
    BY <2>1, <2>6
<1>6. 0..s \subseteq good
  <2> HIDE DEF good
  <2> QED
    BY <1>4, <1>5, InductionUpTo
<1>7. PICK g \in Seq(ByteVals) : /\ g = fillBE(n) /\ Len(g) = s
                                /\ \A i \in 1..s : g[i] = (n \div Weight(s - i)) % v
  BY <1>0, FillType
<1>8. ASSUME NEW i \in 1..s PROVE g[i] = b[i]
  <2>1. PICK j \in 0..s : j = s - i /\ s - j = i
    OBVIOUS
  <2>2. n \div Weight(j) = f[i]
    BY <1>6, <2>1
  <2> QED
    BY <1>3, <1>7, <2>1, <2>2
<1>9. Len(g) = Len(b) /\ \A i \in 1..Len(g) : g[i] = b[i]
  BY <1>0, <1>7, <1>8
<1>10. g = b
  BY <1>9, SeqEqual
<1> QED
  BY <1>1, <1>2, <1>7, <1>10

\* Reversing bytes.
LEMMA ReverseIs ==
  ASSUME NEW b \in Seq(ByteVals)
  PROVE  /\ reverse(b) \in Seq(ByteVals) /\ Len(reverse(b)) = Len(b)
         /\ reverse(reverse(b)) = b
<1>1. PICK n \in Nat : n = Len(b)
  BY LenProperties
<1>2. \A i \in 1..n : b[i] \in ByteVals
  BY <1>1, ElementOfSeq
<1>3. PICK f : f = reverse(b)
  OBVIOUS
<1>4. f = [i \in 1..n |-> b[n + 1 - i]]
  BY <1>1, <1>3 DEF reverse
<1>5. ASSUME NEW i \in 1..n PROVE n + 1 - i \in 1..n /\ n + 1 - (n + 1 - i) = i
  OBVIOUS
<1>6. f \in [1..n -> ByteVals]
  BY <1>2, <1>4, <1>5
<1>7. f \in Seq(ByteVals) /\ Len(f) = n
  BY <1>6
<1>8. PICK g : g = reverse(f)
  OBVIOUS
<1>9. g = [i \in 1..n |-> f[n + 1 - i]]
  BY <1>7, <1>8 DEF reverse
<1>10. ASSUME NEW i \in 1..n PROVE g[i] = b[i]
  <2>1. g[i] = f[n + 1 - i]
    BY <1>9
  <2>2. f[n + 1 - i] = b[n + 1 - (n + 1 - i)]
    BY <1>4, <1>5
  <2> QED
    BY <1>5, <2>1, <2>2
<1>11. g \in Seq(ByteVals) /\ Len(g) = n
  <2>1. g \in [1..n -> ByteVals]
    BY <1>5, <1>6, <1>9
  <2> QED
    BY <2>1
<1>12. g = b
  <2>1. Len(g) = Len(b) /\ \A i \in 1..Len(g) : g[i] = b[i]
    BY <1>1, <1>10, <1>11
  <2> QED
    BY <1>11, <2>1, SeqEqual
<1> QED
  BY <1>1, <1>3, <1>7, <1>8, <1>12

\* A part of a sequence.
LEMMA PartIs ==
  ASSUME NEW m \in Seq(ByteVals), NEW x \in Nat, NEW B \in Nat \ {0}, x + B <= Len(m)
  PROVE  /\ SubSeq(m, x + 1, x + B) \in Seq(ByteVals) /\ Len(SubSeq(m, x + 1, x + B)) = B
         /\ \A i \in 1..B : SubSeq(m, x + 1, x + B)[i] = m[x + i]
<1>1. Len(m) \in Nat /\ \A i \in 1..Len(m) : m[i] \in ByteVals
  BY LenProperties, ElementOfSeq
<1>2. x + 1 \in Int /\ x + B \in Int /\ \A i \in (x + 1)..(x + B) : m[i] \in ByteVals
  BY <1>1
<1>3. PICK u : u = SubSeq(m, x + 1, x + B)
  OBVIOUS
<1>4. /\ u \in Seq(ByteVals) /\ Len(u) = IF x + 1 <= x + B THEN (x + B) - (x + 1) + 1 ELSE 0
      /\ \A i \in 1..((x + B) - (x + 1) + 1) : u[i] = m[(x + 1) + i - 1]
  BY <1>2, <1>3, SubSeqProperties
<1>5. Len(u) = B
  BY <1>4
<1>6. ASSUME NEW i \in 1..B PROVE u[i] = m[x + i]
  <2>1. i \in 1..((x + B) - (x + 1) + 1) /\ (x + 1) + i - 1 = x + i
    OBVIOUS
  <2> QED
    BY <1>4, <2>1
<1> QED
  BY <1>3, <1>4, <1>5, <1>6

\* The parts of two sequences joined.
Parted(a, b, m, n) ==
  /\ a \o b \in Seq(ByteVals) /\ Len(a \o b) = m + n
  /\ SubSeq(a \o b, 1, m) = a /\ SubSeq(a \o b, m + 1, m + n) = b

LEMMA PartsOfJoin ==
  ASSUME NEW a \in Seq(ByteVals), NEW b \in Seq(ByteVals), NEW m \in Nat \ {0}, NEW n \in Nat \ {0},
         Len(a) = m, Len(b) = n
  PROVE  Parted(a, b, m, n)
<1>1. PICK j : j = a \o b
  OBVIOUS
<1>2. /\ j \in Seq(ByteVals) /\ Len(j) = m + n
      /\ \A i \in 1..(m + n) : j[i] = IF i <= m THEN a[i] ELSE b[i - m]
  BY <1>1, ConcatProperties
<1>3. PICK u \in Seq(ByteVals) : u = SubSeq(j, 0 + 1, 0 + m) /\ Len(u) = m /\ \A i \in 1..m : u[i] = j[0 + i]
  <2>1. 0 + m <= Len(j) /\ 0 \in Nat /\ j \in Seq(ByteVals)
    BY <1>2
  <2>2. /\ SubSeq(j, 0 + 1, 0 + m) \in Seq(ByteVals) /\ Len(SubSeq(j, 0 + 1, 0 + m)) = m
        /\ \A i \in 1..m : SubSeq(j, 0 + 1, 0 + m)[i] = j[0 + i]
    BY <2>1, PartIs
  <2> QED
    BY <2>2
<1>4. PICK w \in Seq(ByteVals) : w = SubSeq(j, m + 1, m + n) /\ Len(w) = n /\ \A i \in 1..n : w[i] = j[m + i]
  <2>1. m + n <= Len(j) /\ m \in Nat /\ j \in Seq(ByteVals)
    BY <1>2
  <2>2. /\ SubSeq(j, m + 1, m + n) \in Seq(ByteVals) /\ Len(SubSeq(j, m + 1, m + n)) = n
        /\ \A i \in 1..n : SubSeq(j, m + 1, m + n)[i] = j[m + i]
    BY <2>1, PartIs
  <2> QED
    BY <2>2
<1>5. ASSUME NEW i \in 1..m PROVE u[i] = a[i]
  <2>1. u[i] = j[0 + i] /\ 0 + i = i
    BY <1>3
  <2>2. i \in 1..(m + n) /\ i <= m
    OBVIOUS
  <2> QED
    BY <1>2, <2>1, <2>2
<1>6. ASSUME NEW i \in 1..n PROVE w[i] = b[i]
  <2>1. w[i] = j[m + i] /\ (m + i) - m = i
    BY <1>4
  <2>2. m + i \in 1..(m + n) /\ ~(m + i <= m)
    OBVIOUS
  <2> QED
    BY <1>2, <2>1, <2>2
<1>7. u = a
  BY <1>3, <1>5, SeqEqual
<1>8. w = b
  BY <1>4, <1>6, SeqEqual
<1>9. 0 + 1 = 1 /\ 0 + m = m
  OBVIOUS
<1> QED
  BY <1>1, <1>2, <1>3, <1>4, <1>7, <1>8, <1>9 DEF Parted

\* Two halves joined.
LEMMA JoinOfParts ==
  ASSUME NEW j \in Seq(ByteVals), NEW m \in Nat \ {0}, Len(j) = m + m
  PROVE  /\ SubSeq(j, 1, m) \in Seq(ByteVals) /\ Len(SubSeq(j, 1, m)) = m
         /\ SubSeq(j, m + 1, m + m) \in Seq(ByteVals) /\ Len(SubSeq(j, m + 1, m + m)) = m
         /\ j = SubSeq(j, 1, m) \o SubSeq(j, m + 1, m + m)
<1>1. PICK u \in Seq(ByteVals) : u = SubSeq(j, 0 + 1, 0 + m) /\ Len(u) = m /\ \A i \in 1..m : u[i] = j[0 + i]
  <2>1. 0 + m <= Len(j) /\ 0 \in Nat
    OBVIOUS
  <2> QED
    BY <2>1, PartIs
<1>2. PICK w \in Seq(ByteVals) : w = SubSeq(j, m + 1, m + m) /\ Len(w) = m /\ \A i \in 1..m : w[i] = j[m + i]
  <2>1. m + m <= Len(j) /\ m \in Nat
    OBVIOUS
  <2> QED
    BY <2>1, PartIs
<1>3. PICK k : k = u \o w
  OBVIOUS
<1>4. /\ k \in Seq(ByteVals) /\ Len(k) = m + m
      /\ \A i \in 1..(m + m) : k[i] = IF i <= m THEN u[i] ELSE w[i - m]
  <2>1. Len(u) = m /\ Len(w) = m
    BY <1>1, <1>2
  <2>2. /\ u \o w \in Seq(ByteVals) /\ Len(u \o w) = Len(u) + Len(w)
        /\ \A i \in 1..(Len(u) + Len(w)) : (u \o w)[i] = IF i <= Len(u) THEN u[i] ELSE w[i - Len(u)]
    BY ConcatProperties
  <2> QED
    BY <1>3, <2>1, <2>2
<1>5. ASSUME NEW i \in 1..(m + m) PROVE k[i] = j[i]
  <2>1. CASE i <= m
    <3>1. i \in 1..m /\ 0 + i = i
      BY <2>1
    <3>2. u[i] = j[0 + i]
      BY <1>1, <3>1
    <3> QED
      BY <1>4, <2>1, <3>1, <3>2
  <2>2. CASE ~(i <= m)
    <3>1. i - m \in 1..m /\ m + (i - m) = i
      BY <2>2
    <3>2. w[i - m] = j[m + (i - m)]
      BY <1>2, <3>1
    <3> QED
      BY <1>4, <2>2, <3>1, <3>2
  <2> QED
    BY <2>1, <2>2
<1>6. k = j
  BY <1>4, <1>5, SeqEqual
<1>7. 0 + 1 = 1 /\ 0 + m = m
  OBVIOUS
<1> QED
  BY <1>1, <1>2, <1>3, <1>6, <1>7

-----------------------------------------------------------------------------
(* Encodings *)

LEMMA PutLE ==
  ASSUME NEW n \in Nat, n < R
  PROVE  /\ putLE(n) \in Seq(ByteVals) /\ Len(putLE(n)) = PointSize
         /\ reverse(putLE(n)) = fillBE(n) /\ leBytes2big(putLE(n)) = n
<1>1. PICK b \in Seq(ByteVals) : b = fillBE(n) /\ Len(b) = PointSize
  BY FillType
<1>2. /\ reverse(b) \in Seq(ByteVals) /\ Len(reverse(b)) = PointSize
      /\ reverse(reverse(b)) = b
  BY <1>1, ReverseIs
<1>3. SetBytes(b) = n
  BY <1>1, SetFill
<1> QED
  BY <1>1, <1>2, <1>3 DEF putLE, leBytes2big

\* Two values of PointSize bytes each, joined and cut again.
LEMMA HalvesOf ==
  ASSUME NEW a \in Seq(ByteVals), NEW b \in Seq(ByteVals), Len(a) = PointSize, Len(b) = PointSize
  PROVE  /\ a \o b \in Seq(ByteVals) /\ Len(a \o b) = 2 * PointSize
         /\ First(a \o b) = a /\ Second(a \o b) = b
<1>1. PICK n \in Nat \ {0} : n = PointSize /\ 2 * n = n + n
  BY ByteFacts
<1>2. Parted(a, b, n, n)
  BY <1>1, PartsOfJoin
<1> QED
  BY <1>1, <1>2 DEF First, Second, Parted

LEMMA JoinHalves ==
  ASSUME NEW b \in Seq(ByteVals), Len(b) = 2 * PointSize
  PROVE  /\ First(b) \in Seq(ByteVals) /\ Len(First(b)) = PointSize
         /\ Second(b) \in Seq(ByteVals) /\ Len(Second(b)) = PointSize
         /\ b = First(b) \o Second(b)
<1>1. PICK n \in Nat \ {0} : n = PointSize /\ 2 * n = n + n
  BY ByteFacts
<1>2. Len(b) = n + n
  BY <1>1
<1>3. /\ SubSeq(b, 1, n) \in Seq(ByteVals) /\ Len(SubSeq(b, 1, n)) = n
      /\ SubSeq(b, n + 1, n + n) \in Seq(ByteVals) /\ Len(SubSeq(b, n + 1, n + n)) = n
      /\ b = SubSeq(b, 1, n) \o SubSeq(b, n + 1, n + n)
  BY <1>2, JoinOfParts
<1> QED
  BY <1>1, <1>3 DEF First, Second

\* A point is not the identity exactly if it has coordinates.
LEMMA Coordinates ==
  ASSUME NEW c \in Curves, NEW pt \in Points(c), pt # Infinity
  PROVE  /\ pt[1] \in Nat /\ pt[1] < R /\ pt[2] \in Nat /\ pt[2] < R
         /\ pt = <<pt[1], pt[2]>> /\ IsOnCurve(c, pt)
<1>1. PICK p \in Nat : p = c.p /\ p < R /\ R \in Nat
  BY CurveFacts
<1>2. PICK x \in 0..(p - 1), y \in 0..(p - 1) : pt = <<x, y>> /\ IsOnCurve(c, pt)
  BY <1>1 DEF Points
<1> QED
  BY <1>1, <1>2

LEMMA PointLE ==
  ASSUME NEW c \in Curves, NEW pt \in Points(c), pt # Infinity
  PROVE  /\ pointLE(pt) \in Seq(ByteVals) /\ Len(pointLE(pt)) = 2 * PointSize
         /\ PointOf(pointLE(pt)) = pt /\ pointLE(pt) # Nil
<1>1. PICK x \in Nat, y \in Nat : x = pt[1] /\ y = pt[2] /\ x < R /\ y < R /\ pt = <<x, y>>
  BY Coordinates
<1>2. PICK a \in Seq(ByteVals) : a = putLE(x) /\ Len(a) = PointSize /\ leBytes2big(a) = x
  BY <1>1, PutLE
<1>3. PICK b \in Seq(ByteVals) : b = putLE(y) /\ Len(b) = PointSize /\ leBytes2big(b) = y
  BY <1>1, PutLE
<1>4. /\ a \o b \in Seq(ByteVals) /\ Len(a \o b) = 2 * PointSize
      /\ First(a \o b) = a /\ Second(a \o b) = b
  BY <1>2, <1>3, HalvesOf
<1>5. pointLE(pt) = a \o b
  BY <1>1, <1>2, <1>3 DEF pointLE
<1>6. Len(Nil) = 1
  BY DEF Nil
<1>7. 2 * PointSize # 1
  BY ByteFacts
<1> QED
  BY <1>1, <1>2, <1>3, <1>4, <1>5, <1>6, <1>7 DEF PointOf

LEMMA SignatureOf ==
  ASSUME NEW r \in Nat, NEW s \in Nat, r < R, s < R
  PROVE  /\ Len(fillBE(s) \o fillBE(r)) = 2 * PointSize
         /\ SetBytes(First(fillBE(s) \o fillBE(r))) = s /\ SetBytes(Second(fillBE(s) \o fillBE(r))) = r
<1>1. PICK a \in Seq(ByteVals) : a = fillBE(s) /\ Len(a) = PointSize /\ SetBytes(a) = s
  BY FillType, SetFill
<1>2. PICK b \in Seq(ByteVals) : b = fillBE(r) /\ Len(b) = PointSize /\ SetBytes(b) = r
  BY FillType, SetFill
<1> QED
  BY <1>1, <1>2, HalvesOf

LEMMA OfSignature ==
  ASSUME NEW sig \in Seq(ByteVals), Len(sig) = 2 * PointSize
  PROVE  /\ SetBytes(First(sig)) \in Nat /\ SetBytes(Second(sig)) \in Nat
         /\ sig = fillBE(SetBytes(First(sig))) \o fillBE(SetBytes(Second(sig)))
<1>1. PICK a \in Seq(ByteVals), b \in Seq(ByteVals) :
        /\ a = First(sig) /\ b = Second(sig) /\ Len(a) = PointSize /\ Len(b) = PointSize /\ sig = a \o b
  BY JoinHalves
<1>2. SetBytes(a) \in Nat /\ fillBE(SetBytes(a)) = a
  BY <1>1, FillSet
<1>3. SetBytes(b) \in Nat /\ fillBE(SetBytes(b)) = b
  BY <1>1, FillSet
<1> QED
  BY <1>1, <1>2, <1>3

-----------------------------------------------------------------------------
(* Signing and verifying *)

LEMMA DigestIntIs ==
  ASSUME NEW c \in Curves, NEW digest \in Seq(ByteVals)
  PROVE  DigestInt(c, digest) \in 1..(c.q - 1)
<1>1. PICK q \in Nat \ {0} : q = c.q /\ q > 1
  BY CurveFacts
<1>2. PICK n \in Nat : n = SetBytes(digest)
  BY SetBytesType
<1>3. n % q \in 0..(q - 1)
  BY SameMod
<1> QED
  BY <1>1, <1>2, <1>3 DEF DigestInt

LEMMA InverseIs ==
  ASSUME NEW c \in Curves, NEW e \in 1..(c.q - 1)
  PROVE  ModInverse(e, c.q) \in 0..(c.q - 1) /\ (e * ModInverse(e, c.q)) % c.q = 1
<1>1. \E y \in 0..(c.q - 1) : (e * y) % c.q = 1
  BY CurveAssumption
<1>2. PICK v : v = CHOOSE y \in 0..(c.q - 1) : (e * y) % c.q = 1
  OBVIOUS
<1>3. v \in 0..(c.q - 1) /\ (e * v) % c.q = 1
  BY <1>1, <1>2
<1> QED
  BY <1>2, <1>3 DEF ModInverse

\* The scalars that verification computes: z1 + z2 * d is v * (s - r * d).
LEMMA Scalars ==
  ASSUME NEW q \in Nat \ {0}, NEW r \in Nat, NEW s \in Nat, NEW v \in Nat, NEW d \in Nat,
         NEW z1, NEW z2, z1 = (s * v) % q, z2 = (q - ((r * v) % q)) % q
  PROVE  /\ z1 \in 0..(q - 1) /\ z2 \in 0..(q - 1)
         /\ Same(q, (z1 + z2 * d) + ((r * v) * d), s * v)
<1>1. PICK m \in Nat, n \in Nat : m = s * v /\ n = r * v
  OBVIOUS
<1>2. PICK w \in 0..(q - 1) : w = n % q /\ Same(q, w, n)
  BY SameMod
<1>3. PICK x \in Nat : x = q - w
  BY <1>2
<1>4. z1 \in 0..(q - 1) /\ Same(q, z1, m)
  BY <1>1, SameMod
<1>5. z2 \in 0..(q - 1) /\ Same(q, z2, x)
  <2>1. z2 = x % q
    BY <1>1, <1>2, <1>3
  <2> QED
    BY <2>1, SameMod
<1>6. z1 \in Nat /\ z2 \in Nat /\ w \in Nat
  BY <1>4, <1>5
<1>7. PICK a \in Nat, b \in Nat, g \in Nat, h \in Nat : a = z2 * d /\ b = x * d /\ g = w * d /\ h = n * d
  BY <1>6
<1>8. Same(q, a, b) /\ Same(q, h, g)
  <2>1. Same(q, z2 * d, x * d)
    BY <1>5, <1>6, SameTimes
  <2>2. Same(q, w * d, n * d)
    BY <1>2, <1>6, SameTimes
  <2> QED
    BY <1>7, <2>1, <2>2 DEF Same
<1>9. b + g = q * d
  <2>1. b + g = (x + w) * d
    BY <1>6, <1>7
  <2>2. x + w = q
    BY <1>3, <1>6
  <2> QED
    BY <2>1, <2>2
<1>10. Same(q, z1 + a, m + b)
  BY <1>4, <1>6, <1>8, SameSum
<1>11. Same(q, (z1 + a) + h, (m + b) + g)
  <2>1. z1 + a \in Nat /\ m + b \in Nat
    BY <1>6
  <2> QED
    BY <1>8, <1>10, <2>1, SameSum
<1>12. PICK u \in Nat : u = (m + b) + g /\ u = m + d * q
  <2>1. (m + b) + g = m + (b + g) /\ q * d = d * q
    OBVIOUS
  <2> QED
    BY <1>9, <2>1
<1>13. Same(q, u, m)
  <2>1. u + 0 * q = m + d * q
    BY <1>12
  <2> QED
    BY <2>1, SameIff
<1>14. Same(q, (z1 + a) + h, m)
  BY <1>11, <1>12, <1>13, SameTrans
<1> QED
  BY <1>1, <1>4, <1>5, <1>7, <1>14

\* If s is what signing with the nonce k computes, they give k back; and the s that
\* signing with what they give computes is the one verified.
LEMMA NonceBack ==
  ASSUME NEW q \in Nat \ {0}, q > 1, NEW r \in Nat, NEW s \in Nat, NEW v \in Nat, NEW d \in Nat,
         NEW e \in Nat, (e * v) % q = 1, NEW z \in Nat, Same(q, z + ((r * v) * d), s * v), NEW k \in Nat
  PROVE  /\ Same(q, s, r * d + k * e) => Same(q, z, k)
         /\ Same(q, k, z) => Same(q, r * d + k * e, s)
<1>0. 1 % q = 1
  BY SameSmall
<1>1. Same(q, e * v, 1) /\ e * v \in Nat
  BY <1>0 DEF Same
<1>2. PICK a \in Nat, b \in Nat, n \in Nat, m \in Nat : a = r * d /\ b = k * e /\ n = (r * v) * d /\ m = s * v
  OBVIOUS
<1>3. n = a * v
  BY <1>2
<1>4. ASSUME Same(q, s, a + b) PROVE Same(q, z, k)
  <2>1. Same(q, m, (a + b) * v)
    BY <1>2, <1>4, SameTimes
  <2>2. (a + b) * v = b * v + n
    BY <1>3
  <2>3. Same(q, b * v, k)
    <3>1. b * v = k * (e * v)
      BY <1>2
    <3>2. Same(q, k * (e * v), k * 1)
      BY <1>1, SameTimes
    <3> QED
      BY <3>1, <3>2
  <2>4. PICK g \in Nat : g = b * v
    OBVIOUS
  <2>5. Same(q, g + n, k + n)
    <3>1. Same(q, n, n)
      BY DEF Same
    <3> QED
      BY <2>3, <2>4, <3>1, SameSum
  <2>6. Same(q, z + n, k + n)
    BY <1>2, <2>1, <2>2, <2>4, <2>5 DEF Same
  <2> QED
    <3>1. Same(q, n, n)
      BY DEF Same
    <3> QED
      BY <2>6, <3>1, SameCancel
<1>5. ASSUME Same(q, k, z) PROVE Same(q, a + b, s)
  <2>1. PICK y \in Nat : y = z + n
    OBVIOUS
  <2>2. Same(q, y, m)
    BY <1>2, <2>1
  <2>3. Same(q, y * e, m * e)
    BY <2>2, SameTimes
  <2>4. y * e = z * e + a * (e * v)
    BY <1>3, <2>1
  <2>5. m * e = s * (e * v)
    BY <1>2
  <2>6. PICK f \in Nat, g \in Nat, h \in Nat : f = z * e /\ g = a * (e * v) /\ h = s * (e * v)
    BY <1>1
  <2>7. Same(q, g, a) /\ Same(q, h, s)
    <3>1. Same(q, a * (e * v), a * 1) /\ Same(q, s * (e * v), s * 1)
      BY <1>1, SameTimes
    <3> QED
      BY <2>6, <3>1
  <2>8. Same(q, b, f)
    BY <1>2, <1>5, <2>6, SameTimes
  <2>9. Same(q, a + b, g + f)
    <3>1. Same(q, a, g)
      BY <2>7 DEF Same
    <3> QED
      BY <2>8, <3>1, SameSum
  <2>10. y * e = g + f /\ m * e = h
    BY <2>4, <2>5, <2>6
  <2> QED
    BY <2>3, <2>7, <2>9, <2>10 DEF Same
<1> QED
  BY <1>2, <1>4, <1>5

LEMMA Below ==
  ASSUME NEW c \in Curves, NEW k \in 0..(c.q - 1)
  PROVE  k \in Nat /\ k < c.q /\ k < R /\ k < 2^MaxBits
<1>1. PICK q \in Nat, w \in Nat \ {0} : q = c.q /\ w = R /\ q < w /\ 4 * w = 2^MaxBits
  BY CurveFacts
<1> QED
  BY <1>1

\* The point that verification computes.
LEMMA VerifyPoint ==
  ASSUME NEW c \in Curves, GroupLaw(c), NEW d \in Nat, NEW z1 \in 0..(c.q - 1), NEW z2 \in 0..(c.q - 1)
  PROVE  Add(c, ScalarMult(c, z1, Base(c)), ScalarMult(c, z2, OfBase(c, d))) = OfBase(c, z1 + z2 * d)
<1>1. z1 \in Nat /\ z2 \in Nat /\ z1 < 2^MaxBits /\ z2 < 2^MaxBits
  BY Below
<1>2. PICK b \in Points(c), y \in Points(c) : b = Base(c) /\ y = OfBase(c, d)
  BY CurveFacts, OfBaseIs
<1>3. ScalarMult(c, z1, b) = Times(c, z1, b) /\ ScalarMult(c, z2, y) = Times(c, z2, y)
  BY <1>1, ScalarMultIs
<1>4. Times(c, z2, y) = Times(c, d * z2, b)
  BY <1>1, <1>2, TimesTimes DEF OfBase
<1>5. PICK n \in Nat : n = d * z2 /\ n = z2 * d
  BY <1>1
<1>6. Times(c, z1 + n, b) = Add(c, Times(c, z1, b), Times(c, n, b))
  BY <1>1, TimesSum
<1> QED
  BY <1>2, <1>3, <1>4, <1>5, <1>6 DEF OfBase

\* Verification of the signature (r, s) against the public key d * P: some nonce k
\* has r as the coordinate of k * P, and signing with it computes s.
Signs(c, d, e, r, s, k) ==
  r = OfBase(c, k)[1] % c.q /\ s = (r * d + k * e) % c.q

LEMMA VerifyIs ==
  ASSUME NEW c \in Curves, GroupLaw(c), OrderLaw(c), NEW d \in 1..(c.q - 1),
         NEW pubRaw, Len(pubRaw) = 2 * PointSize, PointOf(pubRaw) = OfBase(c, d),
         NEW digest \in Seq(ByteVals), NEW sig, Len(sig) = 2 * PointSize,
         NEW r \in Nat, NEW s \in Nat, s = SetBytes(First(sig)), r = SetBytes(Second(sig))
  PROVE  VerifyDigest(c, pubRaw, digest, sig) <=>
           /\ r \in 1..(c.q - 1) /\ s \in 1..(c.q - 1)
           /\ \E k \in 1..(c.q - 1) : Signs(c, d, DigestInt(c, digest), r, s, k)
<1>0. PICK q \in Nat \ {0} : q = c.q /\ q > 1
  BY CurveFacts
<1>1. PICK e \in 1..(q - 1) : e = DigestInt(c, digest) /\ e \in Nat
  BY <1>0, DigestIntIs
<1>2. PICK v \in 0..(q - 1) : v = ModInverse(e, q) /\ (e * v) % q = 1 /\ v \in Nat
  BY <1>0, InverseIs
<1>3. d \in Nat /\ d % q # 0
  <2>1. d \in 0..(q - 1)
    BY <1>0
  <2>2. d % q = d
    BY <2>1, SameSmall
  <2> QED
    BY <2>2
<1>4. PICK y \in Points(c) : y = OfBase(c, d) /\ y # Infinity
  BY <1>0, <1>3, OfBaseIs, NotIdentity
<1>5. IsOnCurve(c, y)
  BY <1>4, Coordinates
<1>6. PICK z1, z2, pt : /\ z1 = (s * v) % q /\ z2 = (q - ((r * v) % q)) % q
                        /\ pt = Add(c, ScalarMult(c, z1, Base(c)), ScalarMult(c, z2, y))
  OBVIOUS
<1>7. VerifyDigest(c, pubRaw, digest, sig) <=>
        r > 0 /\ r < q /\ s > 0 /\ s < q /\ pt # Infinity /\ pt[1] % q = r
  BY <1>0, <1>1, <1>2, <1>4, <1>5, <1>6 DEF VerifyDigest, InRange, PointOf, leBytes2big
<1>8. /\ z1 \in 0..(q - 1) /\ z2 \in 0..(q - 1)
      /\ Same(q, (z1 + z2 * d) + ((r * v) * d), s * v)
  BY <1>2, <1>3, <1>6, Scalars
<1>9. PICK z \in Nat : z = z1 + z2 * d
  <2>1. z1 \in Nat /\ z2 \in Nat
    BY <1>8
  <2>2. PICK y2 \in Nat : y2 = z2 * d
    BY <1>3, <2>1
  <2> QED
    BY <2>1, <2>2
<1>10. pt = OfBase(c, z)
  <2>1. z1 \in 0..(c.q - 1) /\ z2 \in 0..(c.q - 1)
    BY <1>0, <1>8
  <2>2. Add(c, ScalarMult(c, z1, Base(c)), ScalarMult(c, z2, OfBase(c, d))) = OfBase(c, z1 + z2 * d)
    BY <1>3, <2>1, VerifyPoint
  <2> QED
    BY <1>4, <1>6, <1>9, <2>2
<1>11. ASSUME NEW k \in Nat
       PROVE  /\ Same(q, s, r * d + k * e) => Same(q, z, k)
              /\ Same(q, k, z) => Same(q, r * d + k * e, s)
  BY <1>0, <1>1, <1>2, <1>3, <1>8, <1>9, NonceBack
<1>12. ASSUME r \in 1..(q - 1), s \in 1..(q - 1), NEW k \in 1..(q - 1), Signs(c, d, e, r, s, k)
       PROVE  pt # Infinity /\ pt[1] % q = r
  <2>1. k \in Nat /\ k \in 0..(q - 1) /\ k # 0
    OBVIOUS
  <2>2. PICK n \in Nat : n = r * d + k * e /\ s = n % q
    BY <1>0, <1>1, <1>3, <1>12, <2>1 DEF Signs
  <2>3. Same(q, s, r * d + k * e)
    BY <2>2, SameMod
  <2>4. Same(q, z, k)
    BY <1>11, <2>1, <2>3
  <2>5. OfBase(c, z) = OfBase(c, k)
    BY <1>0, <2>1, <2>4, OrderIs
  <2>6. k % q # 0
    BY <2>1, SameSmall
  <2>7. OfBase(c, k) # Infinity
    BY <1>0, <2>1, <2>6, NotIdentity
  <2> QED
    BY <1>0, <1>10, <1>12, <2>5, <2>7 DEF Signs
<1>13. ASSUME s > 0, s < q, pt # Infinity, pt[1] % q = r
       PROVE  \E k \in 1..(q - 1) : Signs(c, d, e, r, s, k)
  <2>1. PICK k \in 0..(q - 1) : k = z % q /\ Same(q, k, z) /\ k \in Nat
    <3>1. z % q \in 0..(q - 1) /\ Same(q, z % q, z)
      BY SameMod
    <3> QED
      BY <3>1
  <2>2. OfBase(c, z) = OfBase(c, k)
    BY <1>0, <2>1, OrderIs
  <2>3. OfBase(c, 0) = Infinity
    BY <2>1, OfBaseIs
  <2>4. k \in 1..(q - 1)
    BY <1>10, <1>13, <2>1, <2>2, <2>3
  <2>5. Same(q, r * d + k * e, s)
    BY <1>11, <2>1
  <2>6. s % q = s
    BY <1>13, SameSmall
  <2>7. (r * d + k * e) % q = s
    BY <2>5, <2>6 DEF Same
  <2> QED
    BY <1>0, <1>10, <1>13, <2>2, <2>4, <2>7 DEF Signs
<1> QED
  BY <1>0, <1>1, <1>7, <1>12, <1>13

-----------------------------------------------------------------------------
(* Signatures *)

LEMMA Residue ==
  ASSUME NEW m \in Nat \ {0}, NEW a \in Nat
  PROVE  \E r \in 0..(m - 1) : r = a % m
<1>1. a % m \in 0..(m - 1)
  BY SameMod
<1> QED
  BY <1>1

LEMMA SumOfProducts ==
  ASSUME NEW a \in Nat, NEW b \in Nat, NEW x \in Nat, NEW y \in Nat
  PROVE  a * b + x * y \in Nat
<1>1. PICK g \in Nat : g = a * b
  OBVIOUS
<1>2. PICK h \in Nat : h = x * y
  OBVIOUS
<1> QED
  BY <1>1, <1>2

LEMMA ByteSets ==
  /\ \A b \in Keys \cup Digests \cup Sigs \cup UKMs : b \in Seq(ByteVals)
  /\ \A c \in Curves : \A b \in Pubs(c) : b \in Seq(ByteVals)
  BY KeysAssumption

\* A scalar other than zero, as the calls compute it from raw bytes.
LEMMA ScalarIs ==
  ASSUME NEW c \in Curves, NEW b \in Seq(ByteVals)
  PROVE  SetBytes(b) \in Nat /\ SetBytes(b) % c.q \in 0..(c.q - 1)
<1>1. PICK q \in Nat \ {0} : q = c.q /\ q > 1
  BY CurveFacts
<1>2. PICK n \in Nat : n = SetBytes(b)
  BY SetBytesType
<1>3. n % q \in 0..(q - 1)
  BY SameMod
<1> QED
  BY <1>1, <1>2, <1>3

\* Multiples of the base point below q: never the identity, and both definitions agree.
LEMMA MultipleIs ==
  ASSUME NEW c \in Curves, GroupLaw(c), OrderLaw(c), NEW k \in 1..(c.q - 1)
  PROVE  /\ OfBase(c, k) \in Points(c) /\ OfBase(c, k) # Infinity
         /\ ScalarMult(c, k, Base(c)) = OfBase(c, k) /\ BaseMultiples[c][k] = OfBase(c, k)
<1>1. PICK q \in Nat \ {0} : q = c.q /\ q > 1
  BY CurveFacts
<1>2. k \in Nat /\ k \in 0..(c.q - 1) /\ k \in 0..(q - 1) /\ k # 0 /\ k < c.q
  BY <1>1
<1>3. k % q = k
  BY <1>2, SameSmall
<1>4. OfBase(c, k) # Infinity
  BY <1>1, <1>2, <1>3, NotIdentity
<1>5. k < 2^MaxBits
  BY <1>2, Below
<1>6. ScalarMult(c, k, Base(c)) = OfBase(c, k)
  BY <1>2, <1>5, CurveFacts, ScalarMultIs DEF OfBase
<1> QED
  BY <1>2, <1>4, <1>6, OfBaseIs

LEMMA PublicKeyIs ==
  ASSUME NEW c \in Curves, GroupLaw(c), OrderLaw(c), NEW prv \in Seq(ByteVals), NEW d,
         d = SetBytes(reverse(prv)) % c.q
  PROVE  /\ d \in 0..(c.q - 1)
         /\ IF d = 0 THEN PublicKeyRaw(c, prv) = Nil
            ELSE /\ PublicKeyRaw(c, prv) = pointLE(OfBase(c, d)) /\ PublicKeyRaw(c, prv) # Nil
                 /\ PublicKeyRaw(c, prv) \in Seq(ByteVals)
                 /\ Len(PublicKeyRaw(c, prv)) = 2 * PointSize
                 /\ PointOf(PublicKeyRaw(c, prv)) = OfBase(c, d)
<1>1. reverse(prv) \in Seq(ByteVals)
  BY ReverseIs
<1>2. d \in 0..(c.q - 1)
  BY <1>1, ScalarIs
<1>3. CASE d = 0
  BY <1>2, <1>3 DEF PublicKeyRaw
<1>4. CASE d # 0
  <2>1. d \in 1..(c.q - 1)
    BY <1>2, <1>4, CurveFacts
  <2>2. PICK pt \in Points(c) : pt = OfBase(c, d) /\ pt # Infinity /\ ScalarMult(c, d, Base(c)) = pt
    BY <2>1, MultipleIs
  <2>3. PublicKeyRaw(c, prv) = pointLE(pt)
    BY <1>4, <2>2 DEF PublicKeyRaw
  <2> QED
    BY <1>2, <1>4, <2>2, <2>3, PointLE
<1> QED
  BY <1>3, <1>4

\* What SignDigest returns verifies.
LEMMA SignedVerifies ==
  ASSUME NEW c \in Curves, GroupLaw(c), OrderLaw(c), NEW prv \in Seq(ByteVals),
         NEW digest \in Seq(ByteVals), NEW n \in Seq(ByteVals), SignDigest(c, prv, digest, n) # Nil
  PROVE  VerifyDigest(c, PublicKeyRaw(c, prv), digest, SignDigest(c, prv, digest, n))
<1>1. PICK q \in Nat \ {0} : q = c.q /\ q > 1 /\ q < R
  BY CurveFacts
<1>2. PICK d, k : d = SetBytes(reverse(prv)) % c.q /\ k = SetBytes(n) % c.q
  OBVIOUS
<1>3. d \in 0..(q - 1) /\ k \in 0..(q - 1)
  BY <1>1, <1>2, ReverseIs, ScalarIs
<1>4. d # 0 /\ k # 0
  BY <1>2 DEF SignDigest
<1>5. d \in 1..(q - 1) /\ k \in 1..(q - 1) /\ d \in Nat /\ k \in Nat
  BY <1>3, <1>4
<1>6. PICK pt \in Points(c) : pt = OfBase(c, k) /\ pt # Infinity /\ ScalarMult(c, k, Base(c)) = pt
  BY <1>1, <1>5, MultipleIs
<1>7. PICK e \in 1..(q - 1) : e = DigestInt(c, digest) /\ e \in Nat
  BY <1>1, DigestIntIs
<1>8. PICK x \in Nat : x = pt[1]
  BY <1>6, Coordinates
<1>9. PICK r \in 0..(q - 1) : r = x % q
  BY Residue
<1>10. PICK m \in Nat : m = r * d + k * e
  <2>1. r \in Nat
    OBVIOUS
  <2> QED
    BY <1>5, <1>7, <2>1, SumOfProducts
<1>11. PICK s \in 0..(q - 1) : s = m % q
  BY Residue
<1>12. SignDigest(c, prv, digest, n) = IF r = 0 THEN Nil ELSE signature(r, s)
  BY <1>1, <1>2, <1>4, <1>6, <1>7, <1>8, <1>9, <1>10, <1>11 DEF SignDigest
<1>13. r # 0 /\ s # 0 /\ SignDigest(c, prv, digest, n) = fillBE(s) \o fillBE(r)
  BY <1>12 DEF signature
<1>14. PICK sig : /\ sig = fillBE(s) \o fillBE(r) /\ Len(sig) = 2 * PointSize
                  /\ SetBytes(First(sig)) = s /\ SetBytes(Second(sig)) = r
  <2>1. r \in 0..(c.q - 1) /\ s \in 0..(c.q - 1)
    BY <1>1
  <2>2. r \in Nat /\ s \in Nat /\ r < R /\ s < R
    BY <2>1, Below
  <2>3. /\ Len(fillBE(s) \o fillBE(r)) = 2 * PointSize
        /\ SetBytes(First(fillBE(s) \o fillBE(r))) = s /\ SetBytes(Second(fillBE(s) \o fillBE(r))) = r
    BY <2>2, SignatureOf
  <2> QED
    BY <2>3, Zenon
<1>15. PICK pub : pub = PublicKeyRaw(c, prv) /\ Len(pub) = 2 * PointSize /\ PointOf(pub) = OfBase(c, d)
  BY <1>2, <1>4, PublicKeyIs
<1>16. Signs(c, d, e, r, s, k)
  BY <1>1, <1>6, <1>8, <1>9, <1>10, <1>11 DEF Signs
<1>17. r \in 1..(c.q - 1) /\ s \in 1..(c.q - 1) /\ d \in 1..(c.q - 1) /\ k \in 1..(c.q - 1)
  <2>1. r # 0 /\ s # 0
    BY <1>13
  <2>2. r \in 1..(q - 1) /\ s \in 1..(q - 1)
    BY <2>1
  <2> QED
    BY <1>1, <1>5, <2>2
<1>18. VerifyDigest(c, pub, digest, sig)
  <2>1. r \in Nat /\ s \in Nat
    OBVIOUS
  <2> QED
    BY <1>7, <1>14, <1>15, <1>16, <1>17, <2>1, VerifyIs
<1> QED
  BY <1>13, <1>14, <1>15, <1>18

\* Some nonce signs with the public key d * P.
SomeNonce(c, d, digest, sig) ==
  \E k \in 1..(c.q - 1) :
    LET r == BaseMultiples[c][k][1] % c.q
        s == (r * d + k * DigestInt(c, digest)) % c.q
    IN  r # 0 /\ s # 0 /\ sig = fillBE(s) \o fillBE(r)

SignedBy(c, d, e, k, r, s, sig) ==
  /\ r = BaseMultiples[c][k][1] % c.q /\ s = (r * d + k * e) % c.q
  /\ sig = fillBE(s) \o fillBE(r)

LEMMA VerifiedSigned ==
  ASSUME NEW c \in Curves, GroupLaw(c), OrderLaw(c), NEW d \in 1..(c.q - 1),
         NEW pubRaw, Len(pubRaw) = 2 * PointSize, PointOf(pubRaw) = BaseMultiples[c][d],
         NEW digest \in Seq(ByteVals), NEW sig \in Seq(ByteVals)
  PROVE  VerifyDigest(c, pubRaw, digest, sig) <=> SomeNonce(c, d, digest, sig)
<1>1. PICK q \in Nat \ {0} : q = c.q /\ q > 1 /\ q < R
  BY CurveFacts
<1>2. PICK e \in 1..(q - 1) : e = DigestInt(c, digest) /\ e \in Nat
  BY <1>1, DigestIntIs
<1>3. d \in Nat /\ PointOf(pubRaw) = OfBase(c, d)
  BY <1>1, MultipleIs
<1>4. ASSUME NEW k \in 1..(q - 1), NEW rr, NEW ss, NEW sg, SignedBy(c, d, e, k, rr, ss, sg)
      PROVE  /\ rr \in 0..(q - 1) /\ ss \in 0..(q - 1) /\ Signs(c, d, e, rr, ss, k)
             /\ Len(sg) = 2 * PointSize /\ SetBytes(First(sg)) = ss /\ SetBytes(Second(sg)) = rr
  <2>1. PICK pt \in Points(c) : pt = OfBase(c, k) /\ pt # Infinity /\ BaseMultiples[c][k] = pt
    BY <1>1, MultipleIs
  <2>2. PICK x \in Nat : x = pt[1]
    BY <2>1, Coordinates
  <2>3. PICK r \in 0..(q - 1) : r = x % q
    BY Residue
  <2>4. r \in Nat /\ k \in Nat
    OBVIOUS
  <2>5. PICK m \in Nat : m = r * d + k * e
    BY <1>2, <1>3, <2>4, SumOfProducts
  <2>6. PICK s \in 0..(q - 1) : s = m % q
    BY Residue
  <2>7. rr = r /\ ss = s
    BY <1>1, <1>4, <2>1, <2>2, <2>3, <2>5, <2>6 DEF SignedBy
  <2>8. r \in 0..(c.q - 1) /\ s \in 0..(c.q - 1)
    BY <1>1
  <2>9. r < R /\ s < R /\ s \in Nat
    BY <2>8, Below
  <2>10. Signs(c, d, e, r, s, k)
    BY <1>1, <2>1, <2>2, <2>3, <2>5, <2>6 DEF Signs
  <2>11. Len(sg) = 2 * PointSize /\ SetBytes(First(sg)) = s /\ SetBytes(Second(sg)) = r
    <3>1. /\ Len(fillBE(s) \o fillBE(r)) = 2 * PointSize
          /\ SetBytes(First(fillBE(s) \o fillBE(r))) = s /\ SetBytes(Second(fillBE(s) \o fillBE(r))) = r
      BY <2>4, <2>9, SignatureOf
    <3> QED
      BY <1>4, <2>7, <3>1, Zenon DEF SignedBy
  <2> QED
    BY <2>7, <2>10, <2>11
<1>5. CASE Len(sig) # 2 * PointSize
  <2>1. ~ VerifyDigest(c, pubRaw, digest, sig)
    BY <1>5 DEF VerifyDigest
  <2>2. ASSUME SomeNonce(c, d, digest, sig) PROVE FALSE
    <3>1. PICK k \in 1..(q - 1) : \E rr, ss : SignedBy(c, d, e, k, rr, ss, sig)
      BY <1>1, <1>2, <2>2 DEF SomeNonce, SignedBy
    <3> QED
      BY <1>4, <1>5, <3>1
  <2> QED
    BY <2>1, <2>2
<1>6. CASE Len(sig) = 2 * PointSize
  <2>1. PICK r \in Nat, s \in Nat : /\ s = SetBytes(First(sig)) /\ r = SetBytes(Second(sig))
                                    /\ sig = fillBE(s) \o fillBE(r)
    BY <1>6, OfSignature
  <2>2. VerifyDigest(c, pubRaw, digest, sig) <=>
           /\ r \in 1..(q - 1) /\ s \in 1..(q - 1)
           /\ \E k \in 1..(q - 1) : Signs(c, d, e, r, s, k)
    BY <1>1, <1>2, <1>3, <1>6, <2>1, VerifyIs
  <2>3. ASSUME r \in 1..(q - 1), s \in 1..(q - 1), NEW k \in 1..(q - 1), Signs(c, d, e, r, s, k)
        PROVE  SomeNonce(c, d, digest, sig)
    <3>1. BaseMultiples[c][k] = OfBase(c, k)
      BY <1>1, MultipleIs
    <3>2. r = BaseMultiples[c][k][1] % c.q /\ s = (r * d + k * e) % c.q
      BY <2>3, <3>1 DEF Signs
    <3>3. r # 0 /\ s # 0 /\ k \in 1..(c.q - 1)
      BY <1>1, <2>3
    <3> QED
      BY <1>2, <2>1, <3>2, <3>3 DEF SomeNonce
  <2>4. ASSUME SomeNonce(c, d, digest, sig)
        PROVE  r \in 1..(q - 1) /\ s \in 1..(q - 1) /\ \E k \in 1..(q - 1) : Signs(c, d, e, r, s, k)
    <3>1. PICK k \in 1..(q - 1) : \E rr, ss : rr # 0 /\ ss # 0 /\ SignedBy(c, d, e, k, rr, ss, sig)
      BY <1>1, <1>2, <2>4 DEF SomeNonce, SignedBy
    <3>2. PICK rr, ss : rr # 0 /\ ss # 0 /\ SignedBy(c, d, e, k, rr, ss, sig)
      BY <3>1
    <3>3. /\ rr \in 0..(q - 1) /\ ss \in 0..(q - 1) /\ Signs(c, d, e, rr, ss, k)
          /\ SetBytes(First(sig)) = ss /\ SetBytes(Second(sig)) = rr
      BY <1>4, <3>2
    <3>4. r = rr /\ s = ss
      BY <2>1, <3>3
    <3>5. rr # 0 /\ ss # 0 /\ rr \in 0..(q - 1) /\ ss \in 0..(q - 1)
      BY <3>2, <3>3
    <3>6. rr \in 1..(q - 1) /\ ss \in 1..(q - 1)
      BY <3>5
    <3> QED
      BY <3>3, <3>4, <3>6
  <2> QED
    BY <2>2, <2>3, <2>4
<1> QED
  BY <1>5, <1>6

-----------------------------------------------------------------------------
(* Key agreement *)

\* A multiple of f, reduced modulo f * q: a multiple of f still, and the same
\* modulo q.
LEMMA Reduced ==
  ASSUME NEW q \in Nat \ {0}, NEW f \in Nat \ {0}, NEW m \in Nat
  PROVE  \E x \in Nat, u \in Nat :
           u = (m * f) % (f * q) /\ u = f * x /\ u < f * q /\ Same(q, u, m * f)
<1>1. PICK n \in Nat, g \in Nat \ {0} : n = m * f /\ g = f * q
  <2>1. PICK n \in Nat : n = m * f
    OBVIOUS
  <2>2. f * q \in Nat /\ f * q # 0
    OBVIOUS
  <2> QED
    BY <2>1, <2>2
<1>2. PICK a \in Nat, u \in 0..(g - 1) : n = a * g + u /\ n % g = u
  BY DivModNames
<1>3. PICK x \in 0..(q - 1) : x = m % q
  BY Residue
<1>4. PICK b \in Nat : m = b * q + x
  BY <1>3, DivModNames
<1>5. n = b * g + f * x
  <2>1. n = (b * q + x) * f
    BY <1>1, <1>4
  <2>2. (b * q + x) * f = b * (f * q) + f * x
    BY <1>3
  <2> QED
    BY <1>1, <2>1, <2>2
<1>6. x \in Nat /\ x + 1 <= q
  BY <1>3
<1>7. PICK y \in Nat : y = f * x
  BY <1>6
<1>8. y < g
  <2>1. f * (x + 1) <= f * q
    BY <1>6
  <2>2. f * (x + 1) = f * x + f
    BY <1>6
  <2> QED
    BY <1>1, <1>7, <2>1, <2>2
<1>9. y \in 0..(g - 1)
  BY <1>7, <1>8
<1>10. n % g = y
  <2>1. (b * g + y) % g = y
    BY <1>9, DivModOf
  <2> QED
    BY <1>5, <1>7, <2>1
<1>11. Same(q, y, n)
  <2>1. PICK h \in Nat : h = b * f
    OBVIOUS
  <2>2. b * g = h * q
    <3>1. b * (f * q) = (b * f) * q
      OBVIOUS
    <3> QED
      BY <1>1, <2>1, <3>1
  <2>3. n = h * q + y
    BY <1>5, <1>7, <2>2
  <2>4. y + h * q = n + 0 * q
    BY <1>7, <2>3
  <2>5. Same(q, y, n) <=> \E i, j \in Nat : y + i * q = n + j * q
    BY SameIff
  <2> QED
    BY <2>1, <2>4, <2>5
<1> QED
  BY <1>1, <1>6, <1>7, <1>8, <1>10, <1>11

LEMMA CofactorIs ==
  ASSUME NEW c \in Curves, c.cofactor \in {1, 4}
  PROVE  /\ c.cofactor \in Nat \ {0} /\ c.cofactor < 2^MaxBits
         /\ c.cofactor * c.q <= 2^MaxBits
<1>1. PICK q \in Nat \ {0} : q = c.q /\ q > 1 /\ q < R
  BY CurveFacts
<1>2. PICK w \in Nat : w = R /\ 4 * w = 2^MaxBits
  BY CurveFacts
<1>3. PICK f \in {1, 4} : f = c.cofactor
  OBVIOUS
<1>4. f * q <= 4 * w /\ f < 4 * w
  BY <1>1, <1>2, <1>3
<1> QED
  BY <1>1, <1>2, <1>3, <1>4

\* What agreementRaw computes from any point.
LEMMA AgreementIs ==
  ASSUME NEW c \in Curves, GroupLaw(c), NEW k1 \in Points(c), NEW ukm \in Nat, c.cofactor \in {1, 4}
  PROVE  \E x \in Nat, u \in Nat :
           /\ u = c.cofactor * x /\ Same(c.q, u, ukm * c.cofactor)
           /\ agreementRaw(c, k1, ukm) =
                IF ukm = 0 THEN <<"zeroUKM", Nil>>
                ELSE IF Times(c, u, k1) = Infinity THEN <<"identity", Nil>>
                ELSE <<"ok", pointLE(Times(c, u, k1))>>
<1>1. PICK q \in Nat \ {0} : q = c.q /\ q > 1
  BY CurveFacts
<1>2. PICK f \in Nat \ {0} : f = c.cofactor /\ f * q <= 2^MaxBits
  BY <1>1, CofactorIs
<1>3. PICK x \in Nat, u \in Nat :
        u = (ukm * f) % (f * q) /\ u = f * x /\ u < f * q /\ Same(q, u, ukm * f)
  BY Reduced
<1>4. u = (ukm * c.cofactor) % fullOrder(c)
  BY <1>1, <1>2, <1>3 DEF fullOrder
<1>5. u < 2^MaxBits
  <2>1. PICK g \in Nat, w \in Nat : g = f * q /\ w = 2^MaxBits /\ g <= w
    BY <1>2, PowerFacts
  <2> QED
    BY <1>3, <2>1
<1>6. ScalarMult(c, u, k1) = Times(c, u, k1)
  BY <1>5, ScalarMultIs
<1>7. Times(c, 0, k1) = Infinity /\ Times(c, 1, k1) = k1
  BY TimesIs
<1>8. k1 = Infinity => Times(c, u, k1) = Infinity
  BY TimesInfinity
<1>9. PICK t : t = Times(c, u, k1)
  OBVIOUS
<1>10. (u = 0 => t = Infinity) /\ (u = 1 => t = k1) /\ (k1 = Infinity => t = Infinity)
  BY <1>7, <1>8, <1>9
<1>11. agreementRaw(c, k1, ukm) =
         IF ukm = 0 THEN <<"zeroUKM", Nil>>
         ELSE IF t = Infinity THEN <<"identity", Nil>>
         ELSE <<"ok", pointLE(t)>>
  <2>1. agreementRaw(c, k1, ukm) =
          IF ukm = 0 THEN <<"zeroUKM", Nil>>
          ELSE IF k1 = Infinity THEN <<"identity", Nil>>
          ELSE IF u = 0 THEN <<"identity", Nil>>
          ELSE IF (IF u = 1 THEN k1 ELSE t) = Infinity THEN <<"identity", Nil>>
          ELSE <<"ok", pointLE(IF u = 1 THEN k1 ELSE t)>>
    BY <1>4, <1>6, <1>9 DEF agreementRaw
  <2> QED
    BY <1>10, <2>1
<1> QED
  BY <1>1, <1>2, <1>3, <1>9, <1>11

LEMMA SecretIs ==
  ASSUME NEW c \in Curves, GroupLaw(c), NEW flag \in BOOLEAN, NEW k \in 0..(c.q - 1),
         NEW pt \in Points(c), NEW k1 \in ScalarMultSecret(c, flag, k, pt)
  PROVE  k1 \in Points(c) /\ (k1 = Times(c, k, pt) \/ ~InSubgroup(c, pt))
<1>1. k \in Nat /\ k < 2^MaxBits
  BY Below
<1>2. ScalarMult(c, k, pt) = Times(c, k, pt) /\ Times(c, k, pt) \in Points(c)
  BY <1>1, ScalarMultIs, TimesIs
<1>3. k1 = ScalarMult(c, k, pt) \/ (k1 = Infinity /\ ~InSubgroup(c, pt))
  BY DEF ScalarMultSecret
<1> QED
  BY <1>2, <1>3, Neutral

AgreedAt(c, n, d, e) == BaseMultiples[c][(c.cofactor * n * d * e) % c.q]

\* Both sides of an agreement get the point (cofactor * UKM * d * e) * P.
LEMMA AgreedPoint ==
  ASSUME NEW c \in Curves, GroupLaw(c), OrderLaw(c), c.cofactor \in {1, 4},
         NEW d \in 1..(c.q - 1), NEW e \in 1..(c.q - 1), NEW ukm \in Nat, NEW flag \in BOOLEAN,
         NEW k1 \in ScalarMultSecret(c, flag, d, OfBase(c, e)), NEW k,
         k = AgreedAt(c, ukm, d, e)
  PROVE  agreementRaw(c, k1, ukm) = IF ukm = 0 THEN <<"zeroUKM", Nil>>
                                    ELSE IF k = Infinity THEN <<"identity", Nil>>
                                    ELSE <<"ok", pointLE(k)>>
<1>1. PICK q \in Nat \ {0} : q = c.q /\ q > 1
  BY CurveFacts
<1>2. PICK f \in Nat \ {0} : f = c.cofactor
  BY CofactorIs
<1>3. d \in Nat /\ e \in Nat /\ d \in 0..(c.q - 1)
  BY <1>1
<1>4. OfBase(c, e) \in Points(c) /\ InSubgroup(c, OfBase(c, e))
  BY <1>3, OfBaseIs, SubgroupIs
<1>5. k1 = Times(c, d, OfBase(c, e)) /\ k1 \in Points(c)
  BY <1>3, <1>4, SecretIs
<1>6. PICK g \in Nat : g = e * d
  BY <1>3
<1>7. k1 = OfBase(c, g)
  BY <1>3, <1>5, <1>6, CurveFacts, TimesTimes DEF OfBase
<1>8. PICK x \in Nat, u \in Nat :
        /\ Same(c.q, u, ukm * c.cofactor)
        /\ agreementRaw(c, k1, ukm) =
             IF ukm = 0 THEN <<"zeroUKM", Nil>>
             ELSE IF Times(c, u, k1) = Infinity THEN <<"identity", Nil>>
             ELSE <<"ok", pointLE(Times(c, u, k1))>>
  BY <1>5, AgreementIs
<1>9. PICK h \in Nat : h = g * u
  OBVIOUS
<1>10. Times(c, u, k1) = OfBase(c, h)
  BY <1>7, <1>9, CurveFacts, TimesTimes DEF OfBase
<1>11. PICK n \in Nat : n = ukm * f
  OBVIOUS
<1>12. PICK m \in Nat : m = g * n
  OBVIOUS
<1>13. f * ukm * d * e = m
  <2>1. f * ukm * d * e = (e * d) * (ukm * f)
    BY <1>3
  <2> QED
    BY <1>6, <1>11, <1>12, <2>1
<1>14. Same(q, h, m)
  BY <1>1, <1>2, <1>8, <1>9, <1>11, <1>12, SameTimes
<1>15. PICK j \in 0..(q - 1) : j = m % q
  BY Residue
<1>16. j \in Nat /\ j < c.q /\ Same(q, j, m)
  BY <1>1, <1>15, SameMod
<1>17. k = OfBase(c, j)
  <2>1. k = BaseMultiples[c][j]
    BY <1>1, <1>2, <1>13, <1>15 DEF AgreedAt
  <2> QED
    BY <1>16, <2>1, OfBaseIs
<1>18. OfBase(c, h) = OfBase(c, j)
  <2>1. Same(c.q, h, j)
    BY <1>1, <1>14, <1>16 DEF Same
  <2> QED
    BY <1>16, <2>1, OrderIs
<1> QED
  BY <1>8, <1>10, <1>17, <1>18

\* A point that is returned lies in the subgroup, from whichever point it comes.
LEMMA AgreedInSubgroup ==
  ASSUME NEW c \in Curves, GroupLaw(c), OrderLaw(c), NEW k1 \in Points(c), NEW ukm \in Nat,
         agreementRaw(c, k1, ukm)[1] = "ok"
  PROVE  \E pt \in Points(c) : /\ pt # Infinity /\ InSubgroup(c, pt)
                               /\ agreementRaw(c, k1, ukm)[2] = pointLE(pt)
<1>1. c.cofactor \in {1, 4}
  BY DEF agreementRaw
<1>2. PICK f \in Nat \ {0} : f = c.cofactor /\ f < 2^MaxBits
  BY <1>1, CofactorIs
<1>3. PICK x \in Nat, u \in Nat :
        /\ u = f * x
        /\ agreementRaw(c, k1, ukm) =
             IF ukm = 0 THEN <<"zeroUKM", Nil>>
             ELSE IF Times(c, u, k1) = Infinity THEN <<"identity", Nil>>
             ELSE <<"ok", pointLE(Times(c, u, k1))>>
  BY <1>1, <1>2, AgreementIs
<1>4. PICK pt \in Points(c) : pt = Times(c, u, k1)
  BY TimesIs
<1>5. pt # Infinity /\ agreementRaw(c, k1, ukm)[2] = pointLE(pt)
  BY <1>3, <1>4
<1>6. PICK l \in Nat : Times(c, f, k1) = OfBase(c, l)
  <2>1. InSubgroup(c, ScalarMult(c, c.cofactor, k1))
    BY DEF OrderLaw
  <2>2. ScalarMult(c, f, k1) = Times(c, f, k1)
    BY <1>2, ScalarMultIs
  <2> QED
    BY <1>2, <2>1, <2>2, SubgroupIs
<1>7. pt = Times(c, x, Times(c, f, k1))
  BY <1>3, <1>4, TimesTimes
<1>8. PICK m \in Nat : m = l * x
  OBVIOUS
<1>9. pt = OfBase(c, m)
  BY <1>6, <1>7, <1>8, CurveFacts, TimesTimes DEF OfBase
<1>10. InSubgroup(c, pt)
  BY <1>9, SubgroupIs
<1> QED
  BY <1>5, <1>10

\* loadPrivateLE and loadPublicLE.
LEMMA PrivateIs ==
  ASSUME NEW c \in Curves, NEW prv \in Seq(ByteVals), NEW d, d = leBytes2big(prv) % c.q
  PROVE  /\ d \in 0..(c.q - 1) /\ loadPrivateLE(c, prv)[2] = d
         /\ Len(prv) = PointSize => loadPrivateLE(c, prv)[1] = IF d = 0 THEN "zeroPrivate" ELSE "ok"
         /\ loadPrivateLE(c, prv)[1] \in {"badPrivLen", "zeroPrivate", "ok"}
<1>1. d \in 0..(c.q - 1)
  BY ReverseIs, ScalarIs DEF leBytes2big
<1> QED
  BY <1>1 DEF loadPrivateLE

LEMMA PublicIs ==
  ASSUME NEW c \in Curves, NEW pub \in Seq(ByteVals)
  PROVE  /\ loadPublicLE(c, pub)[1] = "ok" => loadPublicLE(c, pub)[2] \in Points(c)
         /\ loadPublicLE(c, pub)[1] \in {"badPubLen", "pubNotOn", "ok"}
         /\ \A pt \in Points(c) :
              Len(pub) = 2 * PointSize /\ pt # Infinity /\ PointOf(pub) = pt => loadPublicLE(c, pub) = <<"ok", pt>>
<1>1. ASSUME loadPublicLE(c, pub)[1] = "ok" PROVE loadPublicLE(c, pub)[2] \in Points(c)
  <2>1. Len(pub) = 2 * PointSize
    BY <1>1 DEF loadPublicLE
  <2>2. PICK x \in Nat, y \in Nat : x = leBytes2big(First(pub)) /\ y = leBytes2big(Second(pub))
    BY <2>1, JoinHalves, ReverseIs, SetBytesType DEF leBytes2big
  <2>3. loadPublicLE(c, pub)[2] = <<x, y>> /\ IsOnCurve(c, <<x, y>>)
    BY <1>1, <2>1, <2>2 DEF loadPublicLE
  <2>4. <<x, y>> # Infinity
    BY DEF Infinity
  <2> QED
    BY <2>3, <2>4 DEF Points, IsOnCurve
<1>2. ASSUME NEW pt \in Points(c), Len(pub) = 2 * PointSize, pt # Infinity, PointOf(pub) = pt
      PROVE  loadPublicLE(c, pub) = <<"ok", pt>>
  <2>1. IsOnCurve(c, pt)
    BY <1>2, Coordinates
  <2> QED
    BY <1>2, <2>1 DEF loadPublicLE, PointOf
<1>3. loadPublicLE(c, pub)[1] \in {"badPubLen", "pubNotOn", "ok"}
  BY DEF loadPublicLE
<1> QED
  BY <1>1, <1>2, <1>3

\* The outcome of an agreement for the private scalar d, the UKM n and the point k.
Outcome(d, n, k) ==
  IF d = 0 THEN <<"zeroPrivate", Nil>>
  ELSE IF n = 0 THEN <<"zeroUKM", Nil>>
  ELSE IF k = Infinity THEN <<"identity", Nil>>
  ELSE <<"ok", pointLE(k)>>

LEMMA KekExact ==
  ASSUME NEW c \in Curves, GroupLaw(c), OrderLaw(c), c.cofactor \in {1, 4}, NEW flag \in BOOLEAN,
         NEW prv \in Seq(ByteVals), NEW pub \in Seq(ByteVals), NEW ukm \in Seq(ByteVals),
         Len(prv) = PointSize, Len(pub) = 2 * PointSize,
         NEW e \in 1..(c.q - 1), PointOf(pub) = BaseMultiples[c][e],
         NEW d, d = leBytes2big(prv) % c.q, NEW n, n = leBytes2big(ukm),
         NEW k, k = AgreedAt(c, n, d, e), NEW out \in kek(c, flag, prv, pub, ukm)
  PROVE  out = Outcome(d, n, k)
<1>1. /\ d \in 0..(c.q - 1) /\ loadPrivateLE(c, prv)[2] = d
      /\ loadPrivateLE(c, prv)[1] = IF d = 0 THEN "zeroPrivate" ELSE "ok"
  BY PrivateIs
<1>2. PICK y \in Points(c) : y = OfBase(c, e) /\ y # Infinity /\ PointOf(pub) = y
  BY MultipleIs
<1>3. loadPublicLE(c, pub)[1] = "ok" /\ loadPublicLE(c, pub)[2] = y
  BY <1>2, PublicIs
<1>4. n \in Nat
  BY ReverseIs, SetBytesType DEF leBytes2big
<1>5. CASE d = 0
  BY <1>1, <1>5 DEF kek, Outcome
<1>6. CASE d # 0
  <2>1. PICK k1 \in ScalarMultSecret(c, flag, d, y) : out = agreementRaw(c, k1, n)
    BY <1>1, <1>3, <1>6 DEF kek
  <2>2. d \in 1..(c.q - 1)
    BY <1>1, <1>6, CurveFacts
  <2>3. agreementRaw(c, k1, n) = IF n = 0 THEN <<"zeroUKM", Nil>>
                                 ELSE IF k = Infinity THEN <<"identity", Nil>>
                                 ELSE <<"ok", pointLE(k)>>
    BY <1>2, <1>4, <2>1, <2>2, AgreedPoint
  <2> QED
    BY <1>6, <2>1, <2>3 DEF Outcome
<1> QED
  BY <1>5, <1>6

LEMMA KekInSubgroup ==
  ASSUME NEW c \in Curves, GroupLaw(c), OrderLaw(c), NEW flag \in BOOLEAN,
         NEW prv \in Seq(ByteVals), NEW pub \in Seq(ByteVals), NEW ukm \in Seq(ByteVals),
         NEW out \in kek(c, flag, prv, pub, ukm), out[1] = "ok"
  PROVE  PointOf(out[2]) # Infinity /\ InSubgroup(c, PointOf(out[2]))
<1>1. PICK d : d = leBytes2big(prv) % c.q
  OBVIOUS
<1>2. d \in 0..(c.q - 1) /\ loadPrivateLE(c, prv)[2] = d
  BY <1>1, PrivateIs
<1>3. PICK n \in Nat : n = leBytes2big(ukm)
  BY ReverseIs, SetBytesType DEF leBytes2big
<1>4. loadPrivateLE(c, prv)[1] = "ok" /\ loadPublicLE(c, pub)[1] = "ok"
  BY DEF kek
<1>5. PICK y \in Points(c) : y = loadPublicLE(c, pub)[2]
  BY <1>4, PublicIs
<1>6. PICK k1 \in ScalarMultSecret(c, flag, d, y) : out = agreementRaw(c, k1, n)
  BY <1>2, <1>3, <1>4, <1>5 DEF kek
<1>7. k1 \in Points(c)
  BY <1>2, SecretIs
<1>8. PICK pt \in Points(c) : pt # Infinity /\ InSubgroup(c, pt) /\ out[2] = pointLE(pt)
  BY <1>6, <1>7, AgreedInSubgroup
<1> QED
  BY <1>8, PointLE

\* What GenerateEphemeralKey returns for the bytes raw.
Generated(c, raw) ==
  LET d   == leBytes2big(First(raw)) % c.q
      prv == putLE(d)
  IN  IF Len(raw) < PointSize THEN <<"randError", Nil>>
      ELSE IF d = 0 \/ PublicKeyRaw(c, prv) = Nil THEN <<"zeroPrivate", Nil>>
      ELSE <<"ok", prv \o PublicKeyRaw(c, prv)>>

LEMMA PairIs ==
  ASSUME NEW a \in Seq(ByteVals), NEW b \in Seq(ByteVals), Len(a) = PointSize, Len(b) = 2 * PointSize
  PROVE  SubSeq(a \o b, 1, PointSize) = a /\ SubSeq(a \o b, PointSize + 1, 3 * PointSize) = b
<1>1. PICK z \in Nat \ {0}, w \in Nat \ {0} : z = PointSize /\ w = 2 * z /\ z + w = 3 * z
  BY ByteFacts
<1>2. Len(a) = z /\ Len(b) = w
  BY <1>1
<1>3. Parted(a, b, z, w)
  BY <1>2, PartsOfJoin
<1>4. SubSeq(a \o b, 1, z) = a /\ SubSeq(a \o b, z + 1, z + w) = b
  BY <1>3 DEF Parted
<1> QED
  BY <1>1, <1>4

LEMMA GeneratedIs ==
  ASSUME NEW c \in Curves, GroupLaw(c), OrderLaw(c), NEW raw \in Seq(ByteVals), NEW out,
         out = Generated(c, raw), out[1] = "ok", NEW d, d = leBytes2big(First(out[2]))
  PROVE  /\ d \in 1..(c.q - 1)
         /\ PointOf(SubSeq(out[2], PointSize + 1, 3 * PointSize)) = BaseMultiples[c][d]
<1>1. PICK x : x = leBytes2big(First(raw)) % c.q
  OBVIOUS
<1>2. ~(Len(raw) < PointSize) /\ x # 0 /\ out = <<"ok", putLE(x) \o PublicKeyRaw(c, putLE(x))>>
  BY <1>1 DEF Generated
<1>3. First(raw) \in Seq(ByteVals)
  <2>1. PICK l \in Nat, z \in Nat \ {0} : l = Len(raw) /\ z = PointSize
    BY LenProperties, ByteFacts
  <2>2. 0 + z <= Len(raw)
    BY <1>2, <2>1
  <2>3. SubSeq(raw, 0 + 1, 0 + z) \in Seq(ByteVals)
    BY <2>2, PartIs
  <2>4. 0 + 1 = 1 /\ 0 + z = z
    OBVIOUS
  <2> QED
    BY <2>1, <2>3, <2>4 DEF First
<1>4. x \in 0..(c.q - 1)
  BY <1>1, <1>3, ReverseIs, ScalarIs DEF leBytes2big
<1>5. x \in Nat /\ x < R
  BY <1>4, Below
<1>6. x \in 1..(c.q - 1)
  BY <1>2, <1>4, CurveFacts
<1>7. PICK prv \in Seq(ByteVals) : prv = putLE(x) /\ Len(prv) = PointSize /\ leBytes2big(prv) = x
  BY <1>5, PutLE
<1>8. x = SetBytes(reverse(prv)) % c.q
  <2>1. PICK q \in Nat \ {0} : q = c.q /\ q > 1
    BY CurveFacts
  <2>2. x % q = x
    BY <1>4, <2>1, SameSmall
  <2> QED
    BY <1>7, <2>1, <2>2 DEF leBytes2big
<1>9. PICK pub \in Seq(ByteVals) : /\ pub = PublicKeyRaw(c, prv) /\ Len(pub) = 2 * PointSize
                                   /\ PointOf(pub) = OfBase(c, x)
  BY <1>2, <1>8, PublicKeyIs
<1>10. /\ SubSeq(prv \o pub, 1, PointSize) = prv
       /\ SubSeq(prv \o pub, PointSize + 1, 3 * PointSize) = pub
  BY <1>7, <1>9, PairIs
<1>11. out[2] = prv \o pub
  BY <1>2, <1>7, <1>9
<1>12. d = x
  BY <1>7, <1>10, <1>11 DEF First
<1> QED
  BY <1>6, <1>9, <1>10, <1>11, <1>12, MultipleIs

-----------------------------------------------------------------------------
(* The calls *)

\* A signature that some nonce below q produces.
Signature(c, prv, digest, sig) ==
  /\ sig # Nil
  /\ \E k \in 1..(c.q - 1) : sig = SignDigest(c, prv, digest, putLE(k))

SignCall ==
  job.op = "sign" =>
    /\ job.prv \in Keys /\ job.digest \in Digests
    /\ result[1] = "ok" => Signature(curve, job.prv, job.digest, result[2])

VerifyCall ==
  job.op = "verify" =>
    /\ job.pub \in Pubs(curve) /\ job.digest \in Digests /\ job.sig \in Sigs
    /\ result[2] = VerifyDigest(curve, job.pub, job.digest, job.sig)

AgreeCall ==
  job.op = "agree" =>
    /\ job.prv \in Keys /\ job.pub \in Pubs(curve) /\ job.ukm \in UKMs
    /\ result \in kek(curve, ct, job.prv, job.pub, job.ukm)

GenerateCall ==
  job.op = "generate" => job.raw \in Keys /\ result = Generated(curve, job.raw)

\* The inductive invariant: the result of a call is what its function computes from its
\* arguments, and only a multiplication is in its loop.
CallsInv ==
  /\ curve \in Curves /\ ct \in BOOLEAN
  /\ loop = <<>> \/ job.op = "multiply"
  /\ SignCall /\ VerifyCall /\ AgreeCall /\ GenerateCall

LEMMA CallsInit == Init => CallsInv
  BY DEF Init, CallsInv, SignCall, VerifyCall, AgreeCall, GenerateCall

\* A call of another kind.
LEMMA OtherCall ==
  ASSUME CallsInv, NEW o, NEW j, NEW r, j.op = o, Call(j, r),
         o \notin {"sign", "verify", "agree", "generate"}, job.op = "none"
  PROVE  CallsInv'
  BY DEF CallsInv, Call, SignCall, VerifyCall, AgreeCall, GenerateCall

LEMMA CallsNext == CallsInv /\ [Next]_vars => CallsInv'
<1> SUFFICES ASSUME CallsInv, [Next]_vars PROVE CallsInv'
  OBVIOUS
<1>1. CASE PublicKeyRawFromPrivate
  <2>1. PICK prv, r : Call([op |-> "public", prv |-> prv], r)
    BY <1>1 DEF PublicKeyRawFromPrivate
  <2>2. [op |-> "public", prv |-> prv].op = "public"
    OBVIOUS
  <2> QED
    BY <1>1, <2>1, <2>2, OtherCall DEF PublicKeyRawFromPrivate, Idle
<1>2. CASE VerifyDigestOnCurve
  <2>1. PICK pub \in Pubs(curve), digest \in Digests, sig \in Sigs :
          Call([op |-> "verify", pub |-> pub, digest |-> digest, sig |-> sig],
               <<"ok", VerifyDigest(curve, pub, digest, sig)>>)
    BY <1>2 DEF VerifyDigestOnCurve
  <2> QED
    BY <1>2, <2>1 DEF Call, CallsInv, SignCall, VerifyCall, AgreeCall, GenerateCall,
                      VerifyDigestOnCurve, Idle
<1>3. CASE GenerateEphemeralKey
  <2>1. PICK raw \in Keys : Call([op |-> "generate", raw |-> raw], Generated(curve, raw))
    BY <1>3 DEF GenerateEphemeralKey, Generated
  <2> QED
    BY <1>3, <2>1 DEF Call, CallsInv, SignCall, VerifyCall, AgreeCall, GenerateCall,
                      GenerateEphemeralKey, Idle
<1>4. CASE KEK
  <2>1. PICK prv \in Keys, pub \in Pubs(curve), ukm \in UKMs :
          \E r \in kek(curve, ct, prv, pub, ukm) :
            Call([op |-> "agree", prv |-> prv, pub |-> pub, ukm |-> ukm], r)
    BY <1>4 DEF KEK
  <2> QED
    BY <1>4, <2>1 DEF Call, CallsInv, SignCall, VerifyCall, AgreeCall, GenerateCall, KEK, Idle
<1>5. CASE Multiply
  <2>1. PICK k, pt, r : Call(Multiplies(k, pt), r)
    BY <1>5 DEF Multiply
  <2>2. Multiplies(k, pt).op = "multiply"
    BY DEF Multiplies
  <2> QED
    BY <1>5, <2>1, <2>2, OtherCall DEF Multiply, Idle
<1>6. CASE MultiplyCT
  BY <1>6 DEF MultiplyCT, Multiplies, CallsInv, SignCall, VerifyCall, AgreeCall, GenerateCall
<1>7. CASE FoldWindow
  BY <1>7 DEF FoldWindow, CallsInv, SignCall, VerifyCall, AgreeCall, GenerateCall
<1>8. CASE MultiplyDone
  BY <1>8 DEF MultiplyDone, CallsInv, SignCall, VerifyCall, AgreeCall, GenerateCall
<1>9. CASE SignDigestOnCurve
  <2>1. PICK prv \in Keys, digest \in Digests :
          Call([op |-> "sign", prv |-> prv, digest |-> digest], <<"none">>)
    BY <1>9 DEF SignDigestOnCurve
  <2> QED
    BY <1>9, <2>1 DEF Call, CallsInv, SignCall, VerifyCall, AgreeCall, GenerateCall,
                      SignDigestOnCurve, Idle
<1>10. CASE SignAttempt
  <2>1. PICK k \in 0..(curve.q - 1) :
          LET sig == IF k = 0 THEN Nil ELSE SignDigest(curve, job.prv, job.digest, putLE(k))
          IN  result' = IF sig = Nil THEN result ELSE <<"ok", sig>>
    BY <1>10 DEF SignAttempt
  <2>2. PICK sig : /\ result' = IF sig = Nil THEN result ELSE <<"ok", sig>>
                   /\ sig # Nil => k # 0 /\ sig = SignDigest(curve, job.prv, job.digest, putLE(k))
    BY <2>1
  <2>3. UNCHANGED <<curve, ct, job, loop>> /\ job.op = "sign" /\ result = <<"none">>
    BY <1>10 DEF SignAttempt, Signing
  <2>4. sig # Nil => Signature(curve, job.prv, job.digest, sig)
    <3>1. k # 0 => k \in 1..(curve.q - 1)
      BY CurveFacts DEF CallsInv
    <3> QED
      BY <2>2, <3>1 DEF Signature
  <2>5. result'[1] = "ok" => Signature(curve, job.prv, job.digest, result'[2])
    BY <2>2, <2>3, <2>4
  <2> QED
    BY <2>3, <2>5 DEF CallsInv, SignCall, VerifyCall, AgreeCall, GenerateCall
<1>11. CASE NonceError
  BY <1>11 DEF NonceError, Signing, CallsInv, SignCall, VerifyCall, AgreeCall, GenerateCall
<1>12. CASE ExhaustedAttempts
  BY <1>12 DEF ExhaustedAttempts, Signing, CallsInv, SignCall, VerifyCall, AgreeCall, GenerateCall
<1>13. CASE UNCHANGED vars
  BY <1>13 DEF vars, CallsInv, SignCall, VerifyCall, AgreeCall, GenerateCall
<1> QED
  BY <1>1, <1>2, <1>3, <1>4, <1>5, <1>6, <1>7, <1>8, <1>9, <1>10, <1>11, <1>12, <1>13 DEF Next

LEMMA CallsSafe == Spec => []CallsInv
  BY CallsInit, CallsNext, PTL DEF Spec

-----------------------------------------------------------------------------
(* The window loop *)

TableStep(c, P, i, s) == IF i = 1 THEN P ELSE ctAdd(c, s, P)
TableEqn(c, P, n, f) == f = [i \in 0..n |-> IF i = 0 THEN identity(c) ELSE TableStep(c, P, i, f[i - 1])]

\* The table of windowTable exists, whatever ctAdd computes.
LEMMA TableExists ==
  ASSUME NEW c, NEW P, NEW n \in Nat
  PROVE  \E f : TableEqn(c, P, n, f)
<1> DEFINE good == {k \in 0..n : \E f : TableEqn(c, P, k, f)}
<1>1. 0 \in good
  <2> DEFINE g == [i \in 0..0 |-> identity(c)]
  <2>1. \A i \in 0..0 : i = 0
    OBVIOUS
  <2>2. TableEqn(c, P, 0, g)
    BY <2>1 DEF TableEqn
  <2> QED
    BY <2>2
<1>2. ASSUME NEW k \in 0..(n - 1), k \in good PROVE k + 1 \in good
  <2>1. PICK f : TableEqn(c, P, k, f)
    BY <1>2
  <2> DEFINE g == [i \in 0..(k + 1) |-> IF i <= k THEN f[i] ELSE TableStep(c, P, k + 1, f[k])]
  <2>2. f[0] = identity(c)
    BY <2>1 DEF TableEqn
  <2>3. ASSUME NEW i \in 1..k PROVE f[i] = TableStep(c, P, i, f[i - 1])
    BY <2>1 DEF TableEqn
  <2>4. ASSUME NEW i \in 0..(k + 1)
        PROVE  g[i] = IF i = 0 THEN identity(c) ELSE TableStep(c, P, i, g[i - 1])
    <3>1. CASE i = 0
      BY <2>2, <3>1
    <3>2. CASE i \in 1..k
      <4>1. g[i] = f[i] /\ g[i - 1] = f[i - 1] /\ i # 0
        BY <3>2
      <4> QED
        BY <2>3, <3>2, <4>1
    <3>3. CASE i = k + 1
      <4>1. g[i] = TableStep(c, P, k + 1, f[k]) /\ g[i - 1] = f[k] /\ i # 0
        BY <3>3
      <4> QED
        BY <3>3, <4>1
    <3> QED
      BY <3>1, <3>2, <3>3
  <2>5. PICK h : h = g
    OBVIOUS
  <2>6. h = [i \in 0..(k + 1) |-> h[i]]
    BY <2>5
  <2>7. TableEqn(c, P, k + 1, h)
    <3>1. ASSUME NEW i \in 0..(k + 1)
          PROVE  h[i] = IF i = 0 THEN identity(c) ELSE TableStep(c, P, i, h[i - 1])
      BY <2>4, <2>5
    <3> HIDE DEF g
    <3> QED
      BY <2>6, <3>1 DEF TableEqn
  <2> QED
    BY <2>7
<1>3. 0..n \subseteq good
  <2> HIDE DEF good
  <2> QED
    BY <1>1, <1>2, InductionUpTo
<1> QED
  BY <1>3

LEMMA WindowSize == Window \in Nat \ {0} /\ Window \in 0..MaxBits /\ 2^Window \in Nat \ {0, 1}
<1>1. PICK b \in Nat \ {0}, l \in Nat \ {0} : b = LimbBits /\ l = Limbs
  BY LimbAssumption
<1>2. Window \in 1..b
  BY <1>1, LimbAssumption
<1>3. b <= b * l
  OBVIOUS
<1>4. PICK m \in Nat : m = b * l
  OBVIOUS
<1>5. MaxBits = m + 2
  BY <1>1, <1>4 DEF MaxBits
<1>6. Window \in Nat \ {0} /\ Window \in 0..MaxBits /\ Window - 1 \in 0..MaxBits /\ (Window - 1) + 1 = Window
  BY <1>2, <1>3, <1>4, <1>5
<1>7. 2^(Window - 1) \in Nat \ {0} /\ 2^((Window - 1) + 1) = 2 * 2^(Window - 1)
  BY <1>6, PowerFacts
<1>8. PICK v \in Nat \ {0} : v = 2^(Window - 1) /\ 2^Window = 2 * v
  BY <1>6, <1>7
<1> QED
  BY <1>6, <1>8

LEMMA TableIs ==
  ASSUME NEW c, NEW P, NEW tbl, tbl = windowTable(c, P)
  PROVE  /\ tbl[0] = identity(c) /\ tbl[1] = P
         /\ \A i \in 2..(2^Window - 1) : tbl[i] = ctAdd(c, tbl[i - 1], P)
<1>1. PICK n \in Nat : n = 2^Window - 1 /\ n >= 1
  BY WindowSize
<1>2. tbl = CHOOSE f : TableEqn(c, P, 2^Window - 1, f)
  BY DEF windowTable, TableEqn, TableStep
<1>3. TableEqn(c, P, n, tbl)
  BY <1>1, <1>2, TableExists
<1>4. tbl[0] = identity(c) /\ tbl[1] = TableStep(c, P, 1, tbl[0])
  BY <1>1, <1>3 DEF TableEqn
<1>5. ASSUME NEW i \in 2..n PROVE tbl[i] = TableStep(c, P, i, tbl[i - 1]) /\ i # 1
  BY <1>1, <1>3 DEF TableEqn
<1> QED
  BY <1>1, <1>4, <1>5 DEF TableStep

ShiftStep(c, P, i, s) == ctDouble(c, s)
ShiftEqn(c, P, n, f) == f = [i \in 0..n |-> IF i = 0 THEN P ELSE ShiftStep(c, P, i, f[i - 1])]

LEMMA ShiftExists ==
  ASSUME NEW c, NEW P, NEW n \in Nat
  PROVE  \E f : ShiftEqn(c, P, n, f)
<1> DEFINE good == {k \in 0..n : \E f : ShiftEqn(c, P, k, f)}
<1>1. 0 \in good
  <2> DEFINE g == [i \in 0..0 |-> P]
  <2>1. \A i \in 0..0 : i = 0
    OBVIOUS
  <2>2. ShiftEqn(c, P, 0, g)
    BY <2>1 DEF ShiftEqn
  <2> QED
    BY <2>2
<1>2. ASSUME NEW k \in 0..(n - 1), k \in good PROVE k + 1 \in good
  <2>1. PICK f : ShiftEqn(c, P, k, f)
    BY <1>2
  <2> DEFINE g == [i \in 0..(k + 1) |-> IF i <= k THEN f[i] ELSE ShiftStep(c, P, k + 1, f[k])]
  <2>2. f[0] = P
    BY <2>1 DEF ShiftEqn
  <2>3. ASSUME NEW i \in 1..k PROVE f[i] = ShiftStep(c, P, i, f[i - 1])
    BY <2>1 DEF ShiftEqn
  <2>4. ASSUME NEW i \in 0..(k + 1)
        PROVE  g[i] = IF i = 0 THEN P ELSE ShiftStep(c, P, i, g[i - 1])
    <3>1. CASE i = 0
      BY <2>2, <3>1
    <3>2. CASE i \in 1..k
      <4>1. g[i] = f[i] /\ g[i - 1] = f[i - 1] /\ i # 0
        BY <3>2
      <4> QED
        BY <2>3, <3>2, <4>1
    <3>3. CASE i = k + 1
      <4>1. g[i] = ShiftStep(c, P, k + 1, f[k]) /\ g[i - 1] = f[k] /\ i # 0
        BY <3>3
      <4> QED
        BY <3>3, <4>1
    <3> QED
      BY <3>1, <3>2, <3>3
  <2>5. PICK h : h = g
    OBVIOUS
  <2>6. h = [i \in 0..(k + 1) |-> h[i]]
    BY <2>5
  <2>7. ShiftEqn(c, P, k + 1, h)
    <3>1. ASSUME NEW i \in 0..(k + 1)
          PROVE  h[i] = IF i = 0 THEN P ELSE ShiftStep(c, P, i, h[i - 1])
      BY <2>4, <2>5
    <3> HIDE DEF g
    <3> QED
      BY <2>6, <3>1 DEF ShiftEqn
  <2> QED
    BY <2>7
<1>3. 0..n \subseteq good
  <2> HIDE DEF good
  <2> QED
    BY <1>1, <1>2, InductionUpTo
<1> QED
  BY <1>3

LEMMA ShiftIs ==
  ASSUME NEW c, NEW P
  PROVE  \E f : /\ f[0] = P /\ shifted(c, P) = f[Window]
                /\ \A i \in 1..Window : f[i] = ctDouble(c, f[i - 1])
<1> DEFINE f == CHOOSE f : ShiftEqn(c, P, Window, f)
<1>1. shifted(c, P) = f[Window]
  BY DEF shifted, ShiftEqn, ShiftStep
<1>2. ShiftEqn(c, P, Window, f)
  BY WindowSize, ShiftExists
<1> HIDE DEF f
<1>3. f[0] = P /\ \A i \in 1..Window : f[i] = ShiftStep(c, P, i, f[i - 1])
  BY <1>2, WindowSize DEF ShiftEqn
<1> QED
  BY <1>1, <1>3 DEF ShiftStep

-----------------------------------------------------------------------------
(* Montgomery arithmetic *)

\* Remainders of integers above or just below zero.
LEMMA ModBorrow ==
  ASSUME NEW d \in Nat \ {0}, NEW a \in 0..(d - 1)
  PROVE  (a - d) % d = a
  BY SMT

LEMMA LimbSizes ==
  /\ W \in Nat \ {0, 1} /\ R \in Nat \ {0, 1} /\ LimbBits \in 1..MaxBits /\ LimbBits * Limbs \in 1..MaxBits
<1>1. PICK l \in Nat \ {0}, n \in Nat \ {0} : l = LimbBits /\ n = Limbs
  BY LimbAssumption
<1>2. PICK t \in Nat : t = l * n
  OBVIOUS
<1>3. t >= l
  BY <1>2
<1>4. MaxBits = t + 2
  BY <1>1, <1>2 DEF MaxBits
<1>5. ASSUME NEW e \in 1..MaxBits PROVE 2^e \in Nat \ {0, 1}
  <2>1. e - 1 \in 0..MaxBits /\ (e - 1) + 1 = e
    BY <1>4
  <2>2. 2^(e - 1) \in Nat \ {0} /\ 2^((e - 1) + 1) = 2 * 2^(e - 1)
    BY <2>1, PowerFacts
  <2> QED
    BY <2>1, <2>2
<1> QED
  BY <1>1, <1>2, <1>3, <1>4, <1>5 DEF W, R

\* An odd number has an inverse modulo each power of two.
LEMMA OddInverse ==
  ASSUME NEW p \in Nat, p % 2 = 1, NEW n \in 0..MaxBits
  PROVE  \E y, k \in Nat : p * y = 1 + k * 2^n
<1> DEFINE good == {i \in 0..MaxBits : \E y, k \in Nat : p * y = 1 + k * 2^i}
<1>0. MaxBits \in Nat /\ 2^0 = 1 /\ p >= 1
  BY PowerFacts
<1>1. 0 \in good
  <2>1. p - 1 \in Nat /\ 1 \in Nat /\ p * 1 = 1 + (p - 1) * 1
    BY <1>0
  <2> QED
    BY <1>0, <2>1
<1>2. ASSUME NEW i \in 0..(MaxBits - 1), i \in good PROVE i + 1 \in good
  <2>1. i \in 0..MaxBits /\ i + 1 \in 0..MaxBits
    BY <1>0
  <2>2. PICK w \in Nat \ {0} : w = 2^i /\ 2^(i + 1) = 2 * w
    BY <2>1, PowerFacts
  <2>3. PICK y \in Nat, k \in Nat : p * y = 1 + k * w
    BY <1>2, <2>2
  <2>4. \E z, j \in Nat : p * z = 1 + j * (2 * w)
    <3>1. CASE k % 2 = 0
      <4>1. PICK j \in Nat : k = 2 * j
        BY <3>1
      <4>2. k * w = j * (2 * w)
        BY <4>1
      <4> QED
        BY <2>3, <4>1, <4>2
    <3>2. CASE k % 2 = 1
      <4>1. PICK j \in Nat : k + p = 2 * j
        <5>1. PICK l \in Nat : k = 2 * l + 1
          BY <3>2
        <5>2. PICK m \in Nat : p = 2 * m + 1
          OBVIOUS
        <5>3. l + m + 1 \in Nat /\ k + p = 2 * (l + m + 1)
          BY <5>1, <5>2
        <5> QED
          BY <5>3
      <4>2. PICK a \in Nat, b \in Nat, e \in Nat : a = k * w /\ b = p * w /\ e = p * y
        OBVIOUS
      <4>3. (k + p) * w = a + b /\ p * (y + w) = e + b
        BY <4>2
      <4>4. (2 * j) * w = j * (2 * w)
        OBVIOUS
      <4>5. y + w \in Nat /\ p * (y + w) = 1 + j * (2 * w)
        BY <2>3, <4>1, <4>2, <4>3, <4>4
      <4> QED
        BY <4>5
    <3> QED
      BY <3>1, <3>2
  <2> QED
    BY <2>1, <2>2, <2>4
<1>3. 0..MaxBits \subseteq good
  <2> HIDE DEF good
  <2> QED
    BY <1>0, <1>1, <1>2, InductionUpTo
<1> QED
  BY <1>3

\* The conditional subtraction of p, the overflow bit of the limbs included.
LEMMA CondSub ==
  ASSUME NEW p \in Nat \ {0}, p < R, NEW t \in 0..(2 * p - 1)
  PROVE  /\ condSubP(p, t % R, t \div R) = t % p /\ t % p \in 0..(p - 1)
<1>1. PICK r \in Nat \ {0} : r = R
  BY LimbSizes
<1>2. t \in Nat
  OBVIOUS
<1>3. CASE t < p
  <2>1. t \in 0..(p - 1) /\ t \in 0..(r - 1)
    BY <1>1, <1>2, <1>3
  <2>2. t % p = t /\ t % r = t /\ t \div r = 0
    BY <1>1, <2>1, SameSmall
  <2> QED
    BY <1>1, <1>3, <2>1, <2>2 DEF condSubP
<1>4. CASE t >= p
  <2>1. PICK u \in 0..(p - 1) : u = t - p /\ t = 1 * p + u /\ 1 \in Nat
    BY <1>2, <1>4
  <2>2. t % p = u
    <3>1. (1 * p + u) % p = u
      BY <2>1, DivModOf
    <3> QED
      BY <2>1, <3>1
  <2>3. u \in 0..(r - 1)
    BY <1>1, <2>1
  <2>4. u % r = u
    BY <2>3, SameSmall
  <2>5. CASE t < r
    <3>1. t \in 0..(r - 1)
      BY <1>2, <2>5
    <3>2. t % r = t /\ t \div r = 0
      BY <3>1, SameSmall
    <3> QED
      BY <1>1, <1>4, <2>1, <2>2, <2>4, <3>2 DEF condSubP
  <2>6. CASE t >= r
    <3>1. PICK v \in 0..(r - 1) : v = t - r /\ t = 1 * r + v
      BY <1>1, <1>2, <2>6
    <3>2. t % r = v /\ t \div r = 1
      BY <1>2, <2>1, <3>1, DivModIs
    <3>3. v - p = u - r /\ (u - r) % r = u
      BY <1>2, <2>1, <2>3, <3>1, ModBorrow
    <3> QED
      BY <1>1, <2>1, <2>2, <3>2, <3>3 DEF condSubP
  <2> QED
    BY <1>1, <1>2, <2>5, <2>6
<1> QED
  BY <1>2, <1>3, <1>4

LEMMA AddIs ==
  ASSUME NEW p \in Nat \ {0}, p < R, NEW a \in 0..(p - 1), NEW b \in 0..(p - 1)
  PROVE  feAdd(p, a, b) = (a + b) % p
<1>1. a + b \in 0..(2 * p - 1)
  OBVIOUS
<1> QED
  BY <1>1, CondSub DEF feAdd

LEMMA SubIs ==
  ASSUME NEW p \in Nat \ {0}, p < R, NEW a \in 0..(p - 1), NEW b \in 0..(p - 1)
  PROVE  feSub(p, a, b) = (a - b) % p
<1>1. PICK r \in Nat \ {0} : r = R /\ p < r
  BY LimbSizes
<1>2. CASE a < b
  <2>1. PICK u \in 0..(r - 1) : u = (a - b) + r
    BY <1>1, <1>2
  <2>2. (u - r) % r = u /\ u - r = a - b
    BY <2>1, ModBorrow
  <2>3. PICK v \in 0..(p - 1) : v = (a - b) + p
    BY <1>2
  <2>4. (v - p) % p = v /\ v - p = a - b
    BY <2>3, ModBorrow
  <2>5. v \in 0..(r - 1) /\ u + p = 1 * r + v /\ 1 \in Nat /\ u + p \in Nat
    BY <1>1, <2>1, <2>3
  <2>6. (u + p) % r = v
    BY <2>5, DivModIs
  <2> QED
    BY <1>1, <1>2, <2>2, <2>4, <2>6 DEF feSub
<1>3. CASE a >= b
  <2>1. PICK u \in 0..(p - 1) : u = a - b
    BY <1>3
  <2>2. u \in 0..(r - 1)
    BY <1>1
  <2>3. u % p = u /\ u % r = u
    BY <2>2, SameSmall
  <2> QED
    BY <1>1, <1>3, <2>1, <2>3 DEF feSub
<1> QED
  BY <1>2, <1>3

\* n0 is the inverse of -p modulo a limb.
LEMMA NegInverse ==
  ASSUME NEW p \in Nat, p % 2 = 1
  PROVE  n0(p) \in Nat /\ \E k \in Nat : 1 + n0(p) * p = k * W
<1>1. PICK w \in Nat \ {0} : w = W /\ w > 1
  BY LimbSizes
<1>2. PICK y \in Nat, j \in Nat : p * y = 1 + j * w
  <2>1. LimbBits \in 0..MaxBits
    BY LimbSizes
  <2>2. \E y, j \in Nat : p * y = 1 + j * 2^LimbBits
    BY <2>1, OddInverse
  <2> QED
    BY <1>1, <2>2 DEF W
<1>3. PICK u \in 0..(w - 1), z \in 0..(w - 1) : u = p % w /\ z = y % w
  BY Residue
<1>4. (u * z) % w = 1
  <2>0. Same(w, p % w, p) /\ Same(w, y % w, y)
    BY SameMod
  <2>1. Same(w, u, p) /\ Same(w, z, y) /\ u \in Nat /\ z \in Nat
    BY <1>3, <2>0
  <2>2. Same(w, u * z, p * z) /\ Same(w, p * z, p * y)
    BY <2>1, SameTimes
  <2>3. (1 + j * w) % w = 1
    <3>1. 1 \in 0..(w - 1)
      BY <1>1
    <3>2. (j * w + 1) % w = 1
      BY <3>1, DivModOf
    <3>3. PICK g \in Nat : g = j * w
      OBVIOUS
    <3> QED
      BY <3>2, <3>3
  <2> QED
    BY <1>2, <2>2, <2>3 DEF Same
<1>5. PICK v \in 0..(w - 1) : v = ModInverse(u, w) /\ (u * v) % w = 1
  <2>1. PICK v : v = CHOOSE x \in 0..(w - 1) : (u * x) % w = 1
    OBVIOUS
  <2>2. v \in 0..(w - 1) /\ (u * v) % w = 1
    BY <1>4, <2>1
  <2> QED
    BY <2>1, <2>2 DEF ModInverse
<1>6. n0(p) = w - v
  BY <1>1, <1>3, <1>5 DEF n0
<1>7. PICK k \in Nat : p * v = k * w + 1
  <2>0. Same(w, p % w, p)
    BY SameMod
  <2>1. Same(w, u, p) /\ u \in Nat /\ v \in Nat
    BY <1>3, <2>0
  <2>2. Same(w, u * v, p * v)
    BY <2>1, SameTimes
  <2>3. PICK g \in Nat : g = p * v
    BY <2>1
  <2>4. g % w = 1
    BY <1>5, <2>2, <2>3 DEF Same
  <2>5. PICK k \in Nat, r \in 0..(w - 1) : g = k * w + r /\ g % w = r
    BY DivModNames
  <2> QED
    BY <2>3, <2>4, <2>5
<1>8. PICK n \in Nat : n = w - v
  OBVIOUS
<1>9. 1 + n * p = (p - k) * w
  <2>1. PICK g \in Nat, h \in Nat, e \in Nat : g = p * v /\ h = k * w /\ e = p * w
    OBVIOUS
  <2>2. n * p = e - g
    <3>1. (w - v) * p = w * p - v * p /\ w * p = p * w /\ v * p = p * v
      OBVIOUS
    <3> QED
      BY <1>8, <2>1, <3>1
  <2>3. (p - k) * w = e - h
    BY <2>1
  <2> QED
    BY <1>7, <2>1, <2>2, <2>3
<1>10. p - k \in Nat
  <2>1. PICK g \in Nat : g = n * p
    OBVIOUS
  <2>2. (p - k) * w > 0
    BY <1>9, <2>1
  <2> QED
    BY <2>2
<1> QED
  BY <1>1, <1>6, <1>8, <1>9, <1>10

\* One row of CIOS, for limb d of the second factor.
Row(p, a, d, t) ==
  LET s == (t + a * d) % (R * W * W)
      m == ((s % W) * n0(p)) % W
  IN  ((s + m * p) \div W) % (R * W)

\* m makes the low limb zero.
LEMMA LowLimb ==
  ASSUME NEW p \in Nat, p % 2 = 1, NEW s \in Nat
  PROVE  \E m \in 0..(W - 1), h \in Nat : m = ((s % W) * n0(p)) % W /\ s + m * p = h * W
<1>1. PICK w \in Nat \ {0} : w = W /\ w > 1
  BY LimbSizes
<1>2. PICK n \in Nat, k \in Nat : n = n0(p) /\ 1 + n * p = k * w
  BY <1>1, NegInverse
<1>3. PICK l \in 0..(w - 1) : l = s % w /\ l \in Nat
  BY Residue
<1>4. PICK e \in Nat : e = l * n
  BY <1>3
<1>5. PICK m \in 0..(w - 1) : m = e % w /\ m \in Nat
  BY Residue
<1>6. PICK g \in Nat : g = m * p
  BY <1>5
<1>7. Same(w, g, e * p)
  <2>1. Same(w, m, e)
    BY <1>5, SameMod
  <2> QED
    BY <1>5, <1>6, <2>1, SameTimes
<1>8. Same(w, s, l)
  <2>1. Same(w, l, s)
    BY <1>3, SameMod
  <2> QED
    BY <2>1 DEF Same
<1>9. l + e * p = l * (k * w)
  <2>1. PICK x \in Nat : x = n * p
    OBVIOUS
  <2>2. e * p = l * x
    BY <1>3, <1>4, <2>1
  <2>3. l * (1 + x) = l + l * x
    BY <1>3, <2>1
  <2> QED
    BY <1>2, <2>1, <2>2, <2>3
<1>10. PICK y \in Nat, f \in Nat : y = e * p /\ f = l * k
  BY <1>3
<1>11. l + y = f * w
  <2>1. l * (k * w) = (l * k) * w
    BY <1>3
  <2> QED
    BY <1>9, <1>10, <2>1
<1>12. Same(w, s + g, l + y)
  BY <1>3, <1>7, <1>8, <1>10, SameSum
<1>13. PICK h \in Nat : s + g = h * w
  <2>1. (f * w + 0) % w = 0
    <3>1. 0 \in 0..(w - 1)
      BY <1>1
    <3> QED
      BY <3>1, DivModOf
  <2>2. PICK x \in Nat : x = f * w /\ x + 0 = x
    OBVIOUS
  <2>3. (s + g) % w = 0
    BY <1>11, <1>12, <2>1, <2>2 DEF Same
  <2>4. s + g \in Nat
    OBVIOUS
  <2> QED
    BY <2>3, <2>4, MultipleIff
<1> QED
  BY <1>1, <1>2, <1>3, <1>4, <1>5, <1>6, <1>13

\* The carries that a row drops are zero, and the accumulator stays below 2 * p.
LEMMA RowIs ==
  ASSUME NEW p \in Nat, p % 2 = 1, p < R, NEW a \in 0..(p - 1), NEW d \in 0..(W - 1), NEW t \in 0..(2 * p - 1)
  PROVE  /\ Row(p, a, d, t) \in 0..(2 * p - 1)
         /\ \E m \in Nat : Row(p, a, d, t) * W = (t + a * d) + m * p
<1>1. PICK w \in Nat \ {0}, r \in Nat \ {0} : w = W /\ r = R /\ w > 1 /\ r > p
  BY LimbSizes
<1>2. p \in Nat \ {0} /\ a \in Nat /\ d \in Nat /\ t \in Nat /\ d <= w - 1 /\ a <= p
  BY <1>1
<1>3. PICK x \in Nat : x = a * d
  BY <1>2
<1>4. PICK e \in Nat : e = p * w
  OBVIOUS
<1>5. ASSUME NEW i \in Nat, NEW j \in Nat, i <= w - 1, j <= p
      PROVE  j * i + p <= e
  <2>1. p * (w - 1) = e - p
    BY <1>4
  <2>2. PICK u \in Nat : u = w - 1
    BY <1>1
  <2>3. i <= u
    BY <1>5, <2>2
  <2>4. j * i <= p * i
    BY <1>5
  <2>5. p * i <= p * u
    BY <2>3
  <2> QED
    BY <2>1, <2>2, <2>4, <2>5
<1>6. x + p <= e
  BY <1>2, <1>3, <1>5
<1>7. PICK s \in Nat : s = t + x
  BY <1>2
<1>8. PICK g \in Nat : g = r * w
  OBVIOUS
<1>9. e <= g
  BY <1>1, <1>4, <1>8
<1>10. g * w >= 2 * g
  BY <1>1
<1>11. PICK f \in Nat \ {0} : f = g * w /\ s < f
  <2>1. s < e + p /\ p <= e /\ 1 <= p
    BY <1>2, <1>6, <1>7
  <2>2. PICK f \in Nat : f = g * w
    OBVIOUS
  <2> QED
    BY <1>9, <1>10, <2>1, <2>2
<1>12. s % f = s
  <2>1. s \in 0..(f - 1)
    BY <1>11
  <2> QED
    BY <2>1, SameSmall
<1>13. PICK m \in 0..(w - 1), h \in Nat : m = ((s % w) * n0(p)) % w /\ s + m * p = h * w
  <2>1. \E m \in 0..(W - 1), h \in Nat : m = ((s % W) * n0(p)) % W /\ s + m * p = h * W
    BY LowLimb
  <2> QED
    BY <1>1, <2>1, Zenon
<1>14. PICK y \in Nat : y = m * p
  OBVIOUS
<1>15. y + p <= e
  <2>1. m \in Nat /\ m <= w - 1 /\ p <= p
    OBVIOUS
  <2>2. p * m + p <= e
    BY <1>5, <2>1
  <2>3. p * m = y
    BY <1>14
  <2> QED
    BY <2>2, <2>3
<1>16. h * w < 2 * e
  <2>1. h * w = s + y
    BY <1>13, <1>14
  <2>2. s + y < 2 * e
    BY <1>2, <1>6, <1>7, <1>15
  <2> QED
    BY <2>1, <2>2
<1>17. h < 2 * p
  <2> SUFFICES ASSUME h >= 2 * p PROVE FALSE
    BY <1>13
  <2>1. h * w >= (2 * p) * w
    OBVIOUS
  <2>2. (2 * p) * w = 2 * e
    BY <1>4
  <2> QED
    BY <1>4, <1>16, <2>1, <2>2
<1>18. (s + m * p) \div w = h
  <2>1. (h * w + 0) \div w = h
    <3>1. 0 \in 0..(w - 1)
      BY <1>1
    <3> QED
      BY <3>1, DivModOf
  <2>2. PICK z \in Nat : z = h * w /\ z + 0 = z
    OBVIOUS
  <2> QED
    BY <1>13, <2>1, <2>2
<1>19. h % g = h
  <2>1. g >= 2 * r
    BY <1>1, <1>8
  <2>2. g \in Nat \ {0} /\ h \in 0..(g - 1)
    BY <1>1, <1>17, <2>1
  <2> QED
    BY <2>2, SameSmall
<1>20. Row(p, a, d, t) = h
  <2>1. Row(p, a, d, t) = (((s % f) + ((((s % f) % w) * n0(p)) % w) * p) \div w) % g
    BY <1>1, <1>3, <1>7, <1>8, <1>11, Zenon DEF Row
  <2>2. Row(p, a, d, t) = ((s + m * p) \div w) % g
    BY <1>12, <1>13, <2>1, Zenon
  <2> QED
    BY <1>18, <1>19, <2>2, Zenon
<1> QED
  <2>1. h * w = (t + x) + m * p /\ m \in Nat
    BY <1>7, <1>13
  <2> QED
    BY <1>1, <1>3, <1>17, <1>20, <2>1

\* The rows of feMul for the limbs of b.
RowsEqn(p, a, b, f) ==
  f = [i \in 0..Limbs |-> IF i = 0 THEN 0 ELSE Row(p, a, (b \div 2^(LimbBits * (i - 1))) % W, f[i - 1])]

LEMMA LimbIs ==
  ASSUME NEW b \in Nat, NEW i \in 0..Limbs
  PROVE  /\ LimbBits * i \in 0..(LimbBits * Limbs) /\ LimbBits * i \in 0..MaxBits
         /\ 2^(LimbBits * i) \in Nat \ {0}
         /\ (b \div 2^(LimbBits * i)) % W \in 0..(W - 1)
<1>1. PICK l \in Nat \ {0}, n \in Nat \ {0} : l = LimbBits /\ n = Limbs
  BY LimbAssumption
<1>2. PICK e \in Nat, g \in Nat : e = l * i /\ g = l * n
  BY <1>1
<1>3. e <= g
  BY <1>1, <1>2
<1>4. e \in 0..MaxBits
  BY <1>1, <1>2, <1>3 DEF MaxBits
<1>5. PICK v \in Nat \ {0} : v = 2^e
  BY <1>4, PowerType
<1>6. b \div v \in Nat
  BY DivModBasic
<1>7. PICK w \in Nat \ {0} : w = W
  BY LimbSizes
<1>8. (b \div v) % w \in 0..(w - 1)
  BY <1>6, DivModBasic
<1> QED
  BY <1>1, <1>2, <1>3, <1>4, <1>5, <1>7, <1>8

LEMMA RowsExist ==
  ASSUME NEW p \in Nat, p % 2 = 1, p < R, NEW a \in 0..(p - 1), NEW b \in Nat
  PROVE  \E f : RowsEqn(p, a, b, f)
<1> DEFINE S == 0..(2 * p - 1)
           limb(i) == (b \div 2^(LimbBits * (i - 1))) % W
           step == [i \in 1..Limbs |-> [t \in S |-> Row(p, a, limb(i), t)]]
<1>1. Limbs \in Nat /\ 0 \in S
  BY LimbAssumption
<1>2. ASSUME NEW i \in 1..Limbs, NEW t \in S PROVE Row(p, a, limb(i), t) \in S
  <2>1. i - 1 \in 0..Limbs
    BY <1>1
  <2>2. limb(i) \in 0..(W - 1)
    BY <2>1, LimbIs
  <2> HIDE DEF limb
  <2> QED
    BY <2>2, RowIs
<1>3. step \in [1..Limbs -> [S -> S]]
  <2> HIDE DEF limb, S
  <2> QED
    BY <1>2
<1>4. PICK f \in [0..Limbs -> S] : f[0] = 0 /\ \A i \in 1..Limbs : f[i] = step[i][f[i - 1]]
  <2> HIDE DEF step, S
  <2>1. Recursive(S, 0, Limbs, step) # {}
    BY <1>1, <1>3, RecursionUpTo
  <2> QED
    BY <2>1 DEF Recursive
<1>5. ASSUME NEW i \in 0..Limbs
      PROVE  f[i] = IF i = 0 THEN 0 ELSE Row(p, a, limb(i), f[i - 1])
  <2> HIDE DEF limb, S
  <2>1. CASE i = 0
    BY <1>4, <2>1
  <2>2. CASE i # 0
    <3>1. i \in 1..Limbs /\ i - 1 \in 0..Limbs
      BY <1>1, <2>2
    <3>2. f[i - 1] \in S
      BY <1>4, <3>1
    <3> QED
      BY <1>4, <2>2, <3>1, <3>2
  <2> QED
    BY <2>1, <2>2
<1>6. f = [i \in 0..Limbs |-> IF i = 0 THEN 0 ELSE Row(p, a, limb(i), f[i - 1])]
  <2> HIDE DEF step, limb, S
  <2> QED
    BY <1>4, <1>5
<1> QED
  BY <1>6, Zenon DEF RowsEqn

\* A multiple of the modulus does not count.
LEMMA SameMultiple ==
  ASSUME NEW m \in Nat \ {0}, NEW a \in Nat, NEW k \in Nat
  PROVE  Same(m, a + k * m, a)
<1>1. PICK q \in Nat, r \in 0..(m - 1) : a = q * m + r /\ a % m = r
  BY DivModNames
<1>2. q + k \in Nat /\ ((q + k) * m + r) % m = r
  BY DivModOf
<1>3. PICK x \in Nat, y \in Nat : x = q * m /\ y = k * m
  OBVIOUS
<1>4. (q + k) * m = x + y
  BY <1>3
<1>5. a + k * m = (q + k) * m + r
  BY <1>1, <1>3, <1>4
<1> QED
  BY <1>1, <1>2, <1>5 DEF Same

\* A row adds its limb of b to what has been multiplied.
LEMMA RowSame ==
  ASSUME NEW p \in Nat \ {0}, NEW a \in Nat, NEW b \in Nat, NEW v \in Nat \ {0}, NEW w \in Nat \ {0},
         NEW t \in Nat, NEW u \in Nat, NEW m \in Nat,
         u * w = (t + a * ((b \div v) % w)) + m * p, Same(p, v * t, a * (b % v))
  PROVE  Same(p, (v * w) * u, a * (b % (v * w)))
<1>1. PICK d \in Nat, e \in Nat : d = (b \div v) % w /\ e = b % v
  <2>1. b \div v \in Nat
    BY DivModBasic, Zenon
  <2>2. (b \div v) % w \in 0..(w - 1) /\ b % v \in 0..(v - 1)
    BY <2>1, DivModBasic, Zenon
  <2> QED
    BY <2>1, <2>2
<1>2. b % (v * w) = d * v + e
  BY <1>1, ModSplit
<1>3. PICK x \in Nat, y \in Nat, z \in Nat : x = a * d /\ y = v * t /\ z = a * e
  OBVIOUS
<1>4. PICK f \in Nat, g \in Nat, h \in Nat : f = v * x /\ g = m * p /\ h = v * m
  OBVIOUS
<1>5. a * (d * v + e) = f + z
  <2>1. a * (d * v) = v * (a * d)
    OBVIOUS
  <2>2. PICK i \in Nat : i = d * v
    OBVIOUS
  <2>3. a * (i + e) = a * i + a * e
    OBVIOUS
  <2> QED
    BY <1>3, <1>4, <2>1, <2>2, <2>3
<1>6. (v * w) * u = (y + f) + h * p
  <2>1. PICK i \in Nat : i = u * w
    OBVIOUS
  <2>2. (v * w) * u = v * i
    BY <2>1
  <2>3. i = (t + x) + g
    BY <1>1, <1>3, <1>4, <2>1
  <2>4. v * ((t + x) + g) = (v * t + v * x) + v * g
    OBVIOUS
  <2>5. v * g = h * p
    BY <1>4
  <2> QED
    BY <1>3, <1>4, <2>2, <2>3, <2>4, <2>5
<1>7. Same(p, (y + f) + h * p, y + f)
  <2>1. y + f \in Nat
    OBVIOUS
  <2> QED
    BY <2>1, SameMultiple, Zenon
<1>8. Same(p, y + f, z + f)
  <2>1. Same(p, y, z) /\ Same(p, f, f)
    BY <1>1, <1>3 DEF Same
  <2> QED
    BY <2>1, SameSum
<1>9. z + f = f + z
  OBVIOUS
<1> QED
  BY <1>2, <1>5, <1>6, <1>7, <1>8, <1>9 DEF Same

\* What the rows have computed after i limbs.
RowsAt(p, a, b, f, i) ==
  /\ f[i] \in 0..(2 * p - 1)
  /\ Same(p, 2^(LimbBits * i) * f[i], a * (b % 2^(LimbBits * i)))

LEMMA RowsStart ==
  ASSUME NEW p \in Nat \ {0}, NEW a \in Nat, NEW b \in Nat, NEW f, f[0] = 0
  PROVE  RowsAt(p, a, b, f, 0)
<1>1. LimbBits * 0 = 0 /\ 2^0 = 1
  BY LimbAssumption, PowerFacts
<1>2. b % 1 = 0
  <2>1. 1 \in Nat \ {0} /\ 0 \in 0..(1 - 1) /\ b = b * 1 + 0
    OBVIOUS
  <2> QED
    BY <2>1, DivModIs
<1>3. 1 * 0 = a * 0 /\ 0 \in 0..(2 * p - 1)
  OBVIOUS
<1>4. Same(p, 1 * 0, a * (b % 1))
  BY <1>2, <1>3, Zenon DEF Same
<1> QED
  BY <1>1, <1>3, <1>4, Zenon DEF RowsAt

LEMMA RowsNext ==
  ASSUME NEW p \in Nat, p % 2 = 1, p < R, NEW a \in 0..(p - 1), NEW b \in Nat, NEW f, RowsEqn(p, a, b, f),
         NEW i \in 0..(Limbs - 1), RowsAt(p, a, b, f, i)
  PROVE  RowsAt(p, a, b, f, i + 1)
<1>1. /\ i \in 0..Limbs /\ i + 1 \in 0..Limbs /\ i + 1 # 0 /\ (i + 1) - 1 = i
      /\ p \in Nat \ {0} /\ i \in Nat /\ Limbs \in Nat
  BY LimbAssumption
<1>2. PICK w \in Nat \ {0} : w = W
  BY LimbSizes
<1>3. PICK v \in Nat \ {0} : v = 2^(LimbBits * i)
  BY <1>1, LimbIs
<1>4. PICK d \in 0..(w - 1) : d = (b \div v) % w
  <2>1. (b \div 2^(LimbBits * i)) % W \in 0..(W - 1)
    BY <1>1, LimbIs
  <2> QED
    BY <1>2, <1>3, <2>1
<1>5. PICK t \in 0..(2 * p - 1) : t = f[i] /\ Same(p, v * t, a * (b % v))
  BY <1>3 DEF RowsAt
<1>6. f[i + 1] = Row(p, a, d, t)
  <2>1. f[i + 1] = Row(p, a, (b \div 2^(LimbBits * ((i + 1) - 1))) % W, f[(i + 1) - 1])
    <3> DEFINE g(j) == Row(p, a, (b \div 2^(LimbBits * (j - 1))) % W, f[j - 1])
    <3>1. f = [j \in 0..Limbs |-> IF j = 0 THEN 0 ELSE g(j)]
      BY Zenon DEF RowsEqn
    <3> HIDE DEF g
    <3>2. f[i + 1] = g(i + 1)
      BY <1>1, <3>1
    <3> QED
      BY <3>2, Zenon DEF g
  <2> QED
    BY <1>1, <1>2, <1>3, <1>4, <1>5, <2>1, Zenon
<1>7. PICK u \in 0..(2 * p - 1), m \in Nat : u = Row(p, a, d, t) /\ u * w = (t + a * d) + m * p
  <2>1. d \in 0..(W - 1)
    BY <1>2
  <2>2. /\ Row(p, a, d, t) \in 0..(2 * p - 1)
        /\ \E m \in Nat : Row(p, a, d, t) * W = (t + a * d) + m * p
    BY <2>1, RowIs
  <2> QED
    BY <1>2, <2>2
<1>8. 2^(LimbBits * (i + 1)) = v * w
  <2>1. PICK l \in Nat \ {0} : l = LimbBits
    BY LimbAssumption
  <2>2. PICK e \in Nat : e = l * i
    BY <1>1
  <2>3. l * (i + 1) = e + l
    BY <1>1, <2>2
  <2>4. e + l \in 0..MaxBits
    <3>1. LimbBits * (i + 1) \in 0..MaxBits
      BY <1>1, LimbIs
    <3> QED
      BY <2>1, <2>3, <3>1
  <2>5. 2^(e + l) = 2^e * 2^l
    BY <2>4, PowerSum, PowerFacts
  <2> QED
    BY <1>2, <1>3, <2>1, <2>2, <2>3, <2>5 DEF W
<1>9. Same(p, (v * w) * u, a * (b % (v * w)))
  <2>1. a \in Nat /\ t \in Nat /\ u \in Nat
    OBVIOUS
  <2>2. u * w = (t + a * ((b \div v) % w)) + m * p
    BY <1>4, <1>7
  <2> QED
    BY <1>1, <1>5, <2>1, <2>2, RowSame
<1> QED
  BY <1>6, <1>7, <1>8, <1>9 DEF RowsAt

\* feMul is the Montgomery product: the factor R cancels.
LEMMA MulIs ==
  ASSUME NEW p \in Nat, p % 2 = 1, p < R, NEW a \in 0..(p - 1), NEW b \in 0..(R - 1)
  PROVE  feMul(p, a, b) \in 0..(p - 1) /\ Same(p, R * feMul(p, a, b), a * b)
<1>0. b \in Nat /\ a \in Nat /\ p \in Nat \ {0} /\ Limbs \in Nat
  BY LimbSizes, LimbAssumption
<1> DEFINE f == CHOOSE g : RowsEqn(p, a, b, g)
           good == {i \in 0..Limbs : RowsAt(p, a, b, f, i)}
<1>1. RowsEqn(p, a, b, f)
  BY <1>0, RowsExist
<1>2. feMul(p, a, b) = condSubP(p, f[Limbs] % R, f[Limbs] \div R)
  BY Zenon DEF feMul, RowsEqn, Row
<1> HIDE DEF f
<1>3. f[0] = 0
  <2> DEFINE g(j) == Row(p, a, (b \div 2^(LimbBits * (j - 1))) % W, f[j - 1])
  <2>1. f = [j \in 0..Limbs |-> IF j = 0 THEN 0 ELSE g(j)]
    BY <1>1, Zenon DEF RowsEqn
  <2> HIDE DEF g
  <2> QED
    BY <1>0, <2>1
<1>4. 0 \in good
  BY <1>0, <1>3, RowsStart
<1>5. ASSUME NEW i \in 0..(Limbs - 1), i \in good PROVE i + 1 \in good
  <2>1. i + 1 \in 0..Limbs
    BY <1>0
  <2>2. RowsAt(p, a, b, f, i + 1)
    BY <1>0, <1>1, <1>5, RowsNext
  <2> QED
    BY <2>1, <2>2
<1>6. 0..Limbs \subseteq good
  <2> HIDE DEF good
  <2> QED
    BY <1>0, <1>4, <1>5, InductionUpTo
<1>7. RowsAt(p, a, b, f, Limbs)
  BY <1>0, <1>6
<1>8. PICK r \in Nat \ {0} : r = R /\ r = 2^(LimbBits * Limbs)
  BY LimbSizes DEF R
<1>9. PICK t \in 0..(2 * p - 1) : t = f[Limbs] /\ Same(p, r * t, a * (b % r))
  BY <1>7, <1>8 DEF RowsAt
<1>10. b % r = b
  <2>1. b \in 0..(r - 1)
    BY <1>8
  <2> QED
    BY <2>1, SameSmall
<1>11. PICK u \in 0..(p - 1) : u = t % p /\ feMul(p, a, b) = u
  <2>1. condSubP(p, t % R, t \div R) = t % p /\ t % p \in 0..(p - 1)
    BY <1>0, CondSub
  <2> QED
    BY <1>2, <1>9, <2>1
<1>12. Same(p, r * u, r * t)
  <2>1. Same(p, t % p, t) /\ t \in Nat
    BY <1>0, SameMod
  <2>2. Same(p, u, t) /\ u \in Nat
    BY <1>11, <2>1
  <2> QED
    BY <1>0, <2>1, <2>2, SameTimes
<1> QED
  BY <1>8, <1>9, <1>10, <1>11, <1>12 DEF Same

\* R is invertible modulo p.
LEMMA CancelR ==
  ASSUME NEW p \in Nat, p % 2 = 1, NEW x \in Nat, NEW y \in Nat, Same(p, R * x, R * y)
  PROVE  Same(p, x, y)
<1>1. PICK r \in Nat \ {0} : r = R
  BY LimbSizes
<1>2. PICK z \in Nat, k \in Nat : p * z = 1 + k * r
  <2>1. LimbBits * Limbs \in 0..MaxBits
    BY LimbSizes
  <2>2. \E z, k \in Nat : p * z = 1 + k * 2^(LimbBits * Limbs)
    BY <2>1, OddInverse
  <2> QED
    BY <1>1, <2>2 DEF R
<1>3. p \in Nat \ {0}
  OBVIOUS
<1>4. ASSUME NEW i \in Nat
      PROVE  k * (r * i) \in Nat /\ Same(p, i + k * (r * i), 0)
  <2>1. PICK e \in Nat, g \in Nat : e = k * r /\ g = z * i
    OBVIOUS
  <2>2. k * (r * i) = e * i /\ i + e * i = (1 + e) * i
    BY <2>1
  <2>3. (p * z) * i = g * p
    BY <2>1
  <2>4. i + k * (r * i) = g * p
    BY <1>2, <2>1, <2>2, <2>3
  <2>5. PICK h \in Nat : h = g * p /\ 0 + h = h
    OBVIOUS
  <2>6. Same(p, 0 + g * p, 0)
    BY <1>3, SameMultiple
  <2>7. Same(p, g * p, 0)
    BY <2>5, <2>6
  <2>8. e * i \in Nat
    OBVIOUS
  <2> QED
    BY <2>2, <2>4, <2>7, <2>8, Zenon
<1>5. PICK s \in Nat, t \in Nat : s = r * x /\ t = r * y /\ Same(p, s, t)
  BY <1>1
<1>6. PICK f \in Nat, h \in Nat : f = k * s /\ h = k * t
  OBVIOUS
<1>7. Same(p, f, h)
  BY <1>3, <1>5, <1>6, SameTimes
<1>8. Same(p, x + f, 0) /\ Same(p, y + h, 0)
  BY <1>4, <1>5, <1>6
<1>9. Same(p, x + f, y + h)
  BY <1>8 DEF Same
<1> QED
  BY <1>3, <1>7, <1>9, SameCancel

\* The Montgomery form of a is a * R.
LEMMA ToMontIs ==
  ASSUME NEW p \in Nat, p % 2 = 1, p < R, NEW a \in 0..(p - 1)
  PROVE  toMont(p, a) \in 0..(p - 1) /\ Same(p, toMont(p, a), R * a)
<1>1. PICK r \in Nat \ {0} : r = R /\ p < r
  BY LimbSizes
<1>2. p \in Nat \ {0} /\ a \in Nat
  OBVIOUS
<1>3. PICK e \in Nat : e = r * r
  OBVIOUS
<1>4. PICK g \in 0..(p - 1) : g = e % p
  BY <1>2, Residue
<1>5. g \in 0..(R - 1) /\ g \in Nat
  BY <1>1
<1>6. PICK m : m = feMul(p, a, g) /\ toMont(p, a) = m
  BY <1>1, <1>3, <1>4, Zenon DEF toMont
<1>7. m \in 0..(p - 1) /\ Same(p, r * m, a * g)
  BY <1>1, <1>5, <1>6, MulIs
<1>8. Same(p, a * g, a * e)
  <2>1. Same(p, e % p, e)
    BY <1>2, SameMod
  <2> QED
    BY <1>2, <1>4, <1>5, <2>1, SameTimes
<1>9. PICK h \in Nat : h = r * a
  BY <1>2
<1>10. a * e = r * h
  BY <1>2, <1>3, <1>9
<1>11. Same(p, R * m, R * h)
  BY <1>1, <1>7, <1>8, <1>10 DEF Same
<1>12. Same(p, m, h)
  <2>1. m \in Nat
    BY <1>7
  <2> QED
    BY <1>11, <2>1, CancelR
<1> QED
  BY <1>1, <1>6, <1>7, <1>9, <1>12

\* feMul multiplies in the Montgomery domain.
LEMMA MontMul ==
  ASSUME NEW p \in Nat, p % 2 = 1, p < R, NEW s \in 0..(p - 1), NEW t \in 0..(p - 1), NEW a \in Nat, NEW b \in Nat,
         Same(p, s, R * a), Same(p, t, R * b)
  PROVE  feMul(p, s, t) \in 0..(p - 1) /\ Same(p, feMul(p, s, t), R * (a * b))
<1>1. PICK r \in Nat \ {0} : r = R /\ p < r
  BY LimbSizes
<1>2. p \in Nat \ {0} /\ s \in Nat /\ t \in Nat
  OBVIOUS
<1>3. PICK u \in 0..(p - 1) : u = feMul(p, s, t) /\ Same(p, r * u, s * t)
  <2>1. t \in 0..(R - 1)
    BY <1>1
  <2>2. feMul(p, s, t) \in 0..(p - 1) /\ Same(p, R * feMul(p, s, t), s * t)
    BY <2>1, MulIs
  <2> QED
    BY <1>1, <2>2
<1>4. PICK g \in Nat, h \in Nat, e \in Nat : g = r * a /\ h = r * b /\ e = a * b
  OBVIOUS
<1>5. Same(p, s * t, g * h)
  <2>1. Same(p, s, g) /\ Same(p, t, h)
    BY <1>1, <1>4
  <2>2. Same(p, s * t, g * t) /\ Same(p, g * t, g * h)
    BY <1>2, <2>1, SameTimes
  <2> QED
    BY <2>2 DEF Same
<1>6. PICK f \in Nat : f = r * e
  OBVIOUS
<1>7. g * h = r * f
  BY <1>4, <1>6
<1>8. Same(p, u, f)
  <2>1. Same(p, R * u, R * f) /\ u \in Nat
    BY <1>1, <1>3, <1>5, <1>7 DEF Same
  <2> QED
    BY <2>1, CancelR
<1> QED
  BY <1>1, <1>3, <1>4, <1>6, <1>8

\* Out of the Montgomery domain.
LEMMA FromMontIs ==
  ASSUME NEW p \in Nat, p % 2 = 1, p < R, NEW s \in 0..(p - 1), NEW a \in Nat, Same(p, s, R * a)
  PROVE  fromMont(p, s) = a % p
<1>1. PICK r \in Nat \ {0} : r = R /\ r > 1
  BY LimbSizes
<1>2. PICK v \in 0..(p - 1) : v = fromMont(p, s) /\ Same(p, r * v, s)
  <2>1. 1 \in 0..(R - 1)
    BY <1>1
  <2>2. feMul(p, s, 1) \in 0..(p - 1) /\ Same(p, R * feMul(p, s, 1), s * 1)
    BY <2>1, MulIs
  <2>3. s * 1 = s
    OBVIOUS
  <2> QED
    BY <1>1, <2>2, <2>3 DEF fromMont
<1>3. Same(p, v, a)
  <2>1. Same(p, R * v, R * a) /\ v \in Nat
    BY <1>1, <1>2 DEF Same
  <2> QED
    BY <2>1, CancelR
<1>4. v % p = v
  <2>1. p \in Nat \ {0}
    OBVIOUS
  <2> QED
    BY <2>1, SameSmall
<1> QED
  BY <1>2, <1>3, <1>4 DEF Same

\* Square-and-multiply over n bits of the exponent k.
InvStep(p, a, k, j, s) ==
  IF Bit(k, j) = 1 THEN feMul(p, feMul(p, s, s), a) ELSE feMul(p, s, s)
InvEqn(p, a, k, n, f) ==
  f = [i \in 0..n |-> IF i = 0 THEN One(p) ELSE InvStep(p, a, k, n - i, f[i - 1])]

LEMMA OneIs ==
  ASSUME NEW p \in Nat \ {0}
  PROVE  One(p) \in 0..(p - 1) /\ Same(p, One(p), R * 1)
<1>1. PICK r \in Nat \ {0} : r = R /\ r * 1 = r
  BY LimbSizes
<1>2. r % p \in 0..(p - 1) /\ Same(p, r % p, r)
  BY SameMod
<1> QED
  BY <1>1, <1>2 DEF One

\* One turn squares the power and multiplies it by a if the bit is set.
LEMMA InvStepIs ==
  ASSUME NEW p \in Nat, p % 2 = 1, p < R, NEW a \in Nat, NEW t \in 0..(p - 1), Same(p, t, R * a),
         NEW k \in Nat, NEW j, NEW b \in Nat, NEW d \in {0, 1}, d = Bit(k, j),
         NEW s \in 0..(p - 1), Same(p, s, R * PowerOf(a, b))
  PROVE  /\ InvStep(p, t, k, j, s) \in 0..(p - 1)
         /\ Same(p, InvStep(p, t, k, j, s), R * PowerOf(a, 2 * b + d))
<1>1. PICK x \in Nat : x = PowerOf(a, b)
  BY PowerNext
<1>2. PICK y \in Nat : y = x * x
  OBVIOUS
<1>3. PICK u \in 0..(p - 1) : u = feMul(p, s, s) /\ Same(p, u, R * y)
  <2>1. feMul(p, s, s) \in 0..(p - 1) /\ Same(p, feMul(p, s, s), R * (x * x))
    BY <1>1, MontMul
  <2> QED
    BY <1>2, <2>1
<1>4. PowerOf(a, b + b) = y
  BY <1>1, <1>2, PowersAdd
<1>5. CASE d = 0
  <2>1. 2 * b + d = b + b /\ d # 1
    BY <1>5
  <2> QED
    BY <1>3, <1>4, <2>1 DEF InvStep
<1>6. CASE d = 1
  <2>1. b + b \in Nat /\ 2 * b + d = (b + b) + 1
    BY <1>6
  <2>2. PowerOf(a, (b + b) + 1) = PowerOf(a, b + b) * a
    BY <2>1, PowerNext
  <2>3. feMul(p, u, t) \in 0..(p - 1) /\ Same(p, feMul(p, u, t), R * (y * a))
    BY <1>3, MontMul
  <2> QED
    BY <1>3, <1>4, <1>6, <2>1, <2>2, <2>3 DEF InvStep
<1> QED
  BY <1>5, <1>6

LEMMA InvExists ==
  ASSUME NEW p \in Nat, p % 2 = 1, p < R, NEW t \in 0..(p - 1), NEW k, NEW n \in Nat
  PROVE  \E f : InvEqn(p, t, k, n, f)
<1> DEFINE S == 0..(p - 1)
           step == [i \in 1..n |-> [s \in S |-> InvStep(p, t, k, n - i, s)]]
<1>1. p \in Nat \ {0} /\ S \subseteq 0..(R - 1)
  BY LimbSizes
<1>2. ASSUME NEW j, NEW s \in S PROVE InvStep(p, t, k, j, s) \in S
  <2>1. feMul(p, s, s) \in S
    BY <1>1, MulIs
  <2>2. feMul(p, feMul(p, s, s), t) \in S
    BY <1>1, <2>1, MulIs
  <2> HIDE DEF S
  <2> QED
    BY <2>1, <2>2 DEF InvStep
<1>3. step \in [1..n -> [S -> S]] /\ One(p) \in S
  BY <1>1, <1>2, OneIs
<1>4. PICK f \in [0..n -> S] : f[0] = One(p) /\ \A i \in 1..n : f[i] = step[i][f[i - 1]]
  <2> HIDE DEF step, S
  <2>1. Recursive(S, One(p), n, step) # {}
    BY <1>3, RecursionUpTo
  <2> QED
    BY <2>1 DEF Recursive
<1>5. ASSUME NEW i \in 0..n
      PROVE  f[i] = IF i = 0 THEN One(p) ELSE InvStep(p, t, k, n - i, f[i - 1])
  <2> HIDE DEF S
  <2>1. CASE i = 0
    BY <1>4, <2>1
  <2>2. CASE i # 0
    <3>1. i \in 1..n /\ i - 1 \in 0..n /\ f[i - 1] \in S
      BY <1>4, <2>2
    <3> QED
      BY <1>4, <2>2, <3>1
  <2> QED
    BY <2>1, <2>2
<1>6. f = [i \in 0..n |-> IF i = 0 THEN One(p) ELSE InvStep(p, t, k, n - i, f[i - 1])]
  <2> HIDE DEF step, S
  <2> QED
    BY <1>4, <1>5
<1> QED
  BY <1>6, Zenon DEF InvEqn

\* After i turns the accumulator is the power by the first i bits.
LEMMA InvLoop ==
  ASSUME NEW p \in Nat, p % 2 = 1, p < R, NEW a \in Nat, NEW t \in 0..(p - 1), Same(p, t, R * a),
         NEW k \in Nat, NEW n \in 0..MaxBits, k < 2^n, NEW f, InvEqn(p, t, k, n, f)
  PROVE  f[n] \in 0..(p - 1) /\ Same(p, f[n], R * PowerOf(a, k))
<1> DEFINE At(s, e) == s \in 0..(p - 1) /\ Same(p, s, R * PowerOf(a, e))
           good == {i \in 0..n : At(f[i], k \div 2^(n - i))}
<1>0. n \in Nat /\ MaxBits \in Nat /\ p \in Nat \ {0}
  BY PowerFacts
<1>1. 0 \in good
  <2>1. 2^n \in Nat \ {0} /\ n - 0 = n
    BY <1>0, PowerFacts
  <2>2. PICK w \in Nat \ {0} : w = 2^n /\ k \in 0..(w - 1)
    BY <2>1
  <2>3. k \div w = 0
    BY <2>2, SameSmall
  <2>4. f[0] = One(p)
    BY <1>0 DEF InvEqn
  <2>5. At(One(p), 0)
    <3>1. PowerOf(a, 0) = 1
      BY PowerNext
    <3> QED
      BY <1>0, <3>1, OneIs
  <2> HIDE DEF At
  <2> QED
    BY <1>0, <2>1, <2>2, <2>3, <2>4, <2>5
<1>2. ASSUME NEW i \in 0..(n - 1), i \in good PROVE i + 1 \in good
  <2>1. PICK j \in 0..(MaxBits - 1) : j = n - (i + 1) /\ j + 1 = n - i
    BY <1>0
  <2>2. PICK e \in Nat, b \in Nat, d \in {0, 1} :
          e = k \div 2^j /\ b = k \div 2^(j + 1) /\ d = Bit(k, j) /\ e = 2 * b + d
    <3>1. /\ k \div 2^j \in Nat /\ k \div 2^(j + 1) \in Nat /\ Bit(k, j) \in {0, 1}
          /\ k \div 2^j = 2 * (k \div 2^(j + 1)) + Bit(k, j)
      BY BitDown
    <3> QED
      BY <3>1, Zenon
  <2>3. At(f[i], b)
    <3> HIDE DEF At
    <3> QED
      BY <1>2, <2>1, <2>2
  <2>4. i + 1 \in 0..n /\ i + 1 # 0 /\ (i + 1) - 1 = i
    BY <1>0
  <2>5. f[i + 1] = InvStep(p, t, k, j, f[i])
    BY <2>1, <2>4 DEF InvEqn
  <2>6. At(InvStep(p, t, k, j, f[i]), 2 * b + d)
    BY <2>2, <2>3, InvStepIs
  <2>7. At(f[i + 1], k \div 2^(n - (i + 1)))
    <3> HIDE DEF At
    <3> QED
      BY <2>1, <2>2, <2>5, <2>6
  <2> HIDE DEF At
  <2> QED
    BY <2>4, <2>7
<1>3. 0..n \subseteq good
  <2> HIDE DEF good
  <2> QED
    BY <1>0, <1>1, <1>2, InductionUpTo
<1>4. n \in 0..n /\ n - n = 0
  BY <1>0
<1>5. At(f[n], k \div 2^0)
  <2> HIDE DEF At
  <2> QED
    BY <1>3, <1>4
<1>6. k \div 2^0 = k
  <2>1. 2^0 = 1 /\ k = k * 1 + 0 /\ 1 \in Nat \ {0} /\ 0 \in 0..(1 - 1)
    BY PowerFacts
  <2>2. k \div 1 = k
    BY <2>1, DivModIs
  <2> QED
    BY <2>1, <2>2
<1>7. At(f[n], k)
  <2> HIDE DEF At
  <2> QED
    BY <1>5, <1>6
<1> QED
  BY <1>7

\* feInv raises to p - 2.
LEMMA InvIs ==
  ASSUME NEW p \in Nat \ {0, 1}, p % 2 = 1, p < R, NEW a \in Nat, NEW t \in 0..(p - 1), Same(p, t, R * a)
  PROVE  feInv(p, t) \in 0..(p - 1) /\ Same(p, feInv(p, t), R * PowerOf(a, p - 2))
<1>1. PICK k \in Nat : k = p - 2
  OBVIOUS
<1>2. k < 2^MaxBits
  <2>1. PICK m \in Nat : m = LimbBits * Limbs /\ MaxBits = m + 2
    BY LimbAssumption DEF MaxBits
  <2>2. m \in 0..MaxBits /\ m + 1 \in 0..MaxBits /\ (m + 1) + 1 = m + 2
    BY <2>1
  <2>3. PICK w \in Nat : w = 2^m /\ 2^(m + 1) = 2 * w /\ 2^((m + 1) + 1) = 2 * 2^(m + 1)
    BY <2>2, PowerFacts
  <2>4. R = w /\ 2^MaxBits = 4 * w
    BY <2>1, <2>2, <2>3 DEF R
  <2> QED
    BY <1>1, <2>4
<1>3. PICK n \in 0..MaxBits : n = BitLen(k) /\ k < 2^n
  BY <1>2, BitLenIs
<1>4. n \in Nat
  BY PowerFacts
<1> DEFINE f == CHOOSE g : InvEqn(p, t, k, n, g)
<1>5. InvEqn(p, t, k, n, f)
  BY <1>4, InvExists
<1>6. feInv(p, t) = f[n]
  BY <1>1, <1>3, Zenon DEF feInv, InvEqn, InvStep
<1> HIDE DEF f
<1>7. f[n] \in 0..(p - 1) /\ Same(p, f[n], R * PowerOf(a, k))
  BY <1>3, <1>5, InvLoop
<1> QED
  BY <1>1, <1>6, <1>7

\* The product, out of the Montgomery domain.
LEMMA ProductOf ==
  ASSUME NEW p \in Nat, p % 2 = 1, p < R, NEW a \in 0..(p - 1), NEW b \in 0..(p - 1)
  PROVE  fromMont(p, feMul(p, toMont(p, a), toMont(p, b))) = (a * b) % p
<1>1. PICK s \in 0..(p - 1), t \in 0..(p - 1) :
        s = toMont(p, a) /\ t = toMont(p, b) /\ Same(p, s, R * a) /\ Same(p, t, R * b)
  BY ToMontIs
<1>2. PICK e \in Nat : e = a * b /\ a \in Nat /\ b \in Nat
  OBVIOUS
<1>3. feMul(p, s, t) \in 0..(p - 1) /\ Same(p, feMul(p, s, t), R * e)
  BY <1>1, <1>2, MontMul
<1>4. fromMont(p, feMul(p, s, t)) = e % p
  BY <1>3, FromMontIs
<1> QED
  BY <1>1, <1>2, <1>4

\* The inverse, out of the Montgomery domain.
LEMMA InverseOf ==
  ASSUME NEW p \in Nat \ {0, 1}, p % 2 = 1, p < R, PrimeField(p), NEW a \in 1..(p - 1)
  PROVE  (a * fromMont(p, feInv(p, toMont(p, a)))) % p = 1
<1>1. PICK t \in 0..(p - 1) : t = toMont(p, a) /\ Same(p, t, R * a)
  <2>1. a \in 0..(p - 1)
    OBVIOUS
  <2> QED
    BY <2>1, ToMontIs
<1>2. PICK k \in Nat : k = p - 2 /\ k + 1 = p - 1 /\ a \in Nat /\ p \in Nat \ {0}
  OBVIOUS
<1>3. PICK x \in Nat : x = PowerOf(a, k) /\ PowerOf(a, k + 1) = x * a
  BY <1>2, PowerNext
<1>4. PICK u \in 0..(p - 1) : u = feInv(p, t) /\ Same(p, u, R * x)
  BY <1>1, <1>2, <1>3, InvIs
<1>5. fromMont(p, u) = x % p
  BY <1>4, FromMontIs
<1>6. Same(p, x * a, 1)
  BY <1>2, <1>3, Fermat
<1>7. PICK v \in Nat : v = x % p /\ Same(p, v, x)
  <2>1. x % p \in 0..(p - 1) /\ Same(p, x % p, x)
    BY <1>2, SameMod
  <2> QED
    BY <2>1
<1>8. Same(p, a * v, a * x)
  BY <1>2, <1>7, SameTimes
<1>9. a * x = x * a
  BY <1>2
<1>10. 1 % p = 1
  <2>1. 1 \in 0..(p - 1)
    OBVIOUS
  <2> QED
    BY <1>2, <2>1, SameSmall
<1>11. (a * v) % p = 1
  BY <1>6, <1>8, <1>9, <1>10 DEF Same
<1> QED
  BY <1>1, <1>4, <1>5, <1>7, <1>11

\* Addition, subtraction, multiplication and inversion of field elements on limbs are
\* those modulo p, for every odd prime p that the limbs hold: condSubP keeps the bit
\* above the limbs, a row of feMul drops only zeros and its conditional subtraction is
\* enough, and the power by p - 2 that feInv computes is the inverse
\* (ctfield.go:138-273).
THEOREM FieldExact ==
  ASSUME NEW c \in Curves
  PROVE  FieldLaw(c.p)
<1>1. PICK p \in Nat \ {0, 1} : p = c.p /\ p % 2 = 1 /\ p < R
  BY CurveAssumption, KeysAssumption
<1>2. p \in Nat \ {0} /\ p \in Nat
  BY <1>1
<1>3. PrimeField(p)
  BY <1>1, CurveAssumption DEF PrimeField
<1>4. ASSUME NEW a \in 0..(p - 1), a # 0 PROVE (a * fromMont(p, feInv(p, toMont(p, a)))) % p = 1
  <2>1. a \in 1..(p - 1)
    BY <1>4
  <2> QED
    BY <1>1, <1>3, <2>1, InverseOf
<1>5. ASSUME NEW a \in 0..(p - 1), NEW b \in 0..(p - 1)
      PROVE  /\ feAdd(p, a, b) = (a + b) % p
             /\ feSub(p, a, b) = (a - b) % p
             /\ fromMont(p, feMul(p, toMont(p, a), toMont(p, b))) = (a * b) % p
  BY <1>1, <1>2, AddIs, SubIs, ProductOf, Zenon
<1> QED
  BY <1>1, <1>4, <1>5, Zenon DEF FieldLaw

-----------------------------------------------------------------------------
(* Projective coordinates *)

LEMMA FieldFacts ==
  ASSUME NEW c \in Curves
  PROVE  /\ c.p \in Nat /\ c.p \in Nat \ {0} /\ c.p \in Nat \ {0, 1} /\ c.p % 2 = 1 /\ c.p < R /\ PrimeField(c.p)
         /\ c.a \in Nat /\ c.b \in Nat
<1>1. c.p \in Nat \ {0, 1} /\ c.p % 2 = 1 /\ c.p < R /\ c.a \in Nat /\ c.b \in Nat
  BY CurveAssumption, KeysAssumption
<1>2. PrimeField(c.p)
  BY <1>1, CurveAssumption DEF PrimeField
<1> QED
  BY <1>1, <1>2

\* The arithmetic stays in the field.
LEMMA FieldClosed ==
  ASSUME NEW c \in Curves, NEW a \in 0..(c.p - 1), NEW b \in 0..(c.p - 1)
  PROVE  /\ feAdd(c.p, a, b) \in 0..(c.p - 1) /\ feSub(c.p, a, b) \in 0..(c.p - 1)
         /\ feMul(c.p, a, b) \in 0..(c.p - 1) /\ toMont(c.p, a) \in 0..(c.p - 1)
<1>1. PICK p \in Nat \ {0} : p = c.p /\ p \in Nat /\ p % 2 = 1 /\ p < R
  BY FieldFacts
<1>2. feAdd(p, a, b) \in 0..(p - 1)
  <2>1. a + b \in Nat
    BY <1>1
  <2>2. (a + b) % p \in 0..(p - 1)
    BY <2>1, SameMod
  <2> QED
    BY <1>1, <2>2, AddIs
<1>3. feSub(p, a, b) \in 0..(p - 1)
  <2>1. a - b \in Int
    BY <1>1
  <2>2. (a - b) % p \in 0..(p - 1)
    BY <2>1
  <2> QED
    BY <1>1, <2>2, SubIs
<1>4. feMul(p, a, b) \in 0..(p - 1)
  <2>1. b \in 0..(R - 1)
    BY <1>1, LimbSizes
  <2> QED
    BY <1>1, <2>1, MulIs
<1>5. toMont(p, a) \in 0..(p - 1)
  BY <1>1, ToMontIs
<1> QED
  BY <1>1, <1>2, <1>3, <1>4, <1>5

LEMMA FieldZero ==
  ASSUME NEW c \in Curves, NEW a \in 0..(c.p - 1)
  PROVE  /\ 0 \in 0..(c.p - 1) /\ feAdd(c.p, 0, 0) = 0 /\ feSub(c.p, 0, 0) = 0
         /\ feMul(c.p, a, 0) = 0 /\ feMul(c.p, 0, a) = 0
<1>1. PICK p \in Nat \ {0} : p = c.p /\ p \in Nat /\ p % 2 = 1 /\ p < R
  BY FieldFacts
<1>2. 0 \in 0..(p - 1) /\ 0 + 0 = 0 /\ 0 - 0 = 0 /\ a \in 0..(R - 1) /\ 0 \in 0..(R - 1)
  BY <1>1, LimbSizes
<1>3. 0 % p = 0
  BY <1>2, SameSmall
<1>4. feAdd(p, 0, 0) = 0 /\ feSub(p, 0, 0) = 0
  BY <1>1, <1>2, <1>3, AddIs, SubIs
<1>5. ASSUME NEW m \in 0..(p - 1), Same(p, R * m, 0) PROVE m = 0
  <2>1. R * 0 = 0 /\ m \in Nat
    BY LimbSizes
  <2>2. Same(p, R * m, R * 0)
    BY <1>5, <2>1
  <2>3. Same(p, m, 0)
    BY <1>1, <2>1, <2>2, CancelR
  <2> QED
    BY <1>2, <2>3, ResidueSame
<1>6. feMul(p, a, 0) = 0
  <2>1. feMul(p, a, 0) \in 0..(p - 1) /\ Same(p, R * feMul(p, a, 0), a * 0)
    BY <1>1, <1>2, MulIs
  <2>2. a * 0 = 0
    BY <1>1
  <2> QED
    BY <1>5, <2>1, <2>2
<1>7. feMul(p, 0, a) = 0
  <2>1. feMul(p, 0, a) \in 0..(p - 1) /\ Same(p, R * feMul(p, 0, a), 0 * a)
    BY <1>1, <1>2, MulIs
  <2>2. 0 * a = 0
    BY <1>1
  <2> QED
    BY <1>5, <2>1, <2>2
<1> QED
  BY <1>1, <1>2, <1>4, <1>6, <1>7

Triples(c) == (0..(c.p - 1)) \X (0..(c.p - 1)) \X (0..(c.p - 1))

LEMMA Coefficients ==
  ASSUME NEW c \in Curves
  PROVE  ctA(c) \in 0..(c.p - 1) /\ ctB3(c) \in 0..(c.p - 1)
<1>1. PICK p \in Nat \ {0} : p = c.p
  BY FieldFacts
<1>2. PICK a \in Nat, b \in Nat : a = c.a /\ b = 3 * c.b
  BY FieldFacts
<1>3. a % p \in 0..(p - 1) /\ b % p \in 0..(p - 1)
  BY SameMod
<1> QED
  BY <1>1, <1>2, <1>3, FieldClosed DEF ctA, ctB3

\* The lost coordinates stay.
LEMMA SumOfNothing ==
  ASSUME NEW c \in Curves
  PROVE  ctSum(c, 0, 0, 0, 0, 0, 0) = Lost /\ ctTwice(c, 0, 0, 0, 0, 0, 0) = Lost
<1>1. /\ feAdd(c.p, 0, 0) = 0 /\ feSub(c.p, 0, 0) = 0 /\ feMul(c.p, 0, 0) = 0
      /\ feMul(c.p, ctA(c), 0) = 0 /\ feMul(c.p, ctB3(c), 0) = 0
  BY Coefficients, FieldZero
<1> QED
  BY <1>1 DEF ctSum, ctTwice, Lost

LEMMA LostStays ==
  ASSUME NEW c \in Curves, NEW P \in Triples(c)
  PROVE  ctAdd(c, Lost, P) = Lost /\ ctAdd(c, P, Lost) = Lost /\ ctDouble(c, Lost) = Lost
<1>1. PICK x \in 0..(c.p - 1), y \in 0..(c.p - 1), z \in 0..(c.p - 1) : P = <<x, y, z>>
  BY DEF Triples
<1>2. \A u \in {x, y, z} : feMul(c.p, u, 0) = 0 /\ feMul(c.p, 0, u) = 0
  BY FieldZero
<1>3. PICK e, f, g : e = feAdd(c.p, x, y) /\ f = feAdd(c.p, x, z) /\ g = feAdd(c.p, y, z)
  OBVIOUS
<1>4. e \in 0..(c.p - 1) /\ f \in 0..(c.p - 1) /\ g \in 0..(c.p - 1)
  BY <1>3, FieldClosed
<1>5. \A u \in {e, f, g} : feMul(c.p, u, 0) = 0 /\ feMul(c.p, 0, u) = 0
  BY <1>4, FieldZero
<1>6. feAdd(c.p, 0, 0) = 0 /\ feSub(c.p, 0, 0) = 0 /\ feMul(c.p, 0, 0) = 0
  BY <1>1, FieldZero
<1>7. /\ P[1] = x /\ P[2] = y /\ P[3] = z
      /\ Lost[1] = 0 /\ Lost[2] = 0 /\ Lost[3] = 0
  BY <1>1 DEF Lost
<1>8. ctAdd(c, Lost, P) = ctSum(c, 0, 0, 0, 0, 0, 0)
  BY <1>2, <1>3, <1>5, <1>6, <1>7 DEF ctAdd
<1>9. ctAdd(c, P, Lost) = ctSum(c, 0, 0, 0, 0, 0, 0)
  BY <1>2, <1>3, <1>5, <1>6, <1>7 DEF ctAdd
<1>10. ctDouble(c, Lost) = ctTwice(c, 0, 0, 0, 0, 0, 0)
  BY <1>6, <1>7 DEF ctDouble
<1> QED
  BY <1>8, <1>9, <1>10, SumOfNothing

\* The formulas stay in the field.
LEMMA SumClosed ==
  ASSUME NEW c \in Curves, NEW P \in Triples(c), NEW Q \in Triples(c)
  PROVE  ctAdd(c, P, Q) \in Triples(c)
<1> DEFINE F == 0..(c.p - 1)
<1>1. ASSUME NEW u \in F, NEW v \in F
      PROVE  feAdd(c.p, u, v) \in F /\ feSub(c.p, u, v) \in F /\ feMul(c.p, u, v) \in F
  BY FieldClosed
<1>2. ctA(c) \in F /\ ctB3(c) \in F
  BY Coefficients
<1>3. P[1] \in F /\ P[2] \in F /\ P[3] \in F /\ Q[1] \in F /\ Q[2] \in F /\ Q[3] \in F
  BY DEF Triples
<1>4. Triples(c) = F \X F \X F
  BY DEF Triples
<1> HIDE DEF F
<1>5. ASSUME NEW xx \in F, NEW yy \in F, NEW zz \in F, NEW xy \in F, NEW xz \in F, NEW yz \in F
      PROVE  ctSum(c, xx, yy, zz, xy, xz, yz) \in F \X F \X F
  <2>1. PICK azz \in F : azz = feMul(c.p, ctA(c), zz)
    BY <1>1, <1>2
  <2>2. PICK e \in F : e = feAdd(c.p, feMul(c.p, ctB3(c), zz), feMul(c.p, ctA(c), xz))
    BY <1>1, <1>2
  <2>3. PICK lo \in F, hi \in F : lo = feSub(c.p, yy, e) /\ hi = feAdd(c.p, yy, e)
    BY <1>1
  <2>4. PICK u \in F : u = feAdd(c.p, feAdd(c.p, feAdd(c.p, xx, xx), xx), azz)
    BY <1>1
  <2>5. PICK v \in F : v = feAdd(c.p, feMul(c.p, ctB3(c), xz), feMul(c.p, ctA(c), feSub(c.p, xx, azz)))
    BY <1>1, <1>2
  <2>6. PICK o1 \in F : o1 = feSub(c.p, feMul(c.p, xy, lo), feMul(c.p, yz, v))
    BY <1>1
  <2>7. PICK o2 \in F : o2 = feAdd(c.p, feMul(c.p, lo, hi), feMul(c.p, u, v))
    BY <1>1
  <2>8. PICK o3 \in F : o3 = feAdd(c.p, feMul(c.p, yz, hi), feMul(c.p, xy, u))
    BY <1>1
  <2>9. ctSum(c, xx, yy, zz, xy, xz, yz) = <<o1, o2, o3>>
    BY <2>1, <2>2, <2>3, <2>4, <2>5, <2>6, <2>7, <2>8, Zenon DEF ctSum
  <2> QED
    BY <2>9
<1>6. PICK xx \in F, yy \in F, zz \in F :
        xx = feMul(c.p, P[1], Q[1]) /\ yy = feMul(c.p, P[2], Q[2]) /\ zz = feMul(c.p, P[3], Q[3])
  BY <1>1, <1>3
<1> DEFINE cross(i, j, u, v) ==
        feSub(c.p, feMul(c.p, feAdd(c.p, P[i], P[j]), feAdd(c.p, Q[i], Q[j])), feAdd(c.p, u, v))
<1>7. cross(1, 2, xx, yy) \in F /\ cross(1, 3, xx, zz) \in F /\ cross(2, 3, yy, zz) \in F
  BY <1>1, <1>3
<1>8. ctAdd(c, P, Q) = ctSum(c, xx, yy, zz, cross(1, 2, xx, yy), cross(1, 3, xx, zz), cross(2, 3, yy, zz))
  BY <1>6, Zenon DEF ctAdd
<1> HIDE DEF cross
<1> QED
  BY <1>4, <1>5, <1>7, <1>8

\* Every residue is a Montgomery form, of zero only if it is zero.
LEMMA MontOf ==
  ASSUME NEW c \in Curves, NEW z \in 1..(c.p - 1)
  PROVE  \E m \in 1..(c.p - 1) : Same(c.p, z, R * m)
<1>1. PICK p \in Nat \ {0} : p = c.p /\ p \in Nat /\ p % 2 = 1 /\ p < R
  BY FieldFacts
<1>2. PICK r \in Nat \ {0} : r = R /\ r > 1
  BY LimbSizes
<1>3. z \in 0..(p - 1) /\ z \in Nat /\ 1 \in 0..(R - 1) /\ 0 \in 0..(p - 1)
  BY <1>1, <1>2
<1>4. PICK m \in 0..(p - 1) : Same(p, r * m, z * 1)
  <2>1. feMul(p, z, 1) \in 0..(p - 1) /\ Same(p, R * feMul(p, z, 1), z * 1)
    BY <1>1, <1>3, MulIs
  <2> QED
    BY <1>2, <2>1
<1>5. z * 1 = z
  BY <1>3
<1>6. Same(p, z, r * m)
  BY <1>4, <1>5 DEF Same
<1>7. m # 0
  <2> SUFFICES ASSUME m = 0 PROVE FALSE
    OBVIOUS
  <2>1. r * 0 = 0
    OBVIOUS
  <2>2. Same(p, z, 0)
    BY <1>6, <2>1
  <2>3. z = 0
    BY <1>3, <2>2, ResidueSame
  <2> QED
    BY <2>3
<1> QED
  BY <1>1, <1>2, <1>6, <1>7

LEMMA OneNotZero ==
  ASSUME NEW c \in Curves
  PROVE  One(c.p) \in 1..(c.p - 1) /\ Same(c.p, One(c.p), R * 1)
<1>1. PICK p \in Nat \ {0} : p = c.p /\ p \in Nat /\ p % 2 = 1 /\ p < R /\ p > 1
  BY FieldFacts
<1>2. One(p) \in 0..(p - 1) /\ Same(p, One(p), R * 1)
  BY OneIs
<1>3. ASSUME One(p) = 0 PROVE FALSE
  <2>1. R * 0 = 0 /\ 1 \in Nat /\ 0 \in Nat /\ 1 \in 0..(p - 1) /\ 0 \in 0..(p - 1)
    BY <1>1, LimbSizes
  <2>2. Same(p, R * 1, R * 0)
    BY <1>2, <1>3, <2>1 DEF Same
  <2>3. Same(p, 1, 0)
    BY <1>1, <2>1, <2>2, CancelR
  <2>4. 1 = 0
    BY <2>1, <2>3, ResidueSame
  <2> QED
    BY <2>4
<1> QED
  BY <1>1, <1>2, <1>3

\* Two field elements with one Montgomery form are equal.
LEMMA SameElement ==
  ASSUME NEW c \in Curves, NEW s \in 0..(c.p - 1), NEW t \in 0..(c.p - 1), NEW x, Same(c.p, s, x), Same(c.p, t, x)
  PROVE  s = t
<1>1. PICK p \in Nat \ {0} : p = c.p
  BY FieldFacts
<1>2. Same(p, s, t)
  BY <1>1 DEF Same
<1> QED
  BY <1>1, <1>2, ResidueSame

\* One is neutral.
LEMMA OneNeutral ==
  ASSUME NEW c \in Curves, NEW u \in 0..(c.p - 1)
  PROVE  feMul(c.p, One(c.p), toMont(c.p, u)) = toMont(c.p, u)
<1>1. PICK p \in Nat \ {0} : p = c.p /\ p \in Nat /\ p % 2 = 1 /\ p < R /\ u \in 0..(p - 1)
  BY FieldFacts
<1>2. PICK s \in 0..(p - 1), t \in 0..(p - 1) :
        s = One(p) /\ t = toMont(p, u) /\ Same(p, s, R * 1) /\ Same(p, t, R * u)
  BY <1>1, OneIs, ToMontIs
<1>3. 1 * u = u /\ u \in Nat /\ 1 \in Nat
  BY <1>1
<1>4. feMul(p, s, t) \in 0..(p - 1) /\ Same(p, feMul(p, s, t), R * (1 * u))
  BY <1>1, <1>2, <1>3, MontMul
<1>5. feMul(p, s, t) = t
  BY <1>1, <1>2, <1>3, <1>4, SameElement
<1> QED
  BY <1>1, <1>2, <1>5

\* A coordinate scaled by z comes back.
LEMMA Unscaled ==
  ASSUME NEW c \in Curves, NEW z \in 1..(c.p - 1), NEW u \in 0..(c.p - 1)
  PROVE  fromMont(c.p, feMul(c.p, feMul(c.p, z, toMont(c.p, u)), feInv(c.p, z))) = u
<1>1. PICK p \in Nat \ {0} : p = c.p /\ p \in Nat /\ p \in Nat \ {0, 1} /\ p % 2 = 1 /\ p < R /\ PrimeField(p)
  BY FieldFacts
<1>2. u \in 0..(p - 1) /\ u \in Nat /\ z \in 0..(p - 1)
  BY <1>1
<1>3. PICK m \in 1..(p - 1) : Same(p, z, R * m)
  BY <1>1, MontOf
<1>4. PICK t \in 0..(p - 1) : t = toMont(p, u) /\ Same(p, t, R * u)
  BY <1>1, <1>2, ToMontIs
<1>5. PICK k \in Nat : k = p - 2 /\ k + 1 = p - 1 /\ m \in Nat
  BY <1>1
<1>6. PICK x \in Nat : x = PowerOf(m, k) /\ PowerOf(m, k + 1) = x * m
  BY <1>5, PowerNext
<1>7. PICK v \in 0..(p - 1) : v = feInv(p, z) /\ Same(p, v, R * x)
  BY <1>1, <1>2, <1>3, <1>5, <1>6, InvIs
<1>8. PICK e \in Nat : e = m * u
  BY <1>2, <1>5
<1>9. PICK s \in 0..(p - 1) : s = feMul(p, z, t) /\ Same(p, s, R * e)
  <2>1. feMul(p, z, t) \in 0..(p - 1) /\ Same(p, feMul(p, z, t), R * (m * u))
    BY <1>1, <1>2, <1>3, <1>4, <1>5, MontMul
  <2> QED
    BY <1>8, <2>1
<1>10. PICK f \in Nat : f = e * x
  OBVIOUS
<1>11. PICK w \in 0..(p - 1) : w = feMul(p, s, v) /\ Same(p, w, R * f)
  <2>1. feMul(p, s, v) \in 0..(p - 1) /\ Same(p, feMul(p, s, v), R * (e * x))
    BY <1>1, <1>7, <1>9, MontMul
  <2> QED
    BY <1>10, <2>1
<1>12. fromMont(p, w) = f % p
  BY <1>1, <1>11, FromMontIs
<1>13. Same(p, f, u)
  <2>1. PICK y \in Nat : y = x * m
    BY <1>5
  <2>2. f = y * u
    BY <1>2, <1>5, <1>8, <1>10, <2>1
  <2>3. Same(p, y, 1)
    BY <1>1, <1>5, <1>6, <2>1, Fermat
  <2>4. Same(p, y * u, 1 * u) /\ 1 * u = u
    BY <1>2, <2>3, SameTimes
  <2> QED
    BY <2>2, <2>4
<1>14. u % p = u
  BY <1>2, SameSmall
<1>15. fromMont(p, w) = u
  BY <1>12, <1>13, <1>14 DEF Same
<1> QED
  BY <1>1, <1>4, <1>7, <1>9, <1>11, <1>15

\* The points are pairs of residues.
LEMMA PointPair ==
  ASSUME NEW c \in Curves, NEW pt \in Points(c), pt # Infinity
  PROVE  /\ pt[1] \in 0..(c.p - 1) /\ pt[2] \in 0..(c.p - 1) /\ pt = <<pt[1], pt[2]>>
         /\ pt[1] % c.p = pt[1] /\ pt[2] % c.p = pt[2]
<1>1. pt[1] \in 0..(c.p - 1) /\ pt[2] \in 0..(c.p - 1) /\ pt = <<pt[1], pt[2]>>
  BY DEF Points
<1>2. PICK p \in Nat \ {0} : p = c.p
  BY FieldFacts
<1> QED
  BY <1>1, <1>2, SameSmall

\* To projective coordinates.
LEMMA FromAffineIs ==
  ASSUME NEW c \in Curves, NEW pt \in Points(c)
  PROVE  fromAffine(c, pt) \in Projective(c, pt)
<1>1. One(c.p) \in 1..(c.p - 1)
  BY OneNotZero
<1>2. CASE pt = Infinity
  BY <1>1, <1>2 DEF fromAffine, identity, Projective
<1>3. CASE pt # Infinity
  <2>1. PICK x \in 0..(c.p - 1), y \in 0..(c.p - 1) :
          x = pt[1] /\ y = pt[2] /\ x % c.p = x /\ y % c.p = y
    BY <1>3, PointPair
  <2>2. fromAffine(c, pt) = <<toMont(c.p, x), toMont(c.p, y), One(c.p)>>
    BY <1>3, <2>1 DEF fromAffine
  <2>3. /\ feMul(c.p, One(c.p), toMont(c.p, x)) = toMont(c.p, x)
        /\ feMul(c.p, One(c.p), toMont(c.p, y)) = toMont(c.p, y)
    BY OneNeutral
  <2> QED
    BY <1>1, <1>3, <2>1, <2>2, <2>3 DEF Projective
<1> QED
  BY <1>2, <1>3

\* And back.
LEMMA ToAffineIs ==
  ASSUME NEW c \in Curves, NEW pt \in Points(c), NEW P \in Projective(c, pt)
  PROVE  P \in Triples(c) /\ toAffine(c, P) = pt
<1>1. CASE pt = Infinity
  <2>1. PICK y \in 1..(c.p - 1) : P = <<0, y, 0>>
    BY <1>1 DEF Projective
  <2>2. y \in 0..(c.p - 1) /\ 0 \in 0..(c.p - 1)
    BY FieldFacts
  <2> QED
    BY <1>1, <2>1, <2>2 DEF toAffine, Triples
<1>2. CASE pt # Infinity
  <2>1. PICK x \in 0..(c.p - 1), y \in 0..(c.p - 1) : x = pt[1] /\ y = pt[2] /\ pt = <<x, y>>
    BY <1>2, PointPair
  <2>2. PICK z \in 1..(c.p - 1) : P = <<feMul(c.p, z, toMont(c.p, x)), feMul(c.p, z, toMont(c.p, y)), z>>
    BY <1>2, <2>1 DEF Projective
  <2>3. z \in 0..(c.p - 1) /\ z # 0
    BY FieldFacts
  <2>4. toMont(c.p, x) \in 0..(c.p - 1) /\ toMont(c.p, y) \in 0..(c.p - 1)
    BY FieldClosed
  <2>5. /\ feMul(c.p, z, toMont(c.p, x)) \in 0..(c.p - 1)
        /\ feMul(c.p, z, toMont(c.p, y)) \in 0..(c.p - 1)
    BY <2>3, <2>4, FieldClosed
  <2>6. P \in Triples(c)
    BY <2>2, <2>3, <2>5 DEF Triples
  <2>7. toAffine(c, P) = <<x, y>>
    BY <2>2, <2>3, Unscaled DEF toAffine
  <2> QED
    BY <2>1, <2>6, <2>7
<1> QED
  BY <1>1, <1>2

LEMMA EntriesIn ==
  ASSUME NEW c \in Curves
  PROVE  Entries(c) \subseteq Triples(c)
<1> SUFFICES ASSUME NEW pt \in Points(c), NEW d \in 0..(2^Window - 1)
             PROVE  windowTable(c, fromAffine(c, pt))[d] \in Triples(c)
  BY DEF Entries
<1>0. PICK n \in Nat : n = 2^Window - 1 /\ n >= 1
  BY WindowSize
<1>1. PICK P \in Triples(c) : P = fromAffine(c, pt)
  BY FromAffineIs, ToAffineIs
<1>2. PICK tbl : tbl = windowTable(c, P)
  OBVIOUS
<1>3. /\ tbl[0] = identity(c) /\ tbl[1] = P
      /\ \A i \in 2..n : tbl[i] = ctAdd(c, tbl[i - 1], P)
  BY <1>0, <1>2, TableIs
<1>4. identity(c) \in Triples(c)
  <2>1. Infinity \in Points(c) /\ identity(c) = fromAffine(c, Infinity)
    BY Neutral DEF fromAffine
  <2> QED
    BY <2>1, FromAffineIs, ToAffineIs
<1> DEFINE good == {i \in 0..n : tbl[i] \in Triples(c)}
<1>5. 0 \in good
  BY <1>0, <1>3, <1>4
<1>6. ASSUME NEW i \in 0..(n - 1), i \in good PROVE i + 1 \in good
  <2>1. i + 1 \in 0..n
    OBVIOUS
  <2>2. CASE i = 0
    <3>1. i + 1 = 1
      BY <2>2
    <3> QED
      BY <1>3, <2>1, <3>1
  <2>3. CASE i # 0
    <3>1. i + 1 \in 2..n /\ (i + 1) - 1 = i
      BY <2>1, <2>3
    <3>2. tbl[i + 1] = ctAdd(c, tbl[i], P)
      BY <1>3, <3>1
    <3>3. tbl[i] \in Triples(c)
      BY <1>6
    <3> QED
      BY <2>1, <3>2, <3>3, SumClosed
  <2> QED
    BY <2>2, <2>3
<1>7. 0..n \subseteq good
  <2> HIDE DEF good
  <2> QED
    BY <1>5, <1>6, InductionUpTo
<1> QED
  BY <1>0, <1>1, <1>2, <1>7

\* A point goes to projective coordinates and back, whichever multiple of its coordinates
\* the formulas end with, and the coordinates (0, 0, 0), once reached, stay and are read as
\* the identity (ctpoint.go:57-185).
THEOREM CoordinatesExact ==
  ASSUME NEW c \in Curves
  PROVE  CoordinateLaw(c)
<1>1. ASSUME NEW s \in Points(c)
      PROVE  /\ fromAffine(c, s) \in Projective(c, s)
             /\ \A P \in Projective(c, s) : toAffine(c, P) = s /\ ctAdd(c, P, Lost) = Lost
  BY FromAffineIs, ToAffineIs, LostStays
<1>2. Lost \in Triples(c)
  BY FieldFacts DEF Lost, Triples
<1>3. ASSUME NEW Q \in Entries(c) \cup {Lost} PROVE ctAdd(c, Lost, Q) = Lost
  BY <1>2, EntriesIn, LostStays
<1>4. ctDouble(c, Lost) = Lost
  BY <1>2, LostStays
<1> QED
  BY <1>1, <1>3, <1>4 DEF CoordinateLaw

-----------------------------------------------------------------------------
(* The loop *)

\* P stands for the point s, a multiple of pt, or is lost where the code may lose it.
Held(c, pt, s, P) == P \in Projective(c, s) \/ (P = Lost /\ ~InSubgroup(c, pt))

LEMMA MultipleInSubgroup ==
  ASSUME NEW c \in Curves, GroupLaw(c), OrderLaw(c), NEW pt \in Points(c), InSubgroup(c, pt), NEW m \in Nat
  PROVE  InSubgroup(c, Times(c, m, pt))
<1>1. PICK k \in Nat : pt = OfBase(c, k)
  BY SubgroupIs
<1>2. PICK n \in Nat : n = k * m
  OBVIOUS
<1>3. Times(c, m, pt) = OfBase(c, n)
  BY <1>1, <1>2, CurveFacts, TimesTimes DEF OfBase
<1> QED
  BY <1>3, SubgroupIs

LEMMA DoubleFormula ==
  ASSUME NEW c, FormulaLaw(c), NEW s \in Points(c), NEW P \in Projective(c, s)
  PROVE  ctDouble(c, P) \in Sums(c, s, s)
  BY DEF FormulaLaw

LEMMA AddFormula ==
  ASSUME NEW c, FormulaLaw(c), NEW s \in Points(c), NEW t \in Points(c), NEW P \in Projective(c, s),
         NEW Q \in Entries(c), Q \in Projective(c, t)
  PROVE  ctAdd(c, P, Q) \in Sums(c, s, t)
  BY DEF FormulaLaw

LEMMA PointFormula ==
  ASSUME NEW c \in Curves, NEW s \in Points(c)
  PROVE  /\ fromAffine(c, s) \in Projective(c, s)
         /\ \A P \in Projective(c, s) : toAffine(c, P) = s /\ ctAdd(c, P, Lost) = Lost
  BY CoordinatesExact DEF CoordinateLaw

LEMMA LostFormula ==
  ASSUME NEW c \in Curves
  PROVE  /\ \A Q \in Entries(c) : ctAdd(c, Lost, Q) = Lost
         /\ ctDouble(c, Lost) = Lost /\ toAffine(c, Lost) = Infinity
<1>1. (\A Q \in Entries(c) : ctAdd(c, Lost, Q) = Lost) /\ ctDouble(c, Lost) = Lost
  BY CoordinatesExact DEF CoordinateLaw
<1>2. toAffine(c, Lost) = Infinity
  BY DEF toAffine, Lost
<1> QED
  BY <1>1, <1>2

LEMMA DoubleHeld ==
  ASSUME NEW c \in Curves, GroupLaw(c), OrderLaw(c), FormulaLaw(c), NEW pt \in Points(c), NEW m \in Nat,
         NEW P, Held(c, pt, Times(c, m, pt), P)
  PROVE  Held(c, pt, Times(c, m + m, pt), ctDouble(c, P))
<1>1. PICK s \in Points(c) : s = Times(c, m, pt) /\ Times(c, m + m, pt) = Add(c, s, s)
  BY TimesIs, TimesSum
<1>2. CASE P \in Projective(c, s)
  <2>1. ctDouble(c, P) \in Sums(c, s, s)
    BY <1>2, DoubleFormula
  <2>2. InSubgroup(c, pt) => InSubgroup(c, s)
    BY <1>1, MultipleInSubgroup
  <2> QED
    BY <1>1, <2>1, <2>2 DEF Held, Sums
<1>3. CASE P = Lost /\ ~InSubgroup(c, pt)
  BY <1>3, LostFormula DEF Held
<1> QED
  BY <1>1, <1>2, <1>3 DEF Held

LEMMA AddHeld ==
  ASSUME NEW c \in Curves, GroupLaw(c), OrderLaw(c), FormulaLaw(c), NEW pt \in Points(c), NEW m \in Nat,
         NEW n \in Nat, NEW P, Held(c, pt, Times(c, m, pt), P),
         NEW Q \in Entries(c), Held(c, pt, Times(c, n, pt), Q)
  PROVE  Held(c, pt, Times(c, m + n, pt), ctAdd(c, P, Q))
<1>1. PICK s \in Points(c), t \in Points(c) :
        s = Times(c, m, pt) /\ t = Times(c, n, pt) /\ Times(c, m + n, pt) = Add(c, s, t)
  BY TimesIs, TimesSum
<1>2. CASE P \in Projective(c, s) /\ Q \in Projective(c, t)
  <2>1. ctAdd(c, P, Q) \in Sums(c, s, t)
    BY <1>2, AddFormula
  <2>2. InSubgroup(c, pt) => InSubgroup(c, s) /\ InSubgroup(c, t)
    BY <1>1, MultipleInSubgroup
  <2> QED
    BY <1>1, <2>1, <2>2 DEF Held, Sums
<1>3. CASE P = Lost /\ ~InSubgroup(c, pt)
  BY <1>3, LostFormula DEF Held
<1>4. CASE P \in Projective(c, s) /\ Q = Lost /\ ~InSubgroup(c, pt)
  BY <1>4, PointFormula DEF Held
<1> QED
  BY <1>1, <1>2, <1>3, <1>4 DEF Held

\* The entries of a window table are the multiples of its point.
LEMMA EntryHeld ==
  ASSUME NEW c \in Curves, GroupLaw(c), OrderLaw(c), FormulaLaw(c), NEW pt \in Points(c),
         NEW tbl, tbl = windowTable(c, fromAffine(c, pt)), NEW d \in 0..(2^Window - 1)
  PROVE  tbl[d] \in Entries(c) /\ Held(c, pt, Times(c, d, pt), tbl[d])
<1>0. PICK n \in Nat : n = 2^Window - 1 /\ n >= 1
  BY WindowSize
<1>1. PICK P : P = fromAffine(c, pt)
  OBVIOUS
<1>2. /\ tbl[0] = identity(c) /\ tbl[1] = P
      /\ \A i \in 2..n : tbl[i] = ctAdd(c, tbl[i - 1], P)
  BY <1>0, <1>1, TableIs
<1>3. \A i \in 0..n : tbl[i] \in Entries(c)
  BY <1>0 DEF Entries
<1>4. P \in Entries(c)
  BY <1>0, <1>2, <1>3
<1>5. Held(c, pt, Times(c, 1, pt), P)
  BY <1>1, PointFormula, TimesIs DEF Held
<1> DEFINE held == {i \in 0..n : Held(c, pt, Times(c, i, pt), tbl[i])}
<1>6. 0 \in held
  <2>1. identity(c) = fromAffine(c, Infinity) /\ Infinity \in Points(c)
    BY Neutral DEF fromAffine
  <2>2. Held(c, pt, Infinity, identity(c))
    BY <2>1, PointFormula DEF Held
  <2>3. Times(c, 0, pt) = Infinity
    BY TimesNext
  <2> QED
    BY <1>0, <1>2, <2>2, <2>3
<1>7. ASSUME NEW i \in 0..(n - 1), i \in held PROVE i + 1 \in held
  <2>1. i + 1 \in 0..n /\ i \in Nat
    OBVIOUS
  <2>2. CASE i = 0
    <3>1. i + 1 = 1
      BY <2>2
    <3> QED
      BY <1>2, <1>5, <2>1, <3>1
  <2>3. CASE i # 0
    <3>1. i + 1 \in 2..n /\ (i + 1) - 1 = i
      BY <2>1, <2>3
    <3>2. tbl[i + 1] = ctAdd(c, tbl[i], P)
      BY <1>2, <3>1
    <3>3. Held(c, pt, Times(c, i, pt), tbl[i])
      BY <1>7
    <3>4. Held(c, pt, Times(c, i + 1, pt), ctAdd(c, tbl[i], P))
      BY <1>4, <1>5, <2>1, <3>3, AddHeld
    <3> QED
      BY <2>1, <3>2, <3>4
  <2> QED
    BY <2>2, <2>3
<1>8. 0..n \subseteq held
  <2> HIDE DEF held
  <2> QED
    BY <1>6, <1>7, InductionUpTo
<1> QED
  BY <1>0, <1>3, <1>8

\* Window doublings.
LEMMA ShiftHeld ==
  ASSUME NEW c \in Curves, GroupLaw(c), OrderLaw(c), FormulaLaw(c), NEW pt \in Points(c), NEW m \in Nat,
         NEW P, Held(c, pt, Times(c, m, pt), P)
  PROVE  Held(c, pt, Times(c, m * 2^Window, pt), shifted(c, P))
<1>1. PICK w \in Nat : w = Window /\ w <= MaxBits
  BY WindowSize, PowerFacts
<1>2. PICK f : /\ f[0] = P /\ shifted(c, P) = f[w]
               /\ \A i \in 1..w : f[i] = ctDouble(c, f[i - 1])
  BY <1>1, ShiftIs
<1> DEFINE held == {i \in 0..w : Held(c, pt, Times(c, m * 2^i, pt), f[i])}
<1>3. 0 \in held
  <2>1. m * 2^0 = m
    BY PowerFacts
  <2> QED
    BY <1>2, <2>1
<1>4. ASSUME NEW i \in 0..(w - 1), i \in held PROVE i + 1 \in held
  <2>1. i + 1 \in 1..w /\ i + 1 \in 0..w /\ (i + 1) - 1 = i /\ i \in 0..MaxBits
    BY <1>1, PowerFacts
  <2>2. PICK v \in Nat : v = 2^i /\ 2^(i + 1) = 2 * v
    BY <2>1, PowerFacts
  <2>3. PICK x \in Nat : x = m * v
    OBVIOUS
  <2>4. m * 2^(i + 1) = x + x
    <3>1. m * (2 * v) = m * v + m * v
      OBVIOUS
    <3> QED
      BY <2>2, <2>3, <3>1
  <2>5. Held(c, pt, Times(c, x, pt), f[i])
    BY <1>4, <2>2, <2>3
  <2>6. Held(c, pt, Times(c, x + x, pt), ctDouble(c, f[i]))
    BY <2>5, DoubleHeld
  <2>7. f[i + 1] = ctDouble(c, f[i])
    BY <1>2, <2>1
  <2> QED
    BY <2>1, <2>4, <2>6, <2>7
<1>5. 0..w \subseteq held
  <2> HIDE DEF held
  <2> QED
    BY <1>3, <1>4, InductionUpTo
<1> QED
  BY <1>1, <1>2, <1>5

\* The bits above window wi, split into those above the next one and its digit.
LEMMA DigitIs ==
  ASSUME NEW k \in Nat, NEW wi \in Nat, (wi + 1) * Window <= MaxBits
  PROVE  /\ k \div 2^(wi * Window) \in Nat /\ k \div 2^((wi + 1) * Window) \in Nat
         /\ digit(k, wi) \in 0..(2^Window - 1)
         /\ k \div 2^(wi * Window) = (k \div 2^((wi + 1) * Window)) * 2^Window + digit(k, wi)
<1>1. PICK w \in Nat \ {0}, D \in Nat \ {0} : w = Window /\ D = 2^Window
  BY WindowSize
<1>2. PICK x \in Nat : x = wi * w
  OBVIOUS
<1>3. (wi + 1) * w = x + w
  BY <1>2
<1>4. x + w <= MaxBits /\ MaxBits \in Nat
  BY <1>1, <1>3, PowerFacts
<1>5. x \in 0..MaxBits
  BY <1>4
<1>6. PICK P \in Nat \ {0} : P = 2^x
  BY <1>5, PowerFacts
<1>7. 2^(x + w) = P * D
  BY <1>1, <1>4, <1>6, PowerSum
<1>8. PICK a \in Nat : a = k \div P /\ a \div D = k \div (P * D)
  BY DivDiv
<1>9. PICK b \in Nat, r \in 0..(D - 1) : a = b * D + r /\ a \div D = b /\ a % D = r
  BY DivModNames
<1>10. k \div 2^(wi * Window) = a /\ k \div 2^((wi + 1) * Window) = b
  BY <1>1, <1>2, <1>3, <1>6, <1>7, <1>8, <1>9
<1>11. digit(k, wi) = r
  BY <1>1, <1>9, <1>10 DEF digit
<1> QED
  BY <1>1, <1>9, <1>10, <1>11

\* The windows cover q, and end within the limbs.
LEMMA WindowsIs ==
  ASSUME NEW c \in Curves, NEW k \in 0..(c.q - 1)
  PROVE  /\ nWin(c) \in Nat /\ nWin(c) * Window <= MaxBits
         /\ k \div 2^(nWin(c) * Window) = 0
<1>1. PICK q \in Nat \ {0} : q = c.q /\ q > 1 /\ q < R /\ q < 2^MaxBits
  <2>1. c.q \in Nat \ {0, 1} /\ c.q < R /\ R \in Nat /\ 4 * R = 2^MaxBits
    BY CurveFacts
  <2>2. PICK q \in Nat, v \in Nat : q = c.q /\ v = R /\ q # 0 /\ q > 1 /\ q < v /\ 4 * v = 2^MaxBits
    BY <2>1
  <2> QED
    BY <2>2
<1>2. PICK w \in Nat \ {0}, M \in Nat \ {0}, t \in Nat :
        w = Window /\ M = LimbBits * Limbs /\ M = t * w /\ MaxBits = M + 2
  <2>1. PICK b \in Nat \ {0}, l \in Nat \ {0}, w \in Nat \ {0} :
          b = LimbBits /\ l = Limbs /\ w = Window /\ b % w = 0
    BY LimbAssumption, WindowSize
  <2>2. PICK x \in Nat : b = x * w
    BY <2>1, MultipleIff
  <2>3. PICK t \in Nat : t = x * l
    OBVIOUS
  <2>4. b * l = t * w
    <3>1. (x * w) * l = (x * l) * w
      OBVIOUS
    <3> QED
      BY <2>2, <2>3, <3>1
  <2>5. b * l \in Nat \ {0}
    OBVIOUS
  <2> QED
    BY <2>1, <2>4, <2>5 DEF MaxBits
<1>3. PICK B \in 0..MaxBits : B = BitLen(q) /\ q < 2^B /\ (B = 0 \/ q >= 2^(B - 1))
  BY <1>1, BitLenIs
<1>4. B \in Nat /\ B <= M
  <2>1. B \in Nat
    BY <1>2
  <2>2. ASSUME B > M PROVE FALSE
    <3>1. PICK j \in Nat : B - 1 = M + j /\ M + j <= MaxBits /\ j \in 0..MaxBits /\ M \in 0..MaxBits
      <4>1. B - 1 = M + ((B - 1) - M) /\ (B - 1) - M \in Nat
        BY <2>1, <2>2
      <4> QED
        BY <1>2, <2>1, <4>1
    <3>2. 2^(M + j) = 2^M * 2^j
      BY <3>1, PowerSum
    <3>3. PICK v \in Nat \ {0}, z \in Nat \ {0} : v = 2^M /\ z = 2^j
      BY <3>1, PowerFacts
    <3>4. v * z >= v
      OBVIOUS
    <3>5. q < v
      BY <1>1, <1>2, <3>3 DEF R
    <3>6. q >= v * z
      BY <1>3, <2>1, <2>2, <3>1, <3>2, <3>3
    <3>7. PICK y \in Nat : y = v * z
      OBVIOUS
    <3> QED
      BY <3>4, <3>5, <3>6, <3>7
  <2> QED
    BY <1>2, <2>1, <2>2
<1>5. PICK s \in Nat : s = B + w - 1
  BY <1>4
<1>6. PICK n \in Nat, r \in 0..(w - 1) : s = n * w + r /\ s \div w = n
  BY DivModNames
<1>7. nWin(c) = n
  BY <1>1, <1>2, <1>3, <1>5, <1>6 DEF nWin
<1>8. PICK x \in Nat : x = n * w
  OBVIOUS
<1>9. B <= x
  BY <1>4, <1>5, <1>6, <1>8
<1>10. x <= M
  <2>1. ASSUME n >= t + 1 PROVE FALSE
    <3>1. n * w >= (t + 1) * w
      BY <2>1
    <3>2. (t + 1) * w = t * w + w
      OBVIOUS
    <3> QED
      BY <1>2, <1>4, <1>5, <1>6, <1>8, <3>1, <3>2
  <2>2. n <= t
    BY <2>1
  <2>3. n * w <= t * w
    BY <2>2
  <2> QED
    BY <1>2, <1>8, <2>3
<1>11. k < 2^x /\ 2^x \in Nat \ {0}
  <2>1. PICK j \in Nat : x = B + j /\ j \in 0..MaxBits /\ B + j <= MaxBits
    <3>1. x = B + (x - B) /\ x - B \in Nat
      BY <1>4, <1>9
    <3> QED
      BY <1>2, <1>4, <1>10, <3>1
  <2>2. PICK v \in Nat \ {0}, z \in Nat \ {0} : v = 2^B /\ z = 2^j
    BY <2>1, PowerFacts
  <2>3. 2^(B + j) = v * z
    BY <1>4, <2>1, <2>2, PowerSum
  <2>4. PICK y \in Nat \ {0} : y = v * z /\ y >= v
    OBVIOUS
  <2>5. k \in Nat /\ k < v
    BY <1>1, <1>3, <2>2
  <2> QED
    BY <2>1, <2>3, <2>4, <2>5
<1>12. k \div 2^x = 0
  <2>1. PICK v \in Nat \ {0} : v = 2^x /\ k < v
    BY <1>11
  <2>2. k \in 0..(v - 1)
    BY <1>1, <2>1
  <2> QED
    BY <2>1, <2>2, SameSmall
<1> QED
  BY <1>2, <1>7, <1>8, <1>10, <1>12

\* The multiple of pt that the loop has reached with left windows to go.
Reached(c, pt, k, left) == Multiples(c, pt)[k \div 2^(left * Window)]

LEMMA ReachedIs ==
  ASSUME NEW c \in Curves, GroupLaw(c), NEW pt \in Points(c), NEW k \in 0..(c.q - 1), NEW left \in 0..nWin(c)
  PROVE  /\ left \in Nat /\ left * Window <= MaxBits /\ k \div 2^(left * Window) \in Nat
         /\ Reached(c, pt, k, left) = Times(c, k \div 2^(left * Window), pt)
<1>1. PICK q \in Nat \ {0} : q = c.q /\ q > 1
  BY CurveFacts
<1>2. PICK n \in Nat, w \in Nat \ {0}, x \in Nat : n = nWin(c) /\ w = Window /\ n * w <= MaxBits /\ x = left * w
  BY WindowsIs, WindowSize
<1>3. left \in Nat /\ left <= n
  BY <1>2
<1>4. left * w <= n * w
  BY <1>3
<1>5. PICK y \in Nat : y = n * w
  OBVIOUS
<1>6. x \in 0..MaxBits
  BY <1>2, <1>4, <1>5, PowerFacts
<1>7. PICK v \in Nat \ {0} : v = 2^x
  BY <1>6, PowerFacts
<1>8. k \in Nat /\ k < q
  BY <1>1
<1>9. PICK a \in Nat, r \in 0..(v - 1) : k = a * v + r /\ k \div v = a
  BY <1>8, DivModNames
<1>10. a * v >= a
  OBVIOUS
<1>11. a <= k
  <2>1. PICK z \in Nat : z = a * v /\ z >= a
    BY <1>10
  <2> QED
    BY <1>8, <1>9, <2>1
<1>12. a \in 0..(c.q - 1)
  BY <1>1, <1>8, <1>11
<1>13. Multiples(c, pt)[a] = Times(c, a, pt)
  BY <1>12, MultiplesIs
<1> QED
  BY <1>2, <1>3, <1>6, <1>7, <1>9, <1>13 DEF Reached

\* One turn of the loop.
LEMMA FoldIs ==
  ASSUME NEW c \in Curves, GroupLaw(c), OrderLaw(c), FormulaLaw(c), NEW pt \in Points(c),
         NEW k \in 0..(c.q - 1), NEW left \in 1..nWin(c), NEW acc, Held(c, pt, Reached(c, pt, k, left), acc),
         NEW tbl, tbl = windowTable(c, fromAffine(c, pt))
  PROVE  Held(c, pt, Reached(c, pt, k, left - 1), ctAdd(c, shifted(c, acc), tbl[digit(k, left - 1)]))
<1>1. nWin(c) \in Nat
  BY WindowsIs
<1>2. PICK wi \in Nat : wi = left - 1 /\ wi + 1 = left /\ wi \in 0..nWin(c) /\ left \in 0..nWin(c)
  BY <1>1
<1>3. k \in Nat
  BY CurveFacts
<1>4. (wi + 1) * Window <= MaxBits
  BY <1>2, ReachedIs
<1>5. PICK a \in Nat, b \in Nat, d \in 0..(2^Window - 1) :
        /\ a = k \div 2^(wi * Window) /\ b = k \div 2^((wi + 1) * Window) /\ d = digit(k, wi)
        /\ a = b * 2^Window + d
  BY <1>3, <1>4, DigitIs
<1>6. Held(c, pt, Times(c, b, pt), acc)
  BY <1>2, <1>5, ReachedIs
<1>7. PICK x \in Nat : x = b * 2^Window
  BY WindowSize
<1>8. Held(c, pt, Times(c, x, pt), shifted(c, acc))
  BY <1>6, <1>7, ShiftHeld
<1>9. tbl[d] \in Entries(c) /\ Held(c, pt, Times(c, d, pt), tbl[d])
  BY EntryHeld
<1>10. d \in Nat
  BY WindowSize
<1>11. Held(c, pt, Times(c, x + d, pt), ctAdd(c, shifted(c, acc), tbl[d]))
  BY <1>8, <1>9, <1>10, AddHeld
<1>12. Reached(c, pt, k, wi) = Times(c, a, pt)
  BY <1>2, <1>5, ReachedIs
<1> QED
  BY <1>2, <1>5, <1>7, <1>11, <1>12

MultiplyCall ==
  job.op = "multiply" =>
    /\ job.k \in 0..(curve.q - 1) /\ job.pt \in Points(curve)
    /\ loop # <<>> =>
         /\ ct /\ result = <<"none">> /\ loop.left \in 0..nWin(curve)
         /\ loop = [tbl |-> windowTable(curve, fromAffine(curve, job.pt)), acc |-> loop.acc, left |-> loop.left]
         /\ Held(curve, job.pt, Reached(curve, job.pt, job.k, loop.left), loop.acc)

\* The inductive invariant of the multiplications: the accumulator holds the multiple by the
\* bits of the scalar that are above the windows left.
LoopInv ==
  /\ job.op = "none" => result = <<"none">>
  /\ MultiplyCall /\ MultExact

LEMMA LoopInit == Init => LoopInv
  BY DEF Init, LoopInv, MultiplyCall, MultExact

LEMMA LoopNext ==
  ASSUME \A c \in Curves : GroupLaw(c) /\ OrderLaw(c) /\ FormulaLaw(c),
         CallsInv, LoopInv, [Next]_vars
  PROVE  LoopInv'
<1>1. PICK c \in Curves : c = curve /\ GroupLaw(c) /\ OrderLaw(c) /\ FormulaLaw(c)
  BY DEF CallsInv
<1>2. CASE job'.op # "multiply" /\ (job'.op = "none" => result' = <<"none">>)
  BY <1>2 DEF LoopInv, MultiplyCall, MultExact
<1>3. CASE Multiply
  <2>1. PICK k \in 0..(c.q - 1), pt \in Points(c) : Call(Multiplies(k, pt), <<"ok", ScalarMult(c, k, pt)>>)
    BY <1>1, <1>3 DEF Multiply
  <2>2. ScalarMult(c, k, pt) = Multiples(c, pt)[k]
    <3>1. k \in Nat /\ k < 2^MaxBits
      BY Below
    <3> QED
      BY <1>1, <3>1, ScalarMultIs, MultiplesIs
  <2>3. /\ job'.op = "multiply" /\ job'.k = k /\ job'.pt = pt /\ curve' = c
        /\ loop' = <<>> /\ result'[2] = Multiples(c, pt)[k]
    BY <1>1, <1>3, <2>1, <2>2 DEF Multiply, Idle, Call, Multiplies, CallsInv
  <2> QED
    BY <2>3 DEF LoopInv, MultiplyCall, MultExact
<1>4. CASE MultiplyCT
  <2>1. PICK k \in 1..(c.q - 1), pt \in Points(c) :
          /\ job' = Multiplies(k, pt)
          /\ loop' = [tbl |-> windowTable(c, fromAffine(c, pt)), acc |-> identity(c), left |-> nWin(c)]
    BY <1>1, <1>4 DEF MultiplyCT
  <2>2. k \in 0..(c.q - 1) /\ nWin(c) \in Nat
    BY <1>1, CurveFacts, WindowsIs
  <2>3. nWin(c) \in 0..nWin(c)
    BY <2>2
  <2>4. Reached(c, pt, k, nWin(c)) = Infinity
    <3>1. k \div 2^(nWin(c) * Window) = 0
      BY <2>2, WindowsIs
    <3>2. Reached(c, pt, k, nWin(c)) = Times(c, 0, pt)
      BY <1>1, <2>2, <2>3, <3>1, ReachedIs
    <3> QED
      BY <1>1, <3>2, TimesNext
  <2>5. Held(c, pt, Infinity, identity(c))
    <3>1. identity(c) = fromAffine(c, Infinity) /\ Infinity \in Points(c)
      BY Neutral DEF fromAffine
    <3> QED
      BY <1>1, <3>1, PointFormula DEF Held
  <2>6. /\ job'.op = "multiply" /\ job'.k = k /\ job'.pt = pt /\ curve' = c /\ ct' /\ result' = <<"none">>
        /\ loop'.left = nWin(c) /\ loop'.acc = identity(c)
        /\ loop' = [tbl |-> windowTable(c, fromAffine(c, pt)), acc |-> loop'.acc, left |-> loop'.left]
    BY <1>1, <1>4, <2>1 DEF MultiplyCT, Multiplies, LoopInv, Idle
  <2> QED
    BY <2>2, <2>3, <2>4, <2>5, <2>6 DEF LoopInv, MultiplyCall, MultExact
<1>5. CASE FoldWindow
  <2>1. PICK tbl, acc, left : /\ left \in 1..nWin(c) /\ loop = [tbl |-> tbl, acc |-> acc, left |-> left]
                              /\ tbl = windowTable(c, fromAffine(c, job.pt))
                              /\ Held(c, job.pt, Reached(c, job.pt, job.k, left), acc)
    <3>1. /\ loop.left \in 0..nWin(c) /\ loop.left > 0
          /\ loop = [tbl |-> windowTable(c, fromAffine(c, job.pt)), acc |-> loop.acc, left |-> loop.left]
          /\ Held(c, job.pt, Reached(c, job.pt, job.k, loop.left), loop.acc)
      BY <1>1, <1>5 DEF FoldWindow, CallsInv, LoopInv, MultiplyCall
    <3>2. loop.left \in 1..nWin(c)
      BY <3>1
    <3> QED
      BY <3>1, <3>2
  <2>2. job.op = "multiply" /\ job.k \in 0..(c.q - 1) /\ job.pt \in Points(c) /\ ct /\ result = <<"none">>
    BY <1>1, <1>5 DEF FoldWindow, CallsInv, LoopInv, MultiplyCall
  <2>3. PICK next : next = ctAdd(c, shifted(c, acc), tbl[digit(job.k, left - 1)])
    OBVIOUS
  <2>4. Held(c, job.pt, Reached(c, job.pt, job.k, left - 1), next)
    BY <1>1, <2>1, <2>2, <2>3, FoldIs
  <2>5. loop' = [tbl |-> tbl, acc |-> next, left |-> left - 1]
    BY <1>1, <1>5, <2>1, <2>3 DEF FoldWindow
  <2>6. left - 1 \in 0..nWin(c)
    <3>1. PICK n \in Nat : n = nWin(c)
      BY <2>2, WindowsIs
    <3>2. left \in 1..n
      BY <2>1, <3>1
    <3>3. left - 1 \in 0..n
      BY <3>2
    <3> QED
      BY <3>1, <3>3
  <2>7. job' = job /\ ct' = ct /\ result' = result /\ curve' = c
    BY <1>1, <1>5 DEF FoldWindow
  <2>8. /\ loop'.left = left - 1 /\ loop'.acc = next
        /\ loop' = [tbl |-> windowTable(c, fromAffine(c, job.pt)), acc |-> loop'.acc, left |-> loop'.left]
    BY <2>1, <2>5
  <2> QED
    BY <2>2, <2>4, <2>6, <2>7, <2>8 DEF LoopInv, MultiplyCall, MultExact
<1>6. CASE MultiplyDone
  <2>1. /\ job.op = "multiply" /\ job.k \in 0..(c.q - 1) /\ job.pt \in Points(c) /\ ct /\ loop.left = 0
        /\ Held(c, job.pt, Reached(c, job.pt, job.k, 0), loop.acc)
    BY <1>1, <1>6 DEF MultiplyDone, CallsInv, LoopInv, MultiplyCall
  <2>2. Reached(c, job.pt, job.k, 0) = Multiples(c, job.pt)[job.k]
    <3>1. PICK w \in Nat : w = Window
      BY WindowSize
    <3>2. 0 * w = 0 /\ 2^0 = 1
      BY PowerFacts
    <3>3. job.k \in Nat
      BY <1>1, <2>1, CurveFacts
    <3>4. job.k \div 1 = job.k
      BY <3>3
    <3> QED
      BY <3>1, <3>2, <3>4 DEF Reached
  <2>3. Multiples(c, job.pt)[job.k] \in Points(c)
    <3>1. job.k \in Nat
      BY <1>1, <2>1, CurveFacts
    <3> QED
      BY <1>1, <2>1, <3>1, MultiplesIs, TimesIs
  <2>4. \/ toAffine(c, loop.acc) = Multiples(c, job.pt)[job.k]
        \/ toAffine(c, loop.acc) = Infinity /\ ~InSubgroup(c, job.pt)
    BY <1>1, <2>1, <2>2, <2>3, PointFormula, LostFormula DEF Held
  <2>5. /\ job' = job /\ ct' = ct /\ curve' = c /\ loop' = <<>>
        /\ result'[2] = toAffine(c, loop.acc)
    BY <1>1, <1>6 DEF MultiplyDone
  <2> QED
    BY <2>1, <2>4, <2>5 DEF LoopInv, MultiplyCall, MultExact
<1>7. CASE PublicKeyRawFromPrivate \/ VerifyDigestOnCurve \/ GenerateEphemeralKey \/ KEK \/ SignDigestOnCurve
  <2>1. job'.op \in {"public", "verify", "generate", "agree", "sign"}
    BY <1>7 DEF PublicKeyRawFromPrivate, VerifyDigestOnCurve, GenerateEphemeralKey, KEK,
                SignDigestOnCurve, Call
  <2> QED
    BY <1>2, <2>1
<1>8. CASE SignAttempt \/ NonceError \/ ExhaustedAttempts
  <2>1. job'.op = "sign"
    BY <1>8 DEF SignAttempt, NonceError, ExhaustedAttempts, Signing
  <2> QED
    BY <1>2, <2>1
<1>9. CASE UNCHANGED vars
  BY <1>9 DEF vars, LoopInv, MultiplyCall, MultExact
<1> QED
  BY <1>3, <1>4, <1>5, <1>6, <1>7, <1>8, <1>9 DEF Next

-----------------------------------------------------------------------------
(* Theorems *)

\* What the signing loop returns verifies, on every curve whose points are a group and
\* whose base point has order q: for every key, digest and nonce, with the bytes of both
\* halves written and read in the orders of the code.
THEOREM SignaturesVerify ==
  ASSUME \A c \in Curves : GroupLaw(c) /\ OrderLaw(c)
  PROVE  Spec => []SignatureVerifies
<1>1. CallsInv => SignatureVerifies
  <2> SUFFICES ASSUME CallsInv, job.op = "sign", result[1] = "ok"
               PROVE  VerifyDigest(curve, PublicKeyRaw(curve, job.prv), job.digest, result[2])
    BY DEF SignatureVerifies
  <2>1. PICK c \in Curves : c = curve /\ GroupLaw(c) /\ OrderLaw(c)
    BY DEF CallsInv
  <2>2. PICK prv \in Seq(ByteVals), digest \in Seq(ByteVals) : prv = job.prv /\ digest = job.digest
    BY ByteSets DEF CallsInv, SignCall
  <2>3. PICK k \in 1..(c.q - 1) : /\ result[2] = SignDigest(c, prv, digest, putLE(k))
                                  /\ SignDigest(c, prv, digest, putLE(k)) # Nil
    BY <2>1, <2>2 DEF CallsInv, SignCall, Signature
  <2>4. k \in 0..(c.q - 1)
    BY CurveFacts
  <2>5. k \in Nat /\ k < R
    BY <2>4, Below
  <2>6. PICK n \in Seq(ByteVals) : n = putLE(k)
    BY <2>5, PutLE
  <2> QED
    BY <2>1, <2>2, <2>3, <2>6, SignedVerifies
<1> QED
  BY <1>1, CallsSafe, PTL

\* Verification accepts exactly the signatures that some nonce produces for the private
\* key behind the public one, and no second encoding of one.
THEOREM VerificationExact ==
  ASSUME \A c \in Curves : GroupLaw(c) /\ OrderLaw(c)
  PROVE  Spec => []VerifyExact
<1>1. CallsInv => VerifyExact
  <2> SUFFICES ASSUME CallsInv, job.op = "verify", NEW d \in 1..(curve.q - 1),
                      Len(job.pub) = 2 * PointSize, PointOf(job.pub) = BaseMultiples[curve][d]
               PROVE  result[2] <=> SomeNonce(curve, d, job.digest, job.sig)
    BY DEF VerifyExact, SomeNonce
  <2>1. curve \in Curves /\ GroupLaw(curve) /\ OrderLaw(curve)
    BY DEF CallsInv
  <2>2. job.digest \in Seq(ByteVals) /\ job.sig \in Seq(ByteVals)
    BY ByteSets DEF CallsInv, VerifyCall
  <2>3. result[2] = VerifyDigest(curve, job.pub, job.digest, job.sig)
    BY DEF CallsInv, VerifyCall
  <2>4. VerifyDigest(curve, job.pub, job.digest, job.sig) <=> SomeNonce(curve, d, job.digest, job.sig)
    BY <2>1, <2>2, VerifiedSigned
  <2> QED
    BY <2>3, <2>4
<1> QED
  BY <1>1, CallsSafe, PTL

\* Both sides of a key agreement get the point (cofactor * UKM * d * e) * P, by either
\* multiplication; whatever point of the curve a public key is, a point that is returned lies
\* in the subgroup of order q and is not the identity; a generated pair is a scalar and
\* its multiple.
THEOREM AgreementsExact ==
  ASSUME \A c \in Curves : GroupLaw(c) /\ OrderLaw(c)
  PROVE  Spec => []AgreementExact
<1>1. CallsInv => AgreementExact
  <2> SUFFICES ASSUME CallsInv PROVE AgreementExact
    OBVIOUS
  <2>1. PICK c \in Curves : c = curve /\ GroupLaw(c) /\ OrderLaw(c)
    BY DEF CallsInv
  <2>2. ASSUME job.op = "agree"
        PROVE  /\ job.prv \in Seq(ByteVals) /\ job.pub \in Seq(ByteVals) /\ job.ukm \in Seq(ByteVals)
               /\ result \in kek(c, ct, job.prv, job.pub, job.ukm) /\ ct \in BOOLEAN
    BY <2>1, <2>2, ByteSets DEF CallsInv, AgreeCall
  <2>3. ASSUME job.op = "agree", Len(job.prv) = PointSize, c.cofactor \in {1, 4},
               NEW e \in 1..(c.q - 1),
               Len(job.pub) = 2 * PointSize, PointOf(job.pub) = BaseMultiples[c][e],
               NEW d, NEW n, NEW k, d = leBytes2big(job.prv) % c.q, n = leBytes2big(job.ukm),
               k = AgreedAt(c, n, d, e)
        PROVE  result = Outcome(d, n, k)
    <3>1. PICK prv \in Seq(ByteVals), pub \in Seq(ByteVals), ukm \in Seq(ByteVals) :
            prv = job.prv /\ pub = job.pub /\ ukm = job.ukm
      BY <2>2, <2>3
    <3>2. PICK flag \in BOOLEAN : flag = ct /\ result \in kek(c, flag, prv, pub, ukm)
      BY <2>2, <2>3, <3>1
    <3>3. /\ Len(prv) = PointSize /\ Len(pub) = 2 * PointSize /\ PointOf(pub) = BaseMultiples[c][e]
          /\ d = leBytes2big(prv) % c.q /\ n = leBytes2big(ukm)
      BY <2>3, <3>1
    <3>4. ASSUME NEW out \in kek(c, flag, prv, pub, ukm) PROVE out = Outcome(d, n, k)
      BY <2>1, <2>3, <3>3, KekExact
    <3> QED
      BY <3>2, <3>4
  <2>4. ASSUME job.op = "agree", result[1] = "ok"
        PROVE  PointOf(result[2]) # Infinity /\ InSubgroup(c, PointOf(result[2]))
    BY <2>1, <2>2, <2>4, KekInSubgroup
  <2>5. ASSUME job.op = "generate", result[1] = "ok", NEW d, d = leBytes2big(First(result[2]))
        PROVE  /\ d \in 1..(c.q - 1)
               /\ PointOf(SubSeq(result[2], PointSize + 1, 3 * PointSize)) = BaseMultiples[c][d]
    <3>1. job.raw \in Seq(ByteVals) /\ result = Generated(c, job.raw)
      BY <2>1, <2>5, ByteSets DEF CallsInv, GenerateCall
    <3> QED
      BY <2>1, <2>5, <3>1, GeneratedIs
  <2> QED
    BY <2>1, <2>3, <2>4, <2>5 DEF AgreementExact, Outcome, AgreedAt
<1> QED
  BY <1>1, CallsSafe, PTL

\* Both multiplications are repeated addition, for every scalar below q and every point of
\* the curve, on every curve where the complete formulas compute the sum of two
\* points or lose one outside the subgroup: the windows of the constant-time loop cover
\* every bit of the scalar, at any window width that divides the limb.
THEOREM MultiplicationExact ==
  ASSUME \A c \in Curves : GroupLaw(c) /\ OrderLaw(c) /\ FormulaLaw(c)
  PROVE  Spec => []MultExact
<1>1. Init => LoopInv
  BY LoopInit
<1>2. CallsInv /\ LoopInv /\ [Next]_vars => LoopInv'
  BY LoopNext
<1>3. LoopInv => MultExact
  BY DEF LoopInv
<1> QED
  BY <1>1, <1>2, <1>3, CallsSafe, PTL DEF Spec
=============================================================================
