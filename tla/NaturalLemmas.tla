---------------------------- MODULE NaturalLemmas ----------------------------
(***************************************************************************)
(* Facts about the naturals that the proofs rest on: the least element of  *)
(* a set and the induction and recursion that follow from it, with sets    *)
(* and functions as parameters, so that the backends can instantiate them; *)
(* \div and %, of which the SMT backend knows the defining property        *)
(* (DivModBasic) only; congruence, products over permuted indices, powers, *)
(* and Fermat's little theorem, on which the field inversion rests.        *)
(***************************************************************************)
EXTENDS Integers, WellFoundedInduction, TLAPS

\* A non-empty set of naturals has a least element.
LEMMA LeastNatural ==
  ASSUME NEW S, S \subseteq Nat, S # {}
  PROVE  \E i \in S : \A j \in S : i <= j
<1>1. \E x \in S : \A y \in S : ~(<<y, x>> \in OpToRel(<, Nat))
  BY NatLessThanWellFounded, WFMin
<1>2. PICK x \in S : \A y \in S : ~(<<y, x>> \in OpToRel(<, Nat))
  BY <1>1
<1>3. \A y \in S : ~(y < x)
  BY <1>2 DEF OpToRel
<1> QED
  BY <1>3

\* Induction up to a bound, for the set of the numbers that have the property.
LEMMA InductionUpTo ==
  ASSUME NEW n \in Nat, NEW S, 0 \in S,
         \A i \in 0..(n - 1) : i \in S => i + 1 \in S
  PROVE  0..n \subseteq S
<1> DEFINE bad == {i \in 0..n : i \notin S}
<1> SUFFICES ASSUME bad # {} PROVE FALSE
  OBVIOUS
<1>1. PICK i \in bad : \A j \in bad : i <= j
  <2>1. bad \subseteq Nat
    OBVIOUS
  <2> QED
    BY <2>1, LeastNatural
<1>2. i # 0 /\ i \in 0..n
  OBVIOUS
<1>3. i - 1 \in 0..(n - 1) /\ (i - 1) + 1 = i
  BY <1>2
<1>4. i - 1 \in S
  BY <1>1, <1>3
<1> QED
  BY <1>3, <1>4

\* Induction on all naturals.
LEMMA InductionNat ==
  ASSUME NEW S, 0 \in S, \A i \in Nat : i \in S => i + 1 \in S
  PROVE  Nat \subseteq S
<1> SUFFICES ASSUME NEW n \in Nat PROVE n \in S
  OBVIOUS
<1>1. 0..n \subseteq S
  BY InductionUpTo
<1> QED
  BY <1>1

\* The functions that start with a and compute entry i from entry i - 1 by step[i].
Recursive(S, a, n, step) ==
  {f \in [0..n -> S] : f[0] = a /\ \A i \in 1..n : f[i] = step[i][f[i - 1]]}

\* Recursion up to a bound has a solution.
LEMMA RecursionUpTo ==
  ASSUME NEW S, NEW a \in S, NEW n \in Nat, NEW step \in [1..n -> [S -> S]]
  PROVE  Recursive(S, a, n, step) # {}
<1> DEFINE Rec(f, k) == f[0] = a /\ \A i \in 1..k : f[i] = step[i][f[i - 1]]
           good == {k \in 0..n : \E f \in [0..k -> S] : Rec(f, k)}
<1>1. 0 \in good
  <2> DEFINE g == [i \in 0..0 |-> a]
  <2>1. g \in [0..0 -> S] /\ Rec(g, 0)
    OBVIOUS
  <2> HIDE DEF g, Rec
  <2> QED
    BY <2>1
<1>2. ASSUME NEW k \in 0..(n - 1), k \in good PROVE k + 1 \in good
  <2>1. PICK f \in [0..k -> S] : Rec(f, k)
    BY <1>2
  <2> DEFINE g == [i \in 0..(k + 1) |-> IF i <= k THEN f[i] ELSE step[k + 1][f[k]]]
  <2>2. k + 1 \in 1..n /\ f[k] \in S
    BY <1>2
  <2>3. step[k + 1][f[k]] \in S
    BY <2>2
  <2>4. g \in [0..(k + 1) -> S]
    BY <2>3
  <2>5. g[0] = a
    BY <2>1
  <2>6. ASSUME NEW i \in 1..(k + 1) PROVE g[i] = step[i][g[i - 1]]
    <3>1. i - 1 \in 0..k /\ g[i - 1] = f[i - 1]
      OBVIOUS
    <3>2. CASE i <= k
      BY <2>1, <3>1, <3>2
    <3>3. CASE i = k + 1
      BY <3>1, <3>3
    <3> QED
      BY <3>2, <3>3
  <2>7. Rec(g, k + 1)
    BY <2>5, <2>6
  <2>8. k + 1 \in 0..n
    BY <1>2
  <2> HIDE DEF g, Rec
  <2> QED
    BY <2>4, <2>7, <2>8
<1>3. 0..n \subseteq good
  <2> HIDE DEF good
  <2> QED
    BY <1>1, <1>2, InductionUpTo
<1> QED
  BY <1>3 DEF Recursive

\* Division with remainder: the quotient and remainder that the code's / and
\* % on non-negative ints compute.
LEMMA DivModBasic ==
  ASSUME NEW d \in Nat \ {0}, NEW a \in Nat
  PROVE  /\ a \div d \in Nat
         /\ a % d \in 0..(d - 1)
         /\ a = (a \div d) * d + (a % d)
  BY SMT

\* The same, with names for quotient and remainder.
LEMMA DivModNames ==
  ASSUME NEW d \in Nat \ {0}, NEW a \in Nat
  PROVE  \E q \in Nat, r \in 0..(d - 1) : a = q * d + r /\ a \div d = q /\ a % d = r
  BY DivModBasic

\* Quotient and remainder are unique.
LEMMA DivModUnique ==
  ASSUME NEW d \in Nat \ {0},
         NEW q \in Nat, NEW r \in 0..(d - 1),
         NEW s \in Nat, NEW t \in 0..(d - 1),
         q * d + r = s * d + t
  PROVE  q = s /\ r = t
<1>1. ASSUME q < s PROVE FALSE
  <2>1. s * d >= (q + 1) * d
    BY <1>1, SMT
  <2>2. (q + 1) * d = q * d + d
    BY SMT
  <2> QED
    BY <2>1, <2>2, SMT
<1>2. ASSUME s < q PROVE FALSE
  <2>1. q * d >= (s + 1) * d
    BY <1>2, SMT
  <2>2. (s + 1) * d = s * d + d
    BY SMT
  <2> QED
    BY <2>1, <2>2, SMT
<1> QED
  BY <1>1, <1>2, SMT

\* A number written as q*d + r with r < d has quotient q and remainder r.
LEMMA DivModIs ==
  ASSUME NEW d \in Nat \ {0}, NEW q \in Nat, NEW r \in 0..(d - 1),
         NEW a \in Nat, a = q * d + r
  PROVE  a \div d = q /\ a % d = r
<1>1. PICK s \in Nat, t \in 0..(d - 1) : a = s * d + t /\ a \div d = s /\ a % d = t
  BY DivModBasic
<1> QED
  BY <1>1, DivModUnique

\* The same, for the sum itself.
LEMMA DivModOf ==
  ASSUME NEW d \in Nat \ {0}, NEW q \in Nat, NEW r \in 0..(d - 1)
  PROVE  (q * d + r) \div d = q /\ (q * d + r) % d = r
<1>1. PICK a \in Nat : a = q * d + r
  OBVIOUS
<1>2. a \div d = q /\ a % d = r
  BY <1>1, DivModIs
<1> QED
  BY <1>1, <1>2

\* Reducing a summand first does not change a sum modulo m: a counter that
\* wraps at every increment and one that wraps once at the end agree.
LEMMA ModAdd ==
  ASSUME NEW m \in Nat \ {0}, NEW a \in Nat, NEW b \in Nat
  PROVE  ((a % m) + b) % m = (a + b) % m
<1>1. PICK q \in Nat, r \in 0..(m - 1) : a = q * m + r /\ a % m = r
  BY DivModBasic
<1>2. r + b \in Nat
  BY <1>1
<1>3. PICK s \in Nat, t \in 0..(m - 1) : r + b = s * m + t /\ (r + b) % m = t
  BY <1>2, DivModBasic
<1>4. PICK u \in Nat, v \in Nat : u = q + s /\ v = a + b
  OBVIOUS
<1>5. v = u * m + t
  BY <1>1, <1>3, <1>4, SMT
<1>6. v % m = t
  BY <1>5, DivModIs
<1> QED
  BY <1>1, <1>3, <1>4, <1>6

\* Multiples of d are exactly the numbers q*d.
LEMMA MultipleIff ==
  ASSUME NEW d \in Nat \ {0}, NEW a \in Nat
  PROVE  (a % d = 0) <=> (\E q \in Nat : a = q * d)
<1>1. ASSUME a % d = 0 PROVE \E q \in Nat : a = q * d
  <2>1. a \div d \in Nat /\ a = (a \div d) * d
    BY <1>1, DivModBasic
  <2> WITNESS a \div d \in Nat
  <2> QED
    BY <2>1
<1>2. ASSUME NEW q \in Nat, a = q * d PROVE a % d = 0
  BY <1>2, DivModIs
<1> QED
  BY <1>1, <1>2

\* A smaller multiple of d is smaller by at least d.
LEMMA MultipleGap ==
  ASSUME NEW d \in Nat \ {0}, NEW q \in Nat, NEW s \in Nat, q * d < s * d
  PROVE  q * d + d <= s * d
<1>1. q < s
  <2>1. ASSUME s <= q PROVE FALSE
    BY <2>1, SMT
  <2> QED
    BY <2>1
<1>2. s * d >= (q + 1) * d
  BY <1>1, SMT
<1> QED
  BY <1>2, SMT

\* A remainder modulo P * D: its digit of weight P, and the remainder modulo P.
LEMMA ModSplit ==
  ASSUME NEW P \in Nat \ {0}, NEW D \in Nat \ {0}, NEW x \in Nat
  PROVE  x % (P * D) = ((x \div P) % D) * P + (x % P)
<1>1. PICK q \in Nat, r \in 0..(P - 1) : x = q * P + r /\ x \div P = q /\ x % P = r
  BY DivModNames
<1>2. PICK s \in Nat, t \in 0..(D - 1) : q = s * D + t /\ q \div D = s /\ q % D = t
  BY DivModNames
<1>3. PICK M \in Nat \ {0} : M = P * D
  OBVIOUS
<1>4. PICK u \in Nat : u = t * P + r
  OBVIOUS
<1>5. u \in 0..(M - 1)
  <2>1. (t + 1) * P <= D * P
    OBVIOUS
  <2>2. (t + 1) * P = t * P + P
    OBVIOUS
  <2> QED
    BY <1>3, <1>4, <2>1, <2>2
<1>6. x = s * M + u
  <2>1. q * P = (s * D) * P + t * P
    BY <1>2
  <2>2. (s * D) * P = s * (P * D)
    OBVIOUS
  <2> QED
    BY <1>1, <1>3, <1>4, <2>1, <2>2
<1>7. x % M = u
  BY <1>5, <1>6, DivModIs
<1> QED
  BY <1>1, <1>2, <1>3, <1>4, <1>7

\* Recursion on all naturals has a solution.
LEMMA RecursionNat ==
  ASSUME NEW S, NEW a \in S, NEW step \in [S -> S]
  PROVE  \E f \in [Nat -> S] : f[0] = a /\ \A n \in Nat : f[n + 1] = step[f[n]]
<1> DEFINE Upto(n) == Recursive(S, a, n, [i \in 1..n |-> step])
           pick(n) == CHOOSE f \in Upto(n) : TRUE
           all == [n \in Nat |-> pick(n)[n]]
<1>1. ASSUME NEW n \in Nat PROVE pick(n) \in Upto(n)
  <2>1. [i \in 1..n |-> step] \in [1..n -> [S -> S]]
    OBVIOUS
  <2>2. Upto(n) # {}
    BY <2>1, RecursionUpTo
  <2> HIDE DEF Upto
  <2> QED
    BY <2>2
<1>2. ASSUME NEW n \in Nat, NEW f \in Upto(n)
      PROVE  f \in [0..n -> S] /\ f[0] = a /\ \A i \in 1..n : f[i] = step[f[i - 1]]
  BY DEF Recursive
<1>3. ASSUME NEW n \in Nat PROVE pick(n + 1)[n] = pick(n)[n]
  <2>1. PICK f, g : f = pick(n) /\ g = pick(n + 1)
    OBVIOUS
  <2>2. f \in Upto(n) /\ g \in Upto(n + 1) /\ n + 1 \in Nat
    BY <1>1, <2>1
  <2> HIDE DEF Upto, pick
  <2>3. f[0] = a /\ \A i \in 1..n : f[i] = step[f[i - 1]]
    BY <1>2, <2>2
  <2>4. g[0] = a /\ \A i \in 1..(n + 1) : g[i] = step[g[i - 1]]
    BY <1>2, <2>2
  <2> DEFINE same == {i \in 0..n : f[i] = g[i]}
  <2>5. 0 \in same
    BY <2>3, <2>4
  <2>6. ASSUME NEW i \in 0..(n - 1), i \in same PROVE i + 1 \in same
    <3>1. i + 1 \in 0..n /\ i + 1 \in 1..n /\ i + 1 \in 1..(n + 1) /\ (i + 1) - 1 = i /\ f[i] = g[i]
      BY <2>6
    <3> QED
      BY <2>3, <2>4, <3>1
  <2>7. 0..n \subseteq same
    <3> HIDE DEF same
    <3> QED
      BY <2>5, <2>6, InductionUpTo
  <2> QED
    BY <2>1, <2>7
<1>4. ASSUME NEW n \in Nat PROVE all[n] \in S
  BY <1>1, <1>2
<1>5. all[0] = a
  BY <1>1, <1>2
<1>6. ASSUME NEW n \in Nat PROVE all[n + 1] = step[all[n]]
  <2>1. PICK g : g = pick(n + 1)
    OBVIOUS
  <2>2. n + 1 \in Nat /\ g \in Upto(n + 1)
    BY <1>1, <2>1
  <2> HIDE DEF Upto, pick
  <2>3. n + 1 \in 1..(n + 1) /\ (n + 1) - 1 = n
    OBVIOUS
  <2>4. g[n + 1] = step[g[n]]
    BY <1>2, <2>2, <2>3
  <2>5. all[n + 1] = g[n + 1] /\ all[n] = pick(n)[n]
    BY <2>1, <2>2
  <2> QED
    BY <1>3, <2>1, <2>4, <2>5
<1>7. all \in [Nat -> S]
  BY <1>4
<1> HIDE DEF all
<1> QED
  BY <1>5, <1>6, <1>7

\* Two naturals with the same remainder, and the differences that leave it alone.
Same(m, a, b) == a % m = b % m

LEMMA SameIff ==
  ASSUME NEW m \in Nat \ {0}, NEW a \in Nat, NEW b \in Nat
  PROVE  Same(m, a, b) <=> \E i, j \in Nat : a + i * m = b + j * m
<1>1. PICK q \in Nat, r \in 0..(m - 1) : a = q * m + r /\ a % m = r
  BY DivModNames
<1>2. PICK s \in Nat, t \in 0..(m - 1) : b = s * m + t /\ b % m = t
  BY DivModNames
<1>3. ASSUME r = t PROVE \E i, j \in Nat : a + i * m = b + j * m
  <2>1. a + s * m = b + q * m
    BY <1>1, <1>2, <1>3
  <2> QED
    BY <2>1
<1>4. ASSUME NEW i \in Nat, NEW j \in Nat, a + i * m = b + j * m PROVE r = t
  <2>1. PICK x \in Nat, y \in Nat : x = q + i /\ y = s + j
    OBVIOUS
  <2>2. x * m = q * m + i * m /\ y * m = s * m + j * m
    BY <2>1
  <2>3. x * m + r = y * m + t
    BY <1>1, <1>2, <1>4, <2>2
  <2> QED
    BY <2>3, DivModUnique
<1> QED
  BY <1>1, <1>2, <1>3, <1>4 DEF Same

LEMMA SameMod ==
  ASSUME NEW m \in Nat \ {0}, NEW a \in Nat
  PROVE  a % m \in 0..(m - 1) /\ Same(m, a % m, a)
<1>1. PICK q \in Nat, r \in 0..(m - 1) : a = q * m + r /\ a % m = r
  BY DivModNames
<1>2. r + q * m = a + 0 * m /\ r \in Nat /\ 0 \in Nat
  BY <1>1
<1>3. Same(m, r, a)
  BY <1>2, SameIff
<1> QED
  BY <1>1, <1>3

LEMMA SameSmall ==
  ASSUME NEW m \in Nat \ {0}, NEW a \in 0..(m - 1)
  PROVE  a % m = a /\ a \div m = 0
<1>1. a = 0 * m + a /\ a \in Nat /\ 0 \in Nat
  OBVIOUS
<1> QED
  BY <1>1, DivModIs

LEMMA SameTrans ==
  ASSUME NEW m, NEW a, NEW b, NEW c, Same(m, a, b), Same(m, b, c)
  PROVE  Same(m, a, c) /\ Same(m, b, a)
  BY DEF Same

LEMMA SameSum ==
  ASSUME NEW m \in Nat \ {0}, NEW a \in Nat, NEW b \in Nat, NEW c \in Nat, NEW d \in Nat,
         Same(m, a, b), Same(m, c, d)
  PROVE  Same(m, a + c, b + d)
<1>1. PICK i \in Nat, j \in Nat : a + i * m = b + j * m
  BY SameIff
<1>2. PICK k \in Nat, l \in Nat : c + k * m = d + l * m
  BY SameIff
<1>3. PICK x \in Nat, y \in Nat : x = i + k /\ y = j + l
  OBVIOUS
<1>4. x * m = i * m + k * m /\ y * m = j * m + l * m
  BY <1>3
<1>5. PICK u \in Nat, v \in Nat : u = a + c /\ v = b + d
  OBVIOUS
<1>6. u + x * m = v + y * m
  BY <1>1, <1>2, <1>4, <1>5
<1>7. Same(m, u, v)
  BY <1>6, SameIff
<1> QED
  BY <1>5, <1>7

LEMMA SameCancel ==
  ASSUME NEW m \in Nat \ {0}, NEW a \in Nat, NEW b \in Nat, NEW c \in Nat, NEW d \in Nat,
         Same(m, a + c, b + d), Same(m, c, d)
  PROVE  Same(m, a, b)
<1>1. PICK i \in Nat, j \in Nat : (a + c) + i * m = (b + d) + j * m
  <2>1. a + c \in Nat /\ b + d \in Nat
    OBVIOUS
  <2> QED
    BY <2>1, SameIff
<1>2. PICK k \in Nat, l \in Nat : c + k * m = d + l * m
  BY SameIff
<1>3. PICK x \in Nat, y \in Nat : x = i + l /\ y = j + k
  OBVIOUS
<1>4. x * m = i * m + l * m /\ y * m = j * m + k * m
  BY <1>3
<1>5. a + x * m = b + y * m
  BY <1>1, <1>2, <1>4
<1> QED
  BY <1>5, SameIff

LEMMA SameTimes ==
  ASSUME NEW m \in Nat \ {0}, NEW a \in Nat, NEW b \in Nat, NEW c \in Nat, Same(m, a, b)
  PROVE  Same(m, a * c, b * c) /\ Same(m, c * a, c * b)
<1>1. PICK i \in Nat, j \in Nat : a + i * m = b + j * m
  BY SameIff
<1>2. PICK x \in Nat, y \in Nat : x = i * c /\ y = j * c
  OBVIOUS
<1>3. (a + i * m) * c = a * c + x * m /\ (b + j * m) * c = b * c + y * m
  BY <1>2
<1>4. a * c + x * m = b * c + y * m
  BY <1>1, <1>3
<1>5. PICK u \in Nat, v \in Nat : u = a * c /\ v = b * c
  OBVIOUS
<1>6. Same(m, u, v)
  BY <1>4, <1>5, SameIff
<1>7. c * a = a * c /\ c * b = b * c
  OBVIOUS
<1> QED
  BY <1>5, <1>6, <1>7

\* Dividing twice.
LEMMA DivDiv ==
  ASSUME NEW P \in Nat \ {0}, NEW D \in Nat \ {0}, NEW x \in Nat
  PROVE  x \div P \in Nat /\ (x \div P) \div D = x \div (P * D)
<1>1. PICK q \in Nat, r \in 0..(P - 1) : x = q * P + r /\ x \div P = q
  BY DivModNames
<1>2. PICK s \in Nat, t \in 0..(D - 1) : q = s * D + t /\ q \div D = s
  BY DivModNames
<1>3. PICK M \in Nat \ {0} : M = P * D
  OBVIOUS
<1>4. PICK u \in Nat : u = t * P + r
  OBVIOUS
<1>5. u \in 0..(M - 1)
  <2>1. (t + 1) * P <= D * P
    OBVIOUS
  <2>2. (t + 1) * P = t * P + P
    OBVIOUS
  <2> QED
    BY <1>3, <1>4, <2>1, <2>2
<1>6. x = s * M + u
  <2>1. q * P = (s * D) * P + t * P
    BY <1>2
  <2>2. (s * D) * P = s * (P * D)
    OBVIOUS
  <2> QED
    BY <1>1, <1>3, <1>4, <2>1, <2>2
<1>7. x \div M = s
  BY <1>5, <1>6, DivModIs
<1> QED
  BY <1>1, <1>2, <1>3, <1>7
-----------------------------------------------------------------------------
(* Products, powers and Fermat's theorem *)

\* The products of the first entries of g.
RunningProduct(g) ==
  CHOOSE f \in [Nat -> Nat] : f[0] = 1 /\ \A n \in Nat : f[n + 1] = f[n] * g[n + 1]

Numbers == [i \in Nat |-> i]

LEMMA NumbersAre == Numbers \in [Nat -> Nat] /\ \A i \in Nat : Numbers[i] = i
  BY DEF Numbers

PowerOf(a, n) == RunningProduct([i \in Nat |-> a])[n]

\* Recursion without a bound, as a set of functions.
Iterates(S, a, step) == {f \in [Nat -> S] : f[0] = a /\ \A n \in Nat : f[n + 1] = step[f[n]]}

LEMMA IterationNat ==
  ASSUME NEW S, NEW a \in S, NEW step \in [S -> S]
  PROVE  Iterates(S, a, step) # {}
  BY RecursionNat DEF Iterates

LEMMA ProductIs ==
  ASSUME NEW g \in [Nat -> Nat]
  PROVE  /\ RunningProduct(g) \in [Nat -> Nat]
         /\ RunningProduct(g)[0] = 1
         /\ \A n \in Nat : RunningProduct(g)[n + 1] = RunningProduct(g)[n] * g[n + 1]
<1> DEFINE step == [s \in Nat \X Nat |-> <<s[1] + 1, s[2] * g[s[1] + 1]>>]
           IsProduct(f) == f[0] = 1 /\ \A n \in Nat : f[n + 1] = f[n] * g[n + 1]
<1>1. step \in [Nat \X Nat -> Nat \X Nat] /\ <<0, 1>> \in Nat \X Nat
  <2>1. ASSUME NEW s \in Nat \X Nat PROVE <<s[1] + 1, s[2] * g[s[1] + 1]>> \in Nat \X Nat
    <3>1. PICK i \in Nat, v \in Nat : s[1] = i /\ s[2] = v
      OBVIOUS
    <3>2. PICK w \in Nat : w = g[i + 1]
      OBVIOUS
    <3>3. v * w \in Nat /\ i + 1 \in Nat
      OBVIOUS
    <3> QED
      BY <3>1, <3>2, <3>3
  <2> QED
    BY <2>1
<1>2. PICK h \in [Nat -> Nat \X Nat] : h[0] = <<0, 1>> /\ \A n \in Nat : h[n + 1] = step[h[n]]
  <2> HIDE DEF step
  <2>1. PICK S : S = Nat \X Nat
    OBVIOUS
  <2>2. PICK z \in S, st \in [S -> S] : z = <<0, 1>> /\ st = step
    BY <1>1, <2>1
  <2>3. Iterates(S, z, st) # {}
    BY IterationNat
  <2> QED
    BY <2>1, <2>2, <2>3 DEF Iterates
<1>3. ASSUME NEW n \in Nat PROVE h[n + 1] = <<h[n][1] + 1, h[n][2] * g[h[n][1] + 1]>>
  BY <1>2
<1> DEFINE good == {n \in Nat : h[n][1] = n}
<1>4. 0 \in good
  BY <1>2
<1>5. ASSUME NEW n \in Nat, n \in good PROVE n + 1 \in good
  <2>1. h[n][1] = n /\ n + 1 \in Nat
    BY <1>5
  <2>2. h[n + 1][1] = h[n][1] + 1
    BY <1>3
  <2> QED
    BY <2>1, <2>2
<1>6. Nat \subseteq good
  <2> HIDE DEF good
  <2> QED
    BY <1>4, <1>5, InductionNat
<1> DEFINE f == [n \in Nat |-> h[n][2]]
<1>7. f \in [Nat -> Nat]
  BY <1>2
<1>8. f[0] = 1
  BY <1>2
<1>9. ASSUME NEW n \in Nat PROVE f[n + 1] = f[n] * g[n + 1]
  <2>1. h[n][1] = n /\ n + 1 \in Nat
    BY <1>6
  <2> QED
    BY <1>3, <2>1
<1>10. IsProduct(f)
  BY <1>8, <1>9
<1>11. PICK e \in [Nat -> Nat] : e = RunningProduct(g) /\ IsProduct(e)
  <2>1. RunningProduct(g) = CHOOSE e \in [Nat -> Nat] : IsProduct(e)
    BY DEF RunningProduct
  <2> HIDE DEF IsProduct, f
  <2> QED
    BY <1>7, <1>10, <2>1
<1> QED
  BY <1>11

LEMMA ProductNext ==
  ASSUME NEW g \in [Nat -> Nat], NEW n \in Nat
  PROVE  /\ RunningProduct(g)[0] = 1 /\ RunningProduct(g)[n] \in Nat /\ g[n + 1] \in Nat
         /\ RunningProduct(g)[n + 1] = RunningProduct(g)[n] * g[n + 1]
<1>1. n + 1 \in Nat
  OBVIOUS
<1> QED
  BY <1>1, ProductIs

\* Only the entries that are multiplied count.
LEMMA ProductAgree ==
  ASSUME NEW g \in [Nat -> Nat], NEW h \in [Nat -> Nat], NEW n \in Nat, \A i \in 1..n : g[i] = h[i]
  PROVE  RunningProduct(g)[n] = RunningProduct(h)[n]
<1> DEFINE good == {i \in 0..n : RunningProduct(g)[i] = RunningProduct(h)[i]}
<1>1. 0 \in good
  BY ProductNext
<1>2. ASSUME NEW i \in 0..(n - 1), i \in good PROVE i + 1 \in good
  <2>1. i \in Nat /\ i + 1 \in 1..n /\ i + 1 \in 0..n
    OBVIOUS
  <2>2. g[i + 1] = h[i + 1]
    BY <2>1
  <2>3. /\ RunningProduct(g)[i + 1] = RunningProduct(g)[i] * g[i + 1]
        /\ RunningProduct(h)[i + 1] = RunningProduct(h)[i] * h[i + 1]
    BY <2>1, ProductNext
  <2> QED
    BY <1>2, <2>1, <2>2, <2>3
<1>3. 0..n \subseteq good
  <2> HIDE DEF good
  <2> QED
    BY <1>1, <1>2, InductionUpTo
<1> QED
  BY <1>3

\* One factor is replaced by another.
Replaced(g, j, v, h) == h[j] = v /\ \A i \in Nat \ {j} : h[i] = g[i]
Exchanged(g, j, v, h, n) == RunningProduct(h)[n] * g[j] = RunningProduct(g)[n] * v

LEMMA ProductReplace ==
  ASSUME NEW g \in [Nat -> Nat], NEW j \in Nat \ {0}, NEW v \in Nat, NEW n \in Nat, j <= n,
         NEW h \in [Nat -> Nat], Replaced(g, j, v, h)
  PROVE  Exchanged(g, j, v, h, n)
<1> DEFINE good == {i \in Nat : RunningProduct(h)[j + i] * g[j] = RunningProduct(g)[j + i] * v}
<1>1. h[j] = v /\ \A i \in Nat : i # j => h[i] = g[i]
  BY DEF Replaced
<1>2. PICK w \in Nat : w = g[j]
  OBVIOUS
<1>3. 0 \in good
  <2>1. PICK m \in Nat : m = j - 1 /\ m + 1 = j
    OBVIOUS
  <2>2. PICK a \in Nat, b \in Nat : a = RunningProduct(h)[m] /\ b = RunningProduct(g)[m]
    BY <1>1, ProductNext
  <2>3. a = b
    <3>1. \A i \in 1..m : h[i] = g[i]
      BY <1>1, <2>1
    <3> QED
      BY <1>1, <2>2, <3>1, ProductAgree
  <2>4. RunningProduct(h)[m + 1] = a * h[m + 1] /\ RunningProduct(g)[m + 1] = b * g[m + 1]
    BY <1>1, <2>2, ProductNext
  <2>5. (a * v) * w = (a * w) * v
    OBVIOUS
  <2>6. j + 0 = j
    OBVIOUS
  <2>7. RunningProduct(h)[j] = a * v /\ RunningProduct(g)[j] = a * w
    BY <1>1, <1>2, <2>1, <2>3, <2>4
  <2>8. RunningProduct(h)[j] * g[j] = RunningProduct(g)[j] * v
    BY <1>2, <2>5, <2>7
  <2> QED
    BY <2>6, <2>8
<1>4. ASSUME NEW i \in Nat, i \in good PROVE i + 1 \in good
  <2>1. PICK m \in Nat : m = j + i /\ j + (i + 1) = m + 1 /\ m + 1 # j
    OBVIOUS
  <2>2. PICK a \in Nat, b \in Nat, e \in Nat :
          a = RunningProduct(h)[m] /\ b = RunningProduct(g)[m] /\ e = g[m + 1]
    BY <1>1, ProductNext
  <2>3. RunningProduct(h)[m + 1] = a * e /\ RunningProduct(g)[m + 1] = b * e
    <3>1. h[m + 1] = e
      BY <1>1, <2>1, <2>2
    <3>2. RunningProduct(h)[m + 1] = a * h[m + 1] /\ RunningProduct(g)[m + 1] = b * g[m + 1]
      BY <1>1, <2>2, ProductNext
    <3> QED
      BY <2>2, <3>1, <3>2
  <2>4. a * w = b * v
    BY <1>2, <1>4, <2>1, <2>2
  <2>5. (a * e) * w = (b * e) * v
    <3>1. (a * e) * w = e * (a * w) /\ (b * e) * v = e * (b * v)
      OBVIOUS
    <3> QED
      BY <2>4, <3>1
  <2> QED
    BY <1>2, <2>1, <2>3, <2>5
<1>5. Nat \subseteq good
  <2> HIDE DEF good
  <2> QED
    BY <1>3, <1>4, InductionNat
<1>6. n - j \in Nat /\ j + (n - j) = n
  OBVIOUS
<1>7. n - j \in good
  BY <1>5, <1>6
<1> QED
  BY <1>6, <1>7 DEF Exchanged

\* g permutes 1..n.
Permutes(g, n) ==
  /\ \A i \in 1..n : g[i] \in 1..n
  /\ \A k \in 1..n : \E i \in 1..n : g[i] = k
  /\ \A i, j \in 1..n : g[i] = g[j] => i = j

\* The last value is taken out of a permutation.
LEMMA PermutesLess ==
  ASSUME NEW n \in Nat, NEW g \in [Nat -> Nat], Permutes(g, n + 1), NEW j \in 1..(n + 1), g[j] = n + 1,
         NEW h \in [Nat -> Nat], \A i \in 1..n : h[i] = IF i = j THEN g[n + 1] ELSE g[i]
  PROVE  Permutes(h, n)
<1>1. n + 1 \in 1..(n + 1) /\ \A i \in 1..n : i \in 1..(n + 1) /\ i # n + 1
  OBVIOUS
<1>2. \A i, k \in 1..(n + 1) : g[i] = g[k] => i = k
  BY DEF Permutes
<1>3. ASSUME NEW i \in 1..(n + 1), i # j PROVE g[i] \in 1..n
  <2>1. g[i] \in 1..(n + 1)
    BY DEF Permutes
  <2>2. g[i] # n + 1
    BY <1>2, <1>3
  <2> QED
    BY <2>1, <2>2
<1>4. ASSUME NEW i \in 1..n
      PROVE  \E k \in 1..(n + 1) : k # j /\ h[i] = g[k] /\ k = IF i = j THEN n + 1 ELSE i
  <2>1. CASE i = j
    <3>1. n + 1 # j
      BY <1>1, <2>1
    <3> QED
      BY <1>1, <2>1, <3>1
  <2>2. CASE i # j
    BY <1>1, <2>2
  <2> QED
    BY <2>1, <2>2
<1>5. ASSUME NEW i \in 1..n PROVE h[i] \in 1..n
  BY <1>3, <1>4
<1>6. ASSUME NEW k \in 1..n PROVE \E i \in 1..n : h[i] = k
  <2>1. PICK i \in 1..(n + 1) : g[i] = k
    BY <1>1 DEF Permutes
  <2>2. i # j
    BY <1>1, <2>1
  <2>3. CASE i = n + 1
    <3>1. j \in 1..n
      BY <2>2, <2>3
    <3> QED
      BY <2>1, <2>3, <3>1
  <2>4. CASE i # n + 1
    <3>1. i \in 1..n
      BY <2>4
    <3> QED
      BY <2>1, <2>2, <3>1
  <2> QED
    BY <2>3, <2>4
<1>7. ASSUME NEW i \in 1..n, NEW k \in 1..n, h[i] = h[k] PROVE i = k
  <2>1. PICK a \in 1..(n + 1) : a # j /\ h[i] = g[a] /\ a = IF i = j THEN n + 1 ELSE i
    BY <1>4
  <2>2. PICK b \in 1..(n + 1) : b # j /\ h[k] = g[b] /\ b = IF k = j THEN n + 1 ELSE k
    BY <1>4
  <2>3. a = b
    BY <1>2, <1>7, <2>1, <2>2
  <2> QED
    BY <1>1, <2>1, <2>2, <2>3
<1> QED
  BY <1>5, <1>6, <1>7 DEF Permutes

\* A permutation has the product of the numbers it permutes.
LEMMA PermutedProduct ==
  ASSUME NEW n \in Nat, NEW g \in [Nat -> Nat], Permutes(g, n)
  PROVE  RunningProduct(g)[n] = RunningProduct(Numbers)[n]
<1> DEFINE Whole(m) == \A f \in [Nat -> Nat] : Permutes(f, m) => RunningProduct(f)[m] = RunningProduct(Numbers)[m]
           good == {m \in Nat : Whole(m)}
<1>0. Numbers \in [Nat -> Nat] /\ \A i \in Nat : Numbers[i] = i
  BY DEF Numbers
<1>1. 0 \in good
  BY <1>0, ProductNext
<1>2. ASSUME NEW m \in Nat, m \in good PROVE m + 1 \in good
  <2>1. SUFFICES ASSUME NEW f \in [Nat -> Nat], Permutes(f, m + 1)
                 PROVE  RunningProduct(f)[m + 1] = RunningProduct(Numbers)[m + 1]
    OBVIOUS
  <2>2. PICK j \in 1..(m + 1) : f[j] = m + 1
    <3>1. m + 1 \in 1..(m + 1)
      OBVIOUS
    <3> QED
      BY <2>1, <3>1 DEF Permutes
  <2>3. PICK v \in Nat : v = f[m + 1]
    OBVIOUS
  <2>4. PICK h \in [Nat -> Nat] : h[j] = v /\ \A i \in Nat \ {j} : h[i] = f[i]
    <3> DEFINE e == [i \in Nat |-> IF i = j THEN v ELSE f[i]]
    <3>1. e \in [Nat -> Nat] /\ e[j] = v /\ \A i \in Nat \ {j} : e[i] = f[i]
      OBVIOUS
    <3> HIDE DEF e
    <3> QED
      BY <3>1
  <2>5. \A i \in 1..m : h[i] = IF i = j THEN f[m + 1] ELSE f[i]
    BY <2>3, <2>4
  <2>6. Permutes(h, m)
    BY <2>1, <2>2, <2>4, <2>5, PermutesLess
  <2>7. PICK a \in Nat : a = RunningProduct(h)[m] /\ a = RunningProduct(Numbers)[m]
    <3>1. RunningProduct(h)[m] = RunningProduct(Numbers)[m]
      BY <1>2, <2>4, <2>6
    <3> QED
      BY <1>0, <3>1, ProductNext
  <2>8. RunningProduct(Numbers)[m + 1] = a * (m + 1)
    <3>1. RunningProduct(Numbers)[m + 1] = RunningProduct(Numbers)[m] * Numbers[m + 1]
      BY <1>0, ProductNext, Zenon
    <3>2. Numbers[m + 1] = m + 1
      BY <1>0
    <3> QED
      BY <2>7, <3>1, <3>2
  <2>9. PICK b \in Nat : b = RunningProduct(f)[m] /\ RunningProduct(f)[m + 1] = b * v
    BY <2>3, ProductNext
  <2>10. a * (m + 1) = b * v
    <3>1. CASE j <= m
      <4>1. Exchanged(f, j, v, h, m)
        <5>1. j \in Nat \ {0}
          OBVIOUS
        <5>2. Replaced(f, j, v, h)
          BY <2>4 DEF Replaced
        <5> QED
          BY <3>1, <5>1, <5>2, ProductReplace
      <4> QED
        BY <2>2, <2>7, <2>9, <4>1 DEF Exchanged
    <3>2. CASE j > m
      <4>1. j = m + 1 /\ v = m + 1
        BY <2>2, <2>3, <3>2
      <4>2. \A i \in 1..m : h[i] = f[i]
        BY <2>4, <4>1
      <4>3. a = b
        BY <2>4, <2>7, <2>9, <4>2, ProductAgree
      <4> QED
        BY <4>1, <4>3
    <3> QED
      BY <3>1, <3>2
  <2> QED
    BY <2>8, <2>9, <2>10
<1>3. Nat \subseteq good
  <2> HIDE DEF good
  <2> QED
    BY <1>1, <1>2, InductionNat
<1> QED
  BY <1>3

LEMMA PowerNext ==
  ASSUME NEW a \in Nat, NEW n \in Nat
  PROVE  PowerOf(a, 0) = 1 /\ PowerOf(a, n) \in Nat /\ PowerOf(a, n + 1) = PowerOf(a, n) * a
<1>1. PICK g \in [Nat -> Nat] : g = [i \in Nat |-> a]
  OBVIOUS
<1>2. g[n + 1] = a
  BY <1>1
<1>3. \A m : PowerOf(a, m) = RunningProduct(g)[m]
  BY <1>1 DEF PowerOf
<1>4. /\ RunningProduct(g)[0] = 1 /\ RunningProduct(g)[n] \in Nat
      /\ RunningProduct(g)[n + 1] = RunningProduct(g)[n] * g[n + 1]
  BY ProductNext
<1> QED
  BY <1>2, <1>3, <1>4

LEMMA PowersAdd ==
  ASSUME NEW a \in Nat, NEW m \in Nat, NEW n \in Nat
  PROVE  PowerOf(a, m + n) = PowerOf(a, m) * PowerOf(a, n)
<1> DEFINE good == {i \in Nat : PowerOf(a, m + i) = PowerOf(a, m) * PowerOf(a, i)}
<1>0. PICK x \in Nat : x = PowerOf(a, m)
  BY PowerNext
<1>1. 0 \in good
  <2>1. PowerOf(a, 0) = 1 /\ m + 0 = m /\ x * 1 = x
    BY PowerNext
  <2> QED
    BY <1>0, <2>1
<1>2. ASSUME NEW i \in Nat, i \in good PROVE i + 1 \in good
  <2>1. PICK y \in Nat : y = PowerOf(a, i) /\ PowerOf(a, i + 1) = y * a
    BY PowerNext
  <2>2. PICK k \in Nat : k = m + i /\ m + (i + 1) = k + 1
    OBVIOUS
  <2>3. PICK z \in Nat : z = PowerOf(a, k) /\ PowerOf(a, k + 1) = z * a
    BY PowerNext
  <2>4. z = x * y
    BY <1>0, <1>2, <2>1, <2>2, <2>3
  <2>5. z * a = x * (y * a)
    BY <2>4
  <2> QED
    BY <1>0, <2>1, <2>2, <2>3, <2>5
<1>3. Nat \subseteq good
  <2> HIDE DEF good
  <2> QED
    BY <1>1, <1>2, InductionNat
<1> QED
  BY <1>3

\* p is a prime: residues other than zero have inverses.
PrimeField(p) == p > 1 /\ \A x \in 1..(p - 1) : \E y \in 0..(p - 1) : (x * y) % p = 1

LEMMA UnitOf ==
  ASSUME NEW p \in Nat \ {0}, PrimeField(p), NEW x \in 1..(p - 1)
  PROVE  \E y \in Nat : Same(p, x * y, 1)
<1>1. PICK y \in 0..(p - 1) : (x * y) % p = 1
  BY DEF PrimeField
<1>2. 1 \in 0..(p - 1)
  BY DEF PrimeField
<1>3. 1 % p = 1
  BY <1>2, SameSmall
<1>4. Same(p, x * y, 1) /\ y \in Nat
  BY <1>1, <1>3 DEF Same
<1> QED
  BY <1>4

LEMMA ResidueSame ==
  ASSUME NEW p \in Nat \ {0}, NEW i \in 0..(p - 1), NEW j \in 0..(p - 1), Same(p, i, j)
  PROVE  i = j
<1>1. i % p = i /\ j % p = j
  BY SameSmall
<1> QED
  BY <1>1 DEF Same

\* An inverse undoes a multiplication.
LEMMA Unscale ==
  ASSUME NEW p \in Nat \ {0}, NEW a \in Nat, NEW b \in Nat, Same(p, a * b, 1), NEW i \in Nat
  PROVE  Same(p, b * (a * i), i) /\ Same(p, a * (b * i), i)
<1>1. PICK e \in Nat : e = a * b
  OBVIOUS
<1>2. b * (a * i) = e * i /\ a * (b * i) = e * i /\ 1 * i = i
  BY <1>1
<1>3. Same(p, e, 1)
  BY <1>1
<1>4. Same(p, e * i, 1 * i)
  BY <1>3, SameTimes
<1> QED
  BY <1>2, <1>4, Zenon

\* Multiplication by a residue, which permutes the residues.
Scaled(p, a) == [i \in Nat |-> (a * i) % p]

LEMMA ScaledIs ==
  ASSUME NEW p \in Nat \ {0}, NEW a \in Nat
  PROVE  /\ Scaled(p, a) \in [Nat -> Nat]
         /\ \A i \in Nat : Scaled(p, a)[i] \in 0..(p - 1) /\ Same(p, Scaled(p, a)[i], a * i)
<1>1. ASSUME NEW i \in Nat PROVE (a * i) % p \in 0..(p - 1) /\ (a * i) % p \in Nat /\ Same(p, (a * i) % p, a * i)
  <2>1. PICK e \in Nat : e = a * i
    OBVIOUS
  <2>2. e % p \in 0..(p - 1) /\ Same(p, e % p, e)
    BY SameMod
  <2> QED
    BY <2>1, <2>2
<1> QED
  BY <1>1, Zenon DEF Scaled

LEMMA ScaledPermutes ==
  ASSUME NEW p \in Nat \ {0}, PrimeField(p), NEW a \in 1..(p - 1)
  PROVE  Permutes(Scaled(p, a), p - 1)
<1>1. PICK b \in Nat : Same(p, a * b, 1)
  BY UnitOf
<1>2. a \in Nat /\ p - 1 \in Nat
  OBVIOUS
<1>3. PICK g \in [Nat -> Nat] : g = Scaled(p, a) /\ \A i \in Nat : g[i] \in 0..(p - 1) /\ Same(p, g[i], a * i)
  BY <1>2, ScaledIs
<1>4. ASSUME NEW i \in Nat PROVE Same(p, b * g[i], i)
  <2>0. PICK e \in Nat : e = a * i
    BY <1>2
  <2>1. PICK f \in Nat : f = g[i] /\ e = a * i
    BY <2>0
  <2>2. Same(p, f, e)
    BY <1>3, <2>1
  <2>3. Same(p, b * f, b * e)
    BY <2>2, SameTimes
  <2>4. Same(p, b * (a * i), i)
    BY <1>1, <1>2, Unscale
  <2> QED
    BY <2>1, <2>3, <2>4 DEF Same
<1>5. ASSUME NEW i \in 1..(p - 1) PROVE g[i] \in 1..(p - 1)
  <2>1. g[i] \in 0..(p - 1) /\ i \in Nat
    BY <1>3
  <2>2. ASSUME g[i] = 0 PROVE FALSE
    <3>1. Same(p, b * g[i], i) /\ b * 0 = 0
      BY <1>4, <2>1
    <3>2. Same(p, 0, i) /\ 0 \in 0..(p - 1) /\ i \in 0..(p - 1)
      BY <2>2, <3>1
    <3>3. 0 = i
      BY <3>2, ResidueSame
    <3> QED
      BY <3>3
  <2> QED
    BY <2>1, <2>2
<1>6. ASSUME NEW i \in 1..(p - 1), NEW j \in 1..(p - 1), g[i] = g[j] PROVE i = j
  <2>1. i \in Nat /\ j \in Nat /\ i \in 0..(p - 1) /\ j \in 0..(p - 1)
    OBVIOUS
  <2>2. Same(p, b * g[i], i) /\ Same(p, b * g[j], j)
    BY <1>4, <2>1
  <2>3. Same(p, i, j)
    BY <1>6, <2>2 DEF Same
  <2> QED
    BY <2>1, <2>3, ResidueSame
<1>7. ASSUME NEW k \in 1..(p - 1) PROVE \E i \in 1..(p - 1) : g[i] = k
  <2>1. k \in Nat /\ k \in 0..(p - 1)
    OBVIOUS
  <2>2. PICK e \in Nat : e = b * k
    BY <2>1
  <2>3. PICK i \in 0..(p - 1) : i = e % p
    <3>1. e % p \in 0..(p - 1)
      BY SameMod
    <3> QED
      BY <3>1
  <2>4. i \in Nat /\ Same(p, i, e)
    BY <2>3, SameMod
  <2>5. Same(p, a * i, a * e)
    BY <1>2, <2>4, SameTimes
  <2>6. Same(p, a * e, k)
    BY <1>1, <1>2, <2>1, <2>2, Unscale
  <2>7. Same(p, g[i], a * i) /\ g[i] \in 0..(p - 1)
    BY <1>3, <2>4
  <2>8. g[i] = k
    <3>1. Same(p, g[i], k)
      BY <2>5, <2>6, <2>7 DEF Same
    <3> QED
      BY <2>1, <2>7, <3>1, ResidueSame
  <2>9. i # 0
    <3> SUFFICES ASSUME i = 0 PROVE FALSE
      OBVIOUS
    <3>1. a * 0 = 0 /\ 0 \in 0..(p - 1)
      BY <1>2
    <3>2. Same(p, k, 0)
      BY <2>7, <2>8, <3>1
    <3>3. k = 0
      BY <2>1, <3>1, <3>2, ResidueSame
    <3> QED
      BY <3>3
  <2> QED
    BY <2>8, <2>9
<1> QED
  BY <1>3, <1>5, <1>6, <1>7 DEF Permutes

LEMMA ScaledProduct ==
  ASSUME NEW p \in Nat \ {0}, NEW a \in Nat, NEW n \in Nat
  PROVE  Same(p, RunningProduct(Scaled(p, a))[n], PowerOf(a, n) * RunningProduct(Numbers)[n])
<1>1. PICK g \in [Nat -> Nat] : g = Scaled(p, a) /\ \A i \in Nat : Same(p, g[i], a * i)
  BY ScaledIs
<1>2. PICK h \in [Nat -> Nat] : h = Numbers /\ \A i \in Nat : h[i] = i
  BY NumbersAre, Zenon
<1> DEFINE good == {i \in Nat : Same(p, RunningProduct(g)[i], PowerOf(a, i) * RunningProduct(h)[i])}
<1>3. 0 \in good
  <2>1. RunningProduct(g)[0] = 1 /\ RunningProduct(h)[0] = 1 /\ PowerOf(a, 0) = 1
    BY ProductNext, PowerNext, Zenon
  <2>2. 1 * 1 = 1
    OBVIOUS
  <2> QED
    BY <2>1, <2>2 DEF Same
<1>4. ASSUME NEW i \in Nat, i \in good PROVE i + 1 \in good
  <2>1. PICK x \in Nat, u \in Nat : x = RunningProduct(g)[i] /\ u = g[i + 1] /\ RunningProduct(g)[i + 1] = x * u
    <3>1. /\ RunningProduct(g)[i] \in Nat /\ g[i + 1] \in Nat
          /\ RunningProduct(g)[i + 1] = RunningProduct(g)[i] * g[i + 1]
      BY ProductNext, Zenon
    <3> QED
      BY <3>1, Zenon
  <2>2. PICK y \in Nat, v \in Nat : y = RunningProduct(h)[i] /\ v = h[i + 1] /\ RunningProduct(h)[i + 1] = y * v
    <3>1. /\ RunningProduct(h)[i] \in Nat /\ h[i + 1] \in Nat
          /\ RunningProduct(h)[i + 1] = RunningProduct(h)[i] * h[i + 1]
      BY ProductNext, Zenon
    <3> QED
      BY <3>1, Zenon
  <2>3. PICK z \in Nat : z = PowerOf(a, i) /\ PowerOf(a, i + 1) = z * a
    BY PowerNext
  <2>4. PICK e \in Nat, f \in Nat : e = z * y /\ f = a * v
    OBVIOUS
  <2>5. Same(p, x, e)
    BY <1>4, <2>1, <2>2, <2>3, <2>4
  <2>6. Same(p, u, f)
    <3>1. i + 1 \in Nat /\ v = i + 1
      BY <1>2, <2>2
    <3>2. Same(p, g[i + 1], a * (i + 1))
      BY <1>1, <3>1
    <3> QED
      BY <2>1, <2>4, <3>1, <3>2
  <2>7. Same(p, x * u, e * u) /\ Same(p, e * u, e * f)
    BY <2>5, <2>6, SameTimes
  <2>8. e * f = (z * a) * (y * v)
    BY <2>4
  <2>9. Same(p, x * u, (z * a) * (y * v))
    BY <2>7, <2>8 DEF Same
  <2>10. Same(p, RunningProduct(g)[i + 1], PowerOf(a, i + 1) * RunningProduct(h)[i + 1])
    BY <2>1, <2>2, <2>3, <2>9
  <2> QED
    BY <2>10
<1>5. Nat \subseteq good
  <2> HIDE DEF good
  <2> QED
    BY <1>3, <1>4, InductionNat
<1> QED
  BY <1>1, <1>2, <1>5

\* The residues multiply to a residue that has an inverse.
LEMMA UnitProduct ==
  ASSUME NEW p \in Nat \ {0}, PrimeField(p)
  PROVE  \E y \in Nat : Same(p, RunningProduct(Numbers)[p - 1] * y, 1)
<1>1. PICK h \in [Nat -> Nat] : h = Numbers /\ \A i \in Nat : h[i] = i
  BY NumbersAre, Zenon
<1> DEFINE good == {i \in 0..(p - 1) : \E y \in Nat : Same(p, RunningProduct(h)[i] * y, 1)}
<1>2. 0 \in good
  <2>1. RunningProduct(h)[0] = 1 /\ 1 * 1 = 1 /\ Same(p, 1, 1)
    BY ProductNext DEF Same
  <2> QED
    BY <2>1
<1>3. ASSUME NEW i \in 0..((p - 1) - 1), i \in good PROVE i + 1 \in good
  <2>1. i \in Nat /\ i + 1 \in 0..(p - 1) /\ i + 1 \in 1..(p - 1) /\ i + 1 \in Nat
    OBVIOUS
  <2>2. PICK x \in Nat : x = RunningProduct(h)[i] /\ RunningProduct(h)[i + 1] = x * (i + 1)
    <3>1. RunningProduct(h)[i] \in Nat /\ RunningProduct(h)[i + 1] = RunningProduct(h)[i] * h[i + 1]
      BY <2>1, ProductNext
    <3> QED
      BY <1>1, <2>1, <3>1
  <2>3. PICK y \in Nat : Same(p, x * y, 1)
    BY <1>3, <2>2
  <2>4. PICK z \in Nat : Same(p, (i + 1) * z, 1)
    BY <2>1, UnitOf
  <2>5. PICK k \in Nat : k = i + 1
    BY <2>1
  <2>6. PICK e \in Nat, f \in Nat : e = x * y /\ f = k * z
    OBVIOUS
  <2>7. (x * k) * (y * z) = e * f
    BY <2>6
  <2>8. Same(p, e, 1) /\ Same(p, f, 1) /\ 1 * f = f
    BY <2>3, <2>4, <2>5, <2>6
  <2>9. Same(p, e * f, 1 * f)
    BY <2>8, SameTimes
  <2>10. Same(p, (x * k) * (y * z), 1)
    BY <2>7, <2>8, <2>9 DEF Same
  <2>11. PICK w \in Nat : w = y * z
    OBVIOUS
  <2> QED
    BY <2>1, <2>2, <2>5, <2>10, <2>11
<1>4. 0..(p - 1) \subseteq good
  <2>1. p - 1 \in Nat
    OBVIOUS
  <2> HIDE DEF good
  <2> QED
    BY <1>2, <1>3, <2>1, InductionUpTo
<1> QED
  BY <1>1, <1>4

\* Fermat: the power of a residue by p - 1 is 1.
LEMMA Fermat ==
  ASSUME NEW p \in Nat \ {0}, PrimeField(p), NEW a \in 1..(p - 1)
  PROVE  Same(p, PowerOf(a, p - 1), 1)
<1>1. p - 1 \in Nat /\ a \in Nat /\ Numbers \in [Nat -> Nat]
  BY DEF Numbers
<1>2. PICK x \in Nat, e \in Nat : x = RunningProduct(Numbers)[p - 1] /\ e = PowerOf(a, p - 1)
  BY <1>1, ProductNext, PowerNext
<1>3. Same(p, x, e * x)
  <2>1. RunningProduct(Scaled(p, a))[p - 1] = x
    BY <1>1, <1>2, ScaledIs, ScaledPermutes, PermutedProduct
  <2>2. Same(p, RunningProduct(Scaled(p, a))[p - 1], PowerOf(a, p - 1) * RunningProduct(Numbers)[p - 1])
    BY <1>1, ScaledProduct
  <2> QED
    BY <1>2, <2>1, <2>2
<1>4. PICK y \in Nat : Same(p, x * y, 1)
  BY <1>2, UnitProduct
<1>5. PICK f \in Nat, g \in Nat : f = x * y /\ g = e * x
  OBVIOUS
<1>6. Same(p, x * y, g * y)
  BY <1>3, <1>5, SameTimes
<1>7. g * y = e * f
  BY <1>5
<1>8. Same(p, e * f, e * 1) /\ e * 1 = e
  BY <1>4, <1>5, SameTimes
<1> QED
  BY <1>2, <1>4, <1>6, <1>7, <1>8 DEF Same
=============================================================================
