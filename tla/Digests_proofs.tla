--------------------------- MODULE Digests_proofs ---------------------------
(***************************************************************************)
(* OMAC, Streebog and GOST R 34.11-94 compute the digest of the message    *)
(* written, for every block size, byte base, length of the message and cut *)
(* of it into Writes, and no two messages share a digest input.            *)
(***************************************************************************)
EXTENDS Digests, NaturalLemmas, SequenceTheorems

Digit == 0..(Base - 1)
Modulus == Base^HashBlock

\* The assumptions on the parameters.
LEMMA Params ==
  /\ OmacBlock \in Nat \ {0} /\ HashBlock \in Nat \ {0} /\ Base \in Nat \ {0, 1}
  /\ BitsPerByte \in Nat \ {0} /\ Modulus \in Nat \ {0}
<1>1. /\ OmacBlock \in Nat \ {0} /\ HashBlock \in Nat \ {0} /\ Base \in Nat \ {0, 1}
      /\ BitsPerByte \in Nat \ {0}
  BY DigestsAssumption
<1>2. HashBlock \in 0..HashBlock
  BY <1>1
<1> QED
  BY <1>1, <1>2, PowerAssumption DEF Modulus

-----------------------------------------------------------------------------
(* Sequences *)

\* The first t bytes.
LEMMA Prefix ==
  ASSUME NEW S, NEW s \in Seq(S), NEW t \in 0..Len(s)
  PROVE  /\ SubSeq(s, 1, t) \in Seq(S) /\ Len(SubSeq(s, 1, t)) = t
         /\ \A i \in 1..t : SubSeq(s, 1, t)[i] = s[i]
<1>1. Len(s) \in Nat /\ \A i \in 1..Len(s) : s[i] \in S
  BY LenProperties, ElementOfSeq
<1>2. t \in Int /\ 1 \in Int /\ \A i \in 1..t : s[i] \in S
  BY <1>1
<1>3. PICK u : u = SubSeq(s, 1, t)
  OBVIOUS
<1>4. /\ u \in Seq(S) /\ Len(u) = IF 1 <= t THEN t - 1 + 1 ELSE 0
      /\ \A i \in 1..(t - 1 + 1) : u[i] = s[1 + i - 1]
  BY <1>2, <1>3, SubSeqProperties
<1>5. Len(u) = t
  BY <1>1, <1>4
<1>6. ASSUME NEW i \in 1..t PROVE u[i] = s[i]
  <2>1. i \in 1..(t - 1 + 1) /\ 1 + i - 1 = i
    BY <1>1
  <2> QED
    BY <1>4, <2>1
<1> QED
  BY <1>3, <1>4, <1>5, <1>6

\* What follows the first t bytes.
LEMMA Suffix ==
  ASSUME NEW S, NEW s \in Seq(S), NEW t \in 0..Len(s)
  PROVE  /\ SubSeq(s, t + 1, Len(s)) \in Seq(S) /\ Len(SubSeq(s, t + 1, Len(s))) = Len(s) - t
         /\ \A i \in 1..(Len(s) - t) : SubSeq(s, t + 1, Len(s))[i] = s[t + i]
<1>1. PICK z \in Nat : z = Len(s) /\ \A i \in 1..z : s[i] \in S
  BY LenProperties, ElementOfSeq
<1>2. t + 1 \in Int /\ z \in Int /\ \A i \in (t + 1)..z : s[i] \in S
  BY <1>1
<1>3. PICK u : u = SubSeq(s, t + 1, z)
  OBVIOUS
<1>4. /\ u \in Seq(S) /\ Len(u) = IF t + 1 <= z THEN z - (t + 1) + 1 ELSE 0
      /\ \A i \in 1..(z - (t + 1) + 1) : u[i] = s[(t + 1) + i - 1]
  BY <1>2, <1>3, SubSeqProperties
<1>5. Len(u) = z - t
  BY <1>1, <1>4
<1>6. ASSUME NEW i \in 1..(z - t) PROVE u[i] = s[t + i]
  <2>1. i \in 1..(z - (t + 1) + 1) /\ (t + 1) + i - 1 = t + i
    BY <1>1
  <2> QED
    BY <1>4, <2>1
<1> QED
  BY <1>1, <1>3, <1>4, <1>5, <1>6

\* A function on 1..t is a sequence.
LEMMA FcnSeq ==
  ASSUME NEW S, NEW t \in Nat, NEW f \in [1..t -> S]
  PROVE  f \in Seq(S) /\ Len(f) = t
  OBVIOUS

\* Bytes x + 1 to x + B.
LEMMA PartIs ==
  ASSUME NEW S, NEW m \in Seq(S), NEW x \in Nat, NEW B \in Nat \ {0}, x + B <= Len(m)
  PROVE  /\ SubSeq(m, x + 1, x + B) \in Seq(S) /\ Len(SubSeq(m, x + 1, x + B)) = B
         /\ \A i \in 1..B : SubSeq(m, x + 1, x + B)[i] = m[x + i]
<1>1. Len(m) \in Nat /\ \A i \in 1..Len(m) : m[i] \in S
  BY LenProperties, ElementOfSeq
<1>2. x + 1 \in Int /\ x + B \in Int /\ \A i \in (x + 1)..(x + B) : m[i] \in S
  BY <1>1
<1>3. PICK u : u = SubSeq(m, x + 1, x + B)
  OBVIOUS
<1>4. /\ u \in Seq(S) /\ Len(u) = IF x + 1 <= x + B THEN (x + B) - (x + 1) + 1 ELSE 0
      /\ \A i \in 1..((x + B) - (x + 1) + 1) : u[i] = m[(x + 1) + i - 1]
  BY <1>2, <1>3, SubSeqProperties
<1>5. Len(u) = B
  BY <1>4
<1>6. ASSUME NEW i \in 1..B PROVE u[i] = m[x + i]
  <2>1. i \in 1..((x + B) - (x + 1) + 1) /\ (x + 1) + i - 1 = x + i
    OBVIOUS
  <2> QED
    BY <1>4, <2>1
<1> QED
  BY <1>3, <1>4, <1>5, <1>6

\* Where block j of k starts, and that it ends before k * B.
LEMMA BlockStart ==
  ASSUME NEW k \in Nat, NEW B \in Nat \ {0}, NEW j \in 1..k
  PROVE  \E x \in Nat : x = (j - 1) * B /\ x + B <= k * B
<1>1. PICK x \in Nat : x = (j - 1) * B /\ j * B = x + B
  OBVIOUS
<1>2. PICK g \in Nat : k = j + g
  <2>1. k - j \in Nat /\ k = j + (k - j)
    OBVIOUS
  <2> QED
    BY <2>1
<1>3. k * B = j * B + g * B /\ g * B >= 0
  BY <1>2
<1> QED
  BY <1>1, <1>3

\* Block j of a message that is long enough.
LEMMA BlockIs ==
  ASSUME NEW S, NEW m \in Seq(S), NEW B \in Nat \ {0}, NEW j \in Nat \ {0},
         NEW x \in Nat, x = (j - 1) * B, x + B <= Len(m)
  PROVE  /\ Block(m, B, j) \in Seq(S) /\ Len(Block(m, B, j)) = B /\ Block(m, B, j) \in [1..B -> S]
         /\ \A i \in 1..B : Block(m, B, j)[i] = m[x + i]
<1>1. j * B = x + B
  OBVIOUS
<1>2. PICK u : u = Block(m, B, j)
  OBVIOUS
<1>3. u = SubSeq(m, x + 1, x + B)
  BY <1>1, <1>2 DEF Block
<1>4. u \in Seq(S) /\ Len(u) = B /\ \A i \in 1..B : u[i] = m[x + i]
  BY <1>3, PartIs
<1>5. u \in [1..B -> S]
  BY <1>4, LenProperties
<1> QED
  BY <1>2, <1>4, <1>5

\* The first k blocks of size B are x bytes.
At(x, k, B) == x = k * B

\* t holds l bytes of m from x on.
Reads(t, l, m, x) == \A i \in 1..l : t[i] = m[x + i]

\* Block j holds the bytes from its start on.
LEMMA BlockReads ==
  ASSUME NEW S, NEW m \in Seq(S), NEW B \in Nat \ {0}, NEW j \in Nat \ {0},
         NEW x \in Nat, At(x, j - 1, B), x + B <= Len(m)
  PROVE  Block(m, B, j) \in [1..B -> S] /\ Reads(Block(m, B, j), B, m, x)
<1>1. PICK u : u = Block(m, B, j)
  OBVIOUS
<1>2. j * B = x + B
  BY DEF At
<1>3. u = SubSeq(m, x + 1, x + B)
  BY <1>1, <1>2 DEF Block, At
<1>4. u \in Seq(S) /\ Len(u) = B /\ \A i \in 1..B : u[i] = m[x + i]
  BY <1>3, PartIs
<1>5. u \in [1..B -> S]
  BY <1>4, LenProperties
<1> QED
  BY <1>1, <1>4, <1>5 DEF Reads

\* Joining two sequences.
LEMMA Joined ==
  ASSUME NEW S, NEW s \in Seq(S), NEW t \in Seq(S)
  PROVE  /\ s \o t \in Seq(S) /\ Len(s \o t) = Len(s) + Len(t) /\ Len(s) \in Nat /\ Len(t) \in Nat
         /\ \A i \in 1..Len(s) : (s \o t)[i] = s[i]
         /\ \A i \in 1..Len(t) : (s \o t)[Len(s) + i] = t[i]
<1>1. Len(s) \in Nat /\ Len(t) \in Nat
  BY LenProperties
<1>2. PICK u : u = s \o t
  OBVIOUS
<1>3. /\ u \in Seq(S) /\ Len(u) = Len(s) + Len(t)
      /\ \A i \in 1..(Len(s) + Len(t)) : u[i] = IF i <= Len(s) THEN s[i] ELSE t[i - Len(s)]
  BY <1>2, ConcatProperties
<1>4. PICK a \in Nat, z \in Nat : a = Len(s) /\ z = Len(t)
  BY <1>1
<1>5. \A i \in 1..(a + z) : u[i] = IF i <= a THEN s[i] ELSE t[i - a]
  BY <1>3, <1>4
<1>6. ASSUME NEW i \in 1..a PROVE u[i] = s[i]
  BY <1>5
<1>7. ASSUME NEW i \in 1..z PROVE u[a + i] = t[i]
  <2>1. a + i \in 1..(a + z) /\ ~(a + i <= a) /\ (a + i) - a = i
    OBVIOUS
  <2> QED
    BY <1>5, <2>1
<1> QED
  BY <1>1, <1>2, <1>3, <1>4, <1>6, <1>7

-----------------------------------------------------------------------------
(* The message is what was absorbed, what is buffered and what is left *)

\* Write appends to the message.
LEMMA CutWrite ==
  ASSUME NEW S, NEW m \in Seq(S), NEW d \in Seq(S), NEW x \in Nat, NEW b, NEW l \in Nat,
         Cut(m, x, b, l, <<>>)
  PROVE  Cut(m \o d, x, b, l, d)
<1>1. PICK w : w = m \o d
  OBVIOUS
<1>2. /\ Len(w) = Len(m) + Len(d) /\ Len(d) \in Nat
      /\ \A i \in 1..Len(m) : w[i] = m[i]
      /\ \A i \in 1..Len(d) : w[Len(m) + i] = d[i]
  BY <1>1, Joined
<1>3. Len(m) = x + l /\ \A i \in 1..l : b[i] = m[x + i]
  BY DEF Cut
<1>4. ASSUME NEW i \in 1..l PROVE b[i] = w[x + i]
  <2>1. x + i \in 1..Len(m)
    BY <1>3
  <2> QED
    BY <1>2, <1>3, <2>1
<1>5. ASSUME NEW i \in 1..Len(d) PROVE d[i] = w[x + l + i]
  BY <1>2, <1>3
<1>6. Len(w) = x + l + Len(d)
  BY <1>2, <1>3
<1> QED
  BY <1>1, <1>4, <1>5, <1>6 DEF Cut

\* Bytes move from what is left into the buffer.
LEMMA CutMove ==
  ASSUME NEW S, NEW m \in Seq(S), NEW r \in Seq(S), NEW x \in Nat, NEW b, NEW l \in Nat,
         Cut(m, x, b, l, r), NEW t \in 0..Len(r), NEW c,
         \A i \in 1..l : c[i] = b[i], \A i \in 1..t : c[l + i] = r[i]
  PROVE  Cut(m, x, c, l + t, SubSeq(r, t + 1, Len(r)))
<1>0. PICK z \in Nat : z = Len(r)
  BY LenProperties
<1>1. PICK u : u = SubSeq(r, t + 1, Len(r))
  OBVIOUS
<1>2. Len(u) = z - t /\ \A i \in 1..(z - t) : u[i] = r[t + i]
  BY <1>0, <1>1, Suffix
<1>3. /\ Len(m) = x + l + z /\ \A i \in 1..l : b[i] = m[x + i]
      /\ \A i \in 1..z : r[i] = m[x + l + i]
  BY <1>0 DEF Cut
<1>4. ASSUME NEW i \in 1..(l + t) PROVE c[i] = m[x + i]
  <2>1. CASE i <= l
    BY <1>3, <2>1
  <2>2. CASE ~(i <= l)
    <3>1. PICK g \in 1..t : g = i - l /\ l + g = i /\ x + l + g = x + i
      BY <2>2
    <3>2. g \in 1..z
      BY <1>0
    <3> QED
      BY <1>3, <3>1, <3>2
  <2> QED
    BY <2>1, <2>2
<1>5. ASSUME NEW i \in 1..(z - t) PROVE u[i] = m[x + (l + t) + i]
  <2>1. t + i \in 1..z /\ x + l + (t + i) = x + (l + t) + i
    BY <1>0
  <2> QED
    BY <1>2, <1>3, <2>1
<1>6. Len(m) = x + (l + t) + (z - t) /\ t \in Nat
  BY <1>3
<1> QED
  BY <1>1, <1>2, <1>4, <1>5, <1>6 DEF Cut

\* A full buffer is the next block.
LEMMA CutBlock ==
  ASSUME NEW S, NEW m \in Seq(S), NEW r \in Seq(S), NEW k \in Nat, NEW B \in Nat \ {0}, NEW b,
         Cut(m, k * B, b, B, r)
  PROVE  /\ \A c : Cut(m, (k + 1) * B, c, 0, r)
         /\ (k + 1) * B <= Len(m) /\ \A i \in 1..B : Block(m, B, k + 1)[i] = b[i]
<1>1. PICK x \in Nat, z \in Nat : x = k * B /\ (k + 1) * B = x + B /\ z = Len(r)
  <2>1. k * B \in Nat /\ (k + 1) * B = k * B + B /\ Len(r) \in Nat
    BY LenProperties
  <2> QED
    BY <2>1
<1>2. /\ Len(m) = x + B + z /\ \A i \in 1..B : b[i] = m[x + i]
      /\ \A i \in 1..z : r[i] = m[x + B + i]
  BY <1>1 DEF Cut
<1>3. \A i \in 1..z : (x + B) + 0 + i = x + B + i
  OBVIOUS
<1>4. Len(m) = (x + B) + 0 + z
  BY <1>2
<1>5. \A c : Cut(m, x + B, c, 0, r)
  BY <1>1, <1>2, <1>3, <1>4 DEF Cut
<1>6. k + 1 \in Nat \ {0} /\ (k + 1) * B <= Len(m) /\ x = ((k + 1) - 1) * B /\ x + B <= Len(m)
  BY <1>1, <1>2
<1>7. \A i \in 1..B : Block(m, B, k + 1)[i] = m[x + i]
  BY <1>6, BlockIs
<1> QED
  BY <1>1, <1>2, <1>5, <1>6, <1>7

\* Blocks that are complete do not change when bytes are added.
LEMMA BlockStable ==
  ASSUME NEW S, NEW m \in Seq(S), NEW d \in Seq(S), NEW k \in Nat, NEW B \in Nat \ {0},
         NEW kb \in Nat, At(kb, k, B), kb <= Len(m), NEW j \in 1..k
  PROVE  Block(m \o d, B, j) = Block(m, B, j)
<1>0. m \o d \in Seq(S)
  BY Joined
<1>1. PICK w \in Seq(S) : w = m \o d
  BY <1>0
<1>2. /\ Len(w) = Len(m) + Len(d) /\ Len(m) \in Nat /\ Len(d) \in Nat
      /\ \A i \in 1..Len(m) : w[i] = m[i]
  BY <1>1, Joined
<1>3. PICK x \in Nat : x = (j - 1) * B /\ x + B <= k * B
  BY BlockStart
<1>4. At(x, j - 1, B)
  BY <1>3 DEF At
<1>5. x + B <= Len(m) /\ x + B <= Len(w) /\ j \in Nat \ {0}
  BY <1>2, <1>3 DEF At
<1>6. PICK f \in [1..B -> S] : f = Block(m, B, j) /\ Reads(f, B, m, x)
  BY <1>4, <1>5, BlockReads
<1>7. PICK g \in [1..B -> S] : g = Block(w, B, j) /\ Reads(g, B, w, x)
  BY <1>4, <1>5, BlockReads
<1>8. ASSUME NEW i \in 1..B PROVE w[x + i] = m[x + i]
  <2>1. x + i \in 1..Len(m)
    BY <1>2, <1>5
  <2> QED
    BY <1>2, <2>1
<1>9. f = g
  <2>1. \A i \in 1..B : f[i] = g[i]
    BY <1>6, <1>7, <1>8 DEF Reads
  <2> QED
    BY <2>1
<1> QED
  BY <1>1, <1>6, <1>7, <1>9

-----------------------------------------------------------------------------
(* Sums and numbers *)

SumEqn(d, f, N) == f = [i \in 0..N |-> IF i = 0 THEN 0 ELSE f[i - 1] + d[i]]

\* Partial sums exist.
LEMMA SumExists ==
  ASSUME NEW N \in Nat, NEW d, \A i \in 1..N : d[i] \in Nat
  PROVE  \E f \in [0..N -> Nat] : SumEqn(d, f, N)
<1> DEFINE step == [i \in 1..N |-> [v \in Nat |-> v + d[i]]]
<1>1. step \in [1..N -> [Nat -> Nat]]
  OBVIOUS
<1>2. PICK f \in [0..N -> Nat] : f[0] = 0 /\ \A i \in 1..N : f[i] = step[i][f[i - 1]]
  <2> HIDE DEF step
  <2>1. Recursive(Nat, 0, N, step) # {}
    BY <1>1, RecursionUpTo
  <2> QED
    BY <2>1 DEF Recursive
<1>3. ASSUME NEW i \in 0..N PROVE f[i] = IF i = 0 THEN 0 ELSE f[i - 1] + d[i]
  <2>1. CASE i = 0
    BY <1>2, <2>1
  <2>2. CASE i # 0
    <3>1. i \in 1..N /\ i - 1 \in 0..N /\ f[i - 1] \in Nat
      BY <1>2, <2>2
    <3> QED
      BY <1>2, <2>2, <3>1
  <2> QED
    BY <2>1, <2>2
<1> QED
  BY <1>3 DEF SumEqn

\* They are unique: a longer list extends a shorter one.
LEMMA SumUnique ==
  ASSUME NEW N \in Nat, NEW M \in Nat, N <= M, NEW d, NEW f, NEW g, SumEqn(d, f, N), SumEqn(d, g, M)
  PROVE  \A i \in 0..N : f[i] = g[i]
<1> DEFINE good == {i \in 0..N : f[i] = g[i]}
<1>1. 0 \in good
  BY DEF SumEqn
<1>2. ASSUME NEW i \in 0..(N - 1), i \in good PROVE i + 1 \in good
  <2>1. i + 1 \in 0..N /\ i + 1 \in 0..M /\ i + 1 # 0 /\ (i + 1) - 1 = i
    OBVIOUS
  <2>2. f[i + 1] = f[i] + d[i + 1]
    BY <2>1 DEF SumEqn
  <2>3. g[i + 1] = g[i] + d[i + 1]
    BY <2>1 DEF SumEqn
  <2> QED
    BY <1>2, <2>1, <2>2, <2>3
<1>3. 0..N \subseteq good
  <2> HIDE DEF good
  <2> QED
    BY <1>1, <1>2, InductionUpTo
<1> QED
  BY <1>3

\* Total is the value of any solution of its equation.
LEMMA TotalOf ==
  ASSUME NEW N \in Nat, NEW d, NEW f, SumEqn(d, f, N)
  PROVE  Total(d, N) = f[N]
<1> DEFINE s == CHOOSE g : SumEqn(d, g, N)
<1>1. SumEqn(d, s, N)
  OBVIOUS
<1>2. Total(d, N) = s[N]
  BY DEF Total, SumEqn
<1>3. s[N] = f[N]
  <2> HIDE DEF s
  <2> QED
    BY <1>1, SumUnique
<1> QED
  BY <1>2, <1>3

\* A sum is a number; it starts with 0 and grows by one number at a time.
LEMMA TotalIs ==
  ASSUME NEW N \in Nat, NEW d, \A i \in 1..N : d[i] \in Nat
  PROVE  /\ Total(d, N) \in Nat
         /\ N = 0 => Total(d, N) = 0
         /\ N # 0 => Total(d, N) = Total(d, N - 1) + d[N]
<1>1. PICK f \in [0..N -> Nat] : SumEqn(d, f, N)
  BY SumExists
<1>2. Total(d, N) = f[N] /\ f[N] \in Nat
  BY <1>1, TotalOf
<1>3. ASSUME N # 0 PROVE Total(d, N - 1) = f[N - 1]
  <2>1. PICK M \in Nat : M = N - 1 /\ M <= N /\ M \in 0..M
    BY <1>3
  <2>2. PICK g \in [0..M -> Nat] : SumEqn(d, g, M)
    <3>1. \A i \in 1..M : d[i] \in Nat
      BY <2>1
    <3> QED
      BY <3>1, SumExists
  <2>3. Total(d, M) = g[M]
    BY <2>2, TotalOf
  <2>4. g[M] = f[M]
    BY <1>1, <2>1, <2>2, SumUnique
  <2> QED
    BY <2>1, <2>3, <2>4
<1> QED
  BY <1>1, <1>2, <1>3 DEF SumEqn

\* Equal numbers have equal sums.
LEMMA TotalSame ==
  ASSUME NEW N \in Nat, NEW d, NEW e, \A i \in 1..N : d[i] \in Nat /\ d[i] = e[i]
  PROVE  Total(d, N) = Total(e, N)
<1>1. PICK f \in [0..N -> Nat] : SumEqn(d, f, N)
  BY SumExists
<1>2. SumEqn(e, f, N)
  <2>1. ASSUME NEW i \in 0..N PROVE f[i] = IF i = 0 THEN 0 ELSE f[i - 1] + e[i]
    <3>1. i # 0 => i \in 1..N
      OBVIOUS
    <3> QED
      BY <1>1, <3>1 DEF SumEqn
  <2> QED
    BY <1>1, <2>1 DEF SumEqn
<1> QED
  BY <1>1, <1>2, TotalOf

Weights(b) == [i \in 1..HashBlock |-> b[i] * Base^(i - 1)]
Num(b) == NumberOf(b, HashBlock, Base)

\* The value of digit i.
LEMMA WeightIs ==
  ASSUME NEW b, \A i \in 1..HashBlock : b[i] \in Digit, NEW i \in 1..HashBlock
  PROVE  \E P \in Nat \ {0} : /\ P = Base^(i - 1) /\ Base^i = Base * P
                              /\ Weights(b)[i] = b[i] * P /\ Weights(b)[i] \in Nat
<1>1. i - 1 \in 0..HashBlock /\ (i - 1) + 1 = i
  BY Params
<1>2. PICK P \in Nat \ {0} : P = Base^(i - 1) /\ Base^i = Base * P
  BY <1>1, PowerAssumption
<1>3. b[i] \in Nat
  BY DEF Digit
<1>4. b[i] * P \in Nat
  BY <1>3
<1> QED
  BY <1>2, <1>4 DEF Weights

\* The digits up to i make a number below Base^i.
LEMMA DigitsBelow ==
  ASSUME NEW b, \A i \in 1..HashBlock : b[i] \in Digit
  PROVE  \A i \in 0..HashBlock : Total(Weights(b), i) \in Nat /\ Total(Weights(b), i) < Base^i
<1> DEFINE good == {i \in 0..HashBlock : Total(Weights(b), i) \in Nat /\ Total(Weights(b), i) < Base^i}
<1>0. HashBlock \in Nat /\ \A i \in 1..HashBlock : Weights(b)[i] \in Nat
  BY Params, WeightIs
<1>1. 0 \in good
  <2>1. Total(Weights(b), 0) = 0 /\ Base^0 \in Nat \ {0}
    BY <1>0, TotalIs, PowerAssumption
  <2> QED
    BY <1>0, <2>1
<1>2. ASSUME NEW i \in 0..(HashBlock - 1), i \in good PROVE i + 1 \in good
  <2>1. PICK j \in 1..HashBlock : j = i + 1 /\ j - 1 = i /\ j \in Nat /\ j # 0
    BY <1>0
  <2>2. PICK P \in Nat \ {0} : /\ P = Base^i /\ Base^j = Base * P /\ Weights(b)[j] = b[j] * P
                               /\ Weights(b)[j] \in Nat
    BY <2>1, WeightIs
  <2>3. PICK t \in Nat : t = Total(Weights(b), i) /\ t < P
    BY <1>2, <2>2
  <2>4. Total(Weights(b), j) = t + b[j] * P
    <3>1. \A g \in 1..j : Weights(b)[g] \in Nat
      BY <1>0, <2>1
    <3>2. Total(Weights(b), j) = Total(Weights(b), j - 1) + Weights(b)[j]
      BY <2>1, <3>1, TotalIs
    <3> QED
      BY <2>1, <2>2, <2>3, <3>2
  <2>5. PICK v \in Nat : v = b[j] /\ v <= Base - 1
    BY Params, <2>1 DEF Digit
  <2>6. t + v * P \in Nat /\ t + v * P < Base * P
    <3>1. v * P <= (Base - 1) * P /\ (Base - 1) * P = Base * P - P /\ v * P \in Nat
      BY Params, <2>5
    <3> QED
      BY Params, <2>3, <3>1
  <2> QED
    BY <2>1, <2>2, <2>4, <2>5, <2>6
<1>3. 0..HashBlock \subseteq good
  <2> HIDE DEF good
  <2> QED
    BY <1>0, <1>1, <1>2, InductionUpTo
<1> QED
  BY <1>3

\* A block is a number.
LEMMA NumType ==
  ASSUME NEW b, \A i \in 1..HashBlock : b[i] \in Digit
  PROVE  Num(b) \in Nat
<1>1. HashBlock \in 0..HashBlock
  BY Params
<1>2. Num(b) = Total(Weights(b), HashBlock)
  BY DEF Num, NumberOf, Weights
<1> QED
  BY <1>1, <1>2, DigitsBelow

\* The number depends on the digits only.
LEMMA NumSame ==
  ASSUME NEW b, NEW c, \A i \in 1..HashBlock : b[i] = c[i]
  PROVE  Num(b) = Num(c)
<1>1. Weights(b) = Weights(c)
  BY DEF Weights
<1> QED
  BY <1>1 DEF Num, NumberOf, Weights

\* No two blocks are the same number.
LEMMA NumInjective ==
  ASSUME NEW b, NEW c, \A i \in 1..HashBlock : b[i] \in Digit, \A i \in 1..HashBlock : c[i] \in Digit,
         Num(b) = Num(c)
  PROVE  \A i \in 1..HashBlock : b[i] = c[i]
<1> DEFINE same(i) == Total(Weights(b), i) = Total(Weights(c), i)
           good == {i \in 0..HashBlock : same(i) => \A j \in 1..i : b[j] = c[j]}
<1>0. /\ HashBlock \in Nat /\ \A i \in 1..HashBlock : Weights(b)[i] \in Nat
      /\ \A i \in 1..HashBlock : Weights(c)[i] \in Nat
  BY Params, WeightIs
<1>1. 0 \in good
  BY <1>0
<1>2. ASSUME NEW i \in 0..(HashBlock - 1), i \in good PROVE i + 1 \in good
  <2>1. PICK j \in 1..HashBlock : j = i + 1 /\ j - 1 = i /\ j \in Nat /\ j # 0
    BY <1>0
  <2>2. PICK P \in Nat \ {0} : P = Base^i /\ Weights(b)[j] = b[j] * P
    BY <2>1, WeightIs
  <2>3. Weights(c)[j] = c[j] * P
    BY <2>1, <2>2, WeightIs
  <2>4. i \in 0..HashBlock
    BY <1>0
  <2>5. PICK t \in Nat : t = Total(Weights(b), i) /\ t < P
    BY <2>2, <2>4, DigitsBelow
  <2>6. PICK u \in Nat : u = Total(Weights(c), i) /\ u < P
    BY <2>2, <2>4, DigitsBelow
  <2>7. Total(Weights(b), j) = t + b[j] * P /\ Total(Weights(c), j) = u + c[j] * P
    <3>1. \A g \in 1..j : Weights(b)[g] \in Nat /\ Weights(c)[g] \in Nat
      BY <1>0, <2>1
    <3>2. Total(Weights(b), j) = Total(Weights(b), j - 1) + Weights(b)[j]
      BY <2>1, <3>1, TotalIs
    <3>3. Total(Weights(c), j) = Total(Weights(c), j - 1) + Weights(c)[j]
      BY <2>1, <3>1, TotalIs
    <3> QED
      BY <2>1, <2>2, <2>3, <2>5, <2>6, <3>2, <3>3
  <2>8. ASSUME same(j) PROVE \A g \in 1..j : b[g] = c[g]
    <3>1. PICK v \in Nat, w \in Nat : v = b[j] /\ w = c[j]
      BY <2>1 DEF Digit
    <3>2. t \in 0..(P - 1) /\ u \in 0..(P - 1)
      BY <2>5, <2>6
    <3>3. v * P + t = w * P + u
      <4>1. t + v * P = u + w * P /\ v * P \in Nat /\ w * P \in Nat
        BY <2>7, <2>8, <3>1
      <4> QED
        BY <4>1
    <3>4. v = w /\ t = u
      BY <3>2, <3>3, DivModUnique
    <3>5. \A g \in 1..i : b[g] = c[g]
      BY <1>2, <2>5, <2>6, <3>4
    <3>6. ASSUME NEW g \in 1..j PROVE b[g] = c[g]
      <4>1. g \in 1..i \/ g = j
        BY <2>1
      <4> QED
        BY <3>1, <3>4, <3>5, <4>1
    <3> QED
      BY <3>6
  <2>9. i + 1 \in 0..HashBlock
    BY <1>0
  <2> QED
    BY <2>1, <2>8, <2>9
<1>3. 0..HashBlock \subseteq good
  <2> HIDE DEF good
  <2> QED
    BY <1>0, <1>1, <1>2, InductionUpTo
<1>4. same(HashBlock)
  BY DEF Num, NumberOf, Weights
<1>5. HashBlock \in 0..HashBlock
  BY <1>0
<1>6. HashBlock \in good
  BY <1>3, <1>5
<1> QED
  BY <1>4, <1>6

-----------------------------------------------------------------------------
(* OMAC *)

\* Inv of Omac, in the terms of this module.
OmacI ==
  /\ msg \in Seq(Digit) /\ p \in Seq(Digit) /\ buf \in Seq(Digit) /\ h \in Seq(Seq(Digit))
  /\ stage \in {"idle", "busy"}
  /\ Cut(msg, Len(h) * OmacBlock, buf, Len(buf), p)
  /\ \A i \in 1..Len(h) : h[i] = Block(msg, OmacBlock, i)
  /\ Len(buf) <= OmacBlock /\ (Len(h) > 0 => Len(buf) + Len(p) > 0)
  /\ stage = "idle" => p = <<>>

LEMMA OmacInvIs == (OMAC!Inv <=> OmacI) /\ (OMAC!Inv' <=> OmacI')
  BY DEF OMAC!Inv, OMAC!TypeOK, OMAC!Cut, OMAC!Block, OmacI, Cut, Block, Digit

\* Bounded messages are sequences.
LEMMA MessagesAre ==
  ASSUME NEW S, NEW k \in Nat, NEW d \in MessagesUpTo(S, k)
  PROVE  d \in Seq(S)
<1>1. PICK t \in 0..k : d \in [1..t -> S]
  BY DEF MessagesUpTo
<1> QED
  BY <1>1, FcnSeq

\* Nothing written, nothing chained.
LEMMA OmacEmpty ==
  ASSUME msg = <<>>, p = <<>>, buf = <<>>, h = <<>>, stage = "idle"
  PROVE  OmacI
<1>1. /\ <<>> \in Seq(Digit) /\ <<>> \in Seq(Seq(Digit)) /\ Len(<<>>) = 0
  BY EmptySeq
<1>2. Cut(<<>>, 0 * OmacBlock, <<>>, 0, <<>>)
  BY <1>1, Params DEF Cut
<1> QED
  BY <1>1, <1>2, Params DEF OmacI

\* Types of what Write and its loop use.
LEMMA OmacNumbers ==
  ASSUME OmacI
  PROVE  \E k \in Nat, x \in Nat, l \in Nat, z \in Nat :
           /\ k = Len(h) /\ x = k * OmacBlock /\ l = Len(buf) /\ z = Len(p)
           /\ l <= OmacBlock /\ Len(msg) = x + l + z /\ Cut(msg, x, buf, l, p)
<1>1. Len(h) \in Nat /\ Len(buf) \in Nat /\ Len(p) \in Nat
  BY LenProperties DEF OmacI
<1>2. Len(h) * OmacBlock \in Nat
  BY <1>1, Params
<1>3. Len(buf) <= OmacBlock /\ Cut(msg, Len(h) * OmacBlock, buf, Len(buf), p)
  BY DEF OmacI
<1>4. Len(msg) = Len(h) * OmacBlock + Len(buf) + Len(p)
  BY <1>3 DEF Cut
<1> QED
  BY <1>1, <1>2, <1>3, <1>4

\* Write (omac.go:144-150).
LEMMA OmacWrite ==
  ASSUME OmacI, NEW d \in Seq(Digit), OMAC!Write(d)
  PROVE  OmacI'
<1>1. stage = "idle" /\ stage' = "busy" /\ p' = d /\ msg' = msg \o d /\ h' = h /\ buf' = buf /\ p = <<>>
  BY DEF OMAC!Write, OmacI
<1>2. PICK k \in Nat, x \in Nat, l \in Nat :
        k = Len(h) /\ x = k * OmacBlock /\ l = Len(buf) /\ Cut(msg, x, buf, l, <<>>) /\ x <= Len(msg)
  <2>1. PICK k \in Nat, x \in Nat, l \in Nat, z \in Nat :
          /\ k = Len(h) /\ x = k * OmacBlock /\ l = Len(buf) /\ z = Len(p)
          /\ l <= OmacBlock /\ Len(msg) = x + l + z /\ Cut(msg, x, buf, l, p)
    BY OmacNumbers
  <2> QED
    BY <1>1, <2>1
<1>3. msg \in Seq(Digit) /\ msg' \in Seq(Digit)
  BY <1>1, Joined DEF OmacI
<1>4. Cut(msg', x, buf, l, d)
  BY <1>1, <1>2, <1>3, CutWrite
<1>5. ASSUME NEW i \in 1..k PROVE h[i] = Block(msg', OmacBlock, i)
  <2>1. Block(msg \o d, OmacBlock, i) = Block(msg, OmacBlock, i)
    <3>1. At(x, k, OmacBlock) /\ x <= Len(msg) /\ OmacBlock \in Nat \ {0}
      BY <1>2, Params DEF At
    <3> QED
      BY <1>3, <3>1, BlockStable
  <2> QED
    BY <1>1, <1>2, <2>1 DEF OmacI
<1>6. l <= OmacBlock /\ (k > 0 => l > 0)
  <2>1. Len(buf) <= OmacBlock /\ (Len(h) > 0 => Len(buf) + Len(p) > 0) /\ Len(p) = 0
    BY <1>1 DEF OmacI
  <2> QED
    BY <1>2, <2>1
<1>7. Len(d) \in Nat
  BY LenProperties
<1>8. k > 0 => l + Len(d) > 0
  BY <1>6, <1>7
<1> QED
  BY <1>1, <1>2, <1>3, <1>4, <1>5, <1>6, <1>8 DEF OmacI

\* One turn of the loop (omac.go:151-173).
LEMMA OmacWriteLoop ==
  ASSUME OmacI, OMAC!WriteLoop
  PROVE  OmacI'
<1>1. PICK k \in Nat, x \in Nat, l \in Nat, z \in Nat :
        /\ k = Len(h) /\ x = k * OmacBlock /\ l = Len(buf) /\ z = Len(p)
        /\ l <= OmacBlock /\ Len(msg) = x + l + z /\ Cut(msg, x, buf, l, p)
  BY OmacNumbers
<1>2. PICK B \in Nat \ {0} : B = OmacBlock
  BY Params
<1>3. /\ msg \in Seq(Digit) /\ p \in Seq(Digit) /\ buf \in Seq(Digit) /\ h \in Seq(Seq(Digit))
      /\ \A i \in 1..k : h[i] = Block(msg, B, i)
  BY <1>1, <1>2 DEF OmacI
<1>4. PICK t \in Nat : t = OMAC!Lesser(B - l, z) /\ t <= z /\ l + t <= B /\ (l + t = B \/ t = z)
  <2>1. PICK g \in Nat : g = B - l /\ l + g = B
    <3>1. B - l \in Nat /\ l + (B - l) = B
      BY <1>1, <1>2
    <3> QED
      BY <3>1
  <2>2. CASE g <= z
    <3>1. OMAC!Lesser(g, z) = g
      BY <2>2 DEF OMAC!Lesser
    <3> QED
      BY <2>1, <2>2, <3>1
  <2>3. CASE ~(g <= z)
    <3>1. OMAC!Lesser(g, z) = z
      BY <2>3 DEF OMAC!Lesser
    <3>2. z <= z /\ l + z <= B
      BY <2>1, <2>3
    <3> QED
      BY <2>1, <3>1, <3>2
  <2> QED
    BY <2>2, <2>3
<1>5. PICK first, rest, filled :
        first = SubSeq(p, 1, t) /\ rest = SubSeq(p, t + 1, z) /\ filled = buf \o first
  OBVIOUS
<1>6. /\ first \in Seq(Digit) /\ Len(first) = t /\ \A i \in 1..t : first[i] = p[i]
      /\ rest \in Seq(Digit) /\ Len(rest) = z - t
  <2>1. t \in 0..Len(p)
    BY <1>1, <1>4
  <2>2. first \in Seq(Digit) /\ Len(first) = t /\ \A i \in 1..t : first[i] = p[i]
    BY <1>3, <1>5, <2>1, Prefix
  <2>3. rest = SubSeq(p, t + 1, Len(p))
    BY <1>1, <1>5
  <2>4. rest \in Seq(Digit) /\ Len(rest) = Len(p) - t
    BY <1>3, <2>1, <2>3, Suffix
  <2> QED
    BY <1>1, <2>2, <2>4
<1>7. /\ filled \in Seq(Digit) /\ Len(filled) = l + t
      /\ \A i \in 1..l : filled[i] = buf[i]
      /\ \A i \in 1..t : filled[l + i] = p[i]
  <2>1. PICK b, f \in Seq(Digit) : b = buf /\ f = first
    BY <1>3, <1>6
  <2>2. /\ b \o f \in Seq(Digit) /\ Len(b \o f) = Len(b) + Len(f)
        /\ \A i \in 1..Len(b) : (b \o f)[i] = b[i]
        /\ \A i \in 1..Len(f) : (b \o f)[Len(b) + i] = f[i]
    BY Joined
  <2>3. Len(b) = l /\ Len(f) = t /\ filled = b \o f
    BY <1>1, <1>5, <1>6, <2>1
  <2> QED
    BY <1>6, <2>1, <2>2, <2>3
<1>8. Cut(msg, x, filled, l + t, rest)
  <2>1. t \in 0..Len(p) /\ rest = SubSeq(p, t + 1, Len(p))
    BY <1>1, <1>4, <1>5
  <2> QED
    BY <1>1, <1>3, <1>7, <2>1, CutMove
<1>9. /\ stage' = stage /\ msg' = msg /\ stage = "busy" /\ p' = rest
      /\ h' = IF Len(filled) = B /\ Len(rest) > 0 THEN Append(h, filled) ELSE h
      /\ buf' = IF Len(filled) = B /\ Len(rest) > 0 THEN <<>> ELSE filled
  BY <1>1, <1>2, <1>4, <1>5 DEF OMAC!WriteLoop
<1>10. CASE Len(filled) = B /\ Len(rest) > 0
  <2>1. h' = Append(h, filled) /\ buf' = <<>>
    BY <1>9, <1>10
  <2>2. Cut(msg, k * B, filled, B, rest)
    BY <1>1, <1>2, <1>7, <1>8, <1>10
  <2>3. Cut(msg, (k + 1) * B, <<>>, 0, rest)
    BY <1>3, <1>6, <2>2, CutBlock
  <2>4. (k + 1) * B <= Len(msg) /\ \A i \in 1..B : Block(msg, B, k + 1)[i] = filled[i]
    <3>1. PICK m, r \in Seq(Digit) : m = msg /\ r = rest /\ Cut(m, k * B, filled, B, r)
      BY <1>3, <1>6, <2>2
    <3>2. (k + 1) * B <= Len(m) /\ \A i \in 1..B : Block(m, B, k + 1)[i] = filled[i]
      BY <3>1, CutBlock
    <3> QED
      BY <3>1, <3>2
  <2>5. Block(msg, B, k + 1) = filled
    <3>1. /\ k + 1 \in Nat \ {0} /\ x = ((k + 1) - 1) * B /\ x + B = (k + 1) * B
      BY <1>1, <1>2
    <3>2. x + B <= Len(msg)
      BY <2>4, <3>1
    <3>3. Block(msg, B, k + 1) \in Seq(Digit) /\ Len(Block(msg, B, k + 1)) = B
      BY <1>3, <3>1, <3>2, BlockIs
    <3> QED
      BY <1>7, <1>10, <2>4, <3>3, SeqEqual
  <2>6. /\ h' \in Seq(Seq(Digit)) /\ Len(h') = k + 1
        /\ \A i \in 1..k : h'[i] = h[i]
        /\ h'[k + 1] = filled
    BY <1>1, <1>3, <1>7, <2>1, AppendProperties
  <2>7. ASSUME NEW i \in 1..(k + 1) PROVE h'[i] = Block(msg', B, i)
    <3>1. i \in 1..k \/ i = k + 1
      OBVIOUS
    <3> QED
      BY <1>3, <1>9, <2>5, <2>6, <3>1
  <2>8. <<>> \in Seq(Digit) /\ Len(<<>>) = 0
    BY EmptySeq
  <2>9. Cut(msg', Len(h') * OmacBlock, buf', Len(buf'), p')
    BY <1>2, <1>9, <2>1, <2>3, <2>6, <2>8
  <2>10. Len(buf') <= OmacBlock /\ Len(buf') + Len(p') > 0
    BY <1>2, <1>9, <1>10, <2>1, <2>8
  <2>11. \A i \in 1..Len(h') : h'[i] = Block(msg', OmacBlock, i)
    BY <1>2, <2>6, <2>7
  <2> QED
    BY <1>3, <1>6, <1>9, <2>1, <2>6, <2>8, <2>9, <2>10, <2>11 DEF OmacI
<1>11. CASE ~(Len(filled) = B /\ Len(rest) > 0)
  <2>1. h' = h /\ buf' = filled
    BY <1>9, <1>11
  <2>2. Cut(msg', Len(h') * OmacBlock, buf', Len(buf'), p')
    BY <1>1, <1>2, <1>7, <1>8, <1>9, <2>1
  <2>3. Len(buf') <= OmacBlock /\ Len(buf') + Len(p') = l + z
    <3>1. Len(buf') = l + t /\ Len(p') = z - t
      BY <1>6, <1>7, <1>9, <2>1
    <3> QED
      BY <1>2, <1>4, <3>1
  <2>4. Len(h') > 0 => Len(buf') + Len(p') > 0
    BY <1>1, <2>1, <2>3 DEF OmacI
  <2>5. \A i \in 1..Len(h') : h'[i] = Block(msg', OmacBlock, i)
    BY <1>9, <2>1 DEF OmacI
  <2> QED
    BY <1>3, <1>6, <1>7, <1>9, <2>1, <2>2, <2>3, <2>4, <2>5 DEF OmacI
<1> QED
  BY <1>10, <1>11

\* Every step of OMAC.
LEMMA OmacNext ==
  ASSUME OmacI, OMAC!Next
  PROVE  OmacI'
<1>1. CASE \E d \in OMAC!MessagesUpTo(0..(Base - 1), MaxMsg) : OMAC!Write(d)
  <2>1. PICK d \in MessagesUpTo(Digit, MaxMsg) : OMAC!Write(d)
    BY <1>1 DEF OMAC!MessagesUpTo, MessagesUpTo, Digit
  <2>2. d \in Seq(Digit)
    BY DigestsAssumption, MessagesAre
  <2> QED
    BY <2>1, <2>2, OmacWrite
<1>2. CASE OMAC!WriteLoop
  BY <1>2, OmacWriteLoop
<1>3. CASE OMAC!WriteReturn
  <2>1. p = <<>> /\ stage' = "idle" /\ UNCHANGED <<h, buf, p, msg>>
    <3>1. p \in Seq(Digit) /\ Len(p) = 0
      BY <1>3 DEF OMAC!WriteReturn, OmacI
    <3> QED
      BY <1>3, <3>1, EmptySeq DEF OMAC!WriteReturn
  <2> QED
    BY <2>1 DEF OmacI, Cut
<1>4. CASE OMAC!Sum
  BY <1>4 DEF OMAC!Sum, OmacI, Cut
<1>5. CASE OMAC!Reset
  <2>1. msg' = <<>> /\ p' = <<>> /\ buf' = <<>> /\ h' = <<>> /\ stage' = "idle"
    BY <1>5 DEF OMAC!Reset, OmacI
  <2>2. /\ <<>> \in Seq(Digit) /\ <<>> \in Seq(Seq(Digit)) /\ Len(<<>>) = 0
    BY EmptySeq
  <2>3. Cut(<<>>, 0 * OmacBlock, <<>>, 0, <<>>)
    BY <2>2, Params DEF Cut
  <2> QED
    BY <2>1, <2>2, <2>3, Params DEF OmacI
<1> QED
  BY <1>1, <1>2, <1>3, <1>4, <1>5 DEF OMAC!Next

-----------------------------------------------------------------------------
(* The end of a message *)

\* What follows the first k blocks.
LEMMA TailIs ==
  ASSUME NEW S, NEW m \in Seq(S), NEW B \in Nat \ {0}, NEW k \in Nat, NEW x \in Nat, At(x, k, B),
         NEW l \in Nat, Len(m) = x + l
  PROVE  /\ TailOf(m, B, k) \in Seq(S) /\ Len(TailOf(m, B, k)) = l
         /\ Reads(TailOf(m, B, k), l, m, x)
<1>1. x \in 0..Len(m) /\ Len(m) - x = l
  OBVIOUS
<1>2. TailOf(m, B, k) = SubSeq(m, x + 1, Len(m))
  BY DEF TailOf, At
<1>3. PICK u : u = SubSeq(m, x + 1, Len(m))
  OBVIOUS
<1>4. u \in Seq(S) /\ Len(u) = Len(m) - x /\ \A i \in 1..(Len(m) - x) : u[i] = m[x + i]
  BY <1>1, <1>3, Suffix
<1> QED
  BY <1>1, <1>2, <1>3, <1>4 DEF Reads

\* The same l bytes from x on, and the same first k blocks.
SameFrom(m, w, x, l) == \A i \in 1..l : m[x + i] = w[x + i]
SameBlocks(m, w, B, k) == \A j \in 1..k : \A i \in 1..B : Block(m, B, j)[i] = Block(w, B, j)[i]

\* The tail with the marker byte 1 behind it, filled up with zeros.
Marked(m, B, k) == PadTo(TailOf(m, B, k) \o <<1>>, B, 0)
MarkedByte(m, x, l, i) == IF i <= l THEN m[x + i] ELSE IF i = l + 1 THEN 1 ELSE 0
IsMarked(f, B, m, x, l) == f = [i \in 1..B |-> MarkedByte(m, x, l, i)]

LEMMA MarkedIs ==
  ASSUME NEW m \in Seq(Digit), NEW B \in Nat \ {0}, NEW k \in Nat, NEW x \in Nat, At(x, k, B),
         NEW l \in 0..(B - 1), Len(m) = x + l
  PROVE  IsMarked(Marked(m, B, k), B, m, x, l) /\ Marked(m, B, k) \in [1..B -> Digit]
<1>1. PICK t \in Seq(Digit) : t = TailOf(m, B, k) /\ Len(t) = l /\ \A i \in 1..l : t[i] = m[x + i]
  <2>1. PICK t \in Seq(Digit) : t = TailOf(m, B, k) /\ Len(t) = l /\ Reads(t, l, m, x)
    BY TailIs
  <2> QED
    BY <2>1 DEF Reads
<1>2. 1 \in Digit /\ 0 \in Digit /\ <<1>> \in Seq(Digit) /\ Len(<<1>>) = 1 /\ <<1>>[1] = 1
  BY Params DEF Digit
<1>3. PICK o \in Seq(Digit) : o = <<1>>
  BY <1>2
<1>4. PICK u : u = t \o o
  OBVIOUS
<1>5. /\ Len(u) = l + 1 /\ \A i \in 1..l : u[i] = t[i]
      /\ u[l + 1] = 1
  <2>1. /\ Len(u) = Len(t) + Len(o) /\ \A i \in 1..Len(t) : u[i] = t[i]
        /\ \A i \in 1..Len(o) : u[Len(t) + i] = o[i]
    BY <1>4, Joined
  <2>2. Len(o) = 1 /\ o[1] = 1 /\ 1 \in 1..1
    BY <1>2, <1>3
  <2> QED
    BY <1>1, <2>1, <2>2
<1>6. Marked(m, B, k) = [i \in 1..B |-> IF i <= l + 1 THEN u[i] ELSE 0]
  BY <1>1, <1>3, <1>4, <1>5 DEF Marked, PadTo
<1>7. ASSUME NEW i \in 1..B
      PROVE  /\ (IF i <= l + 1 THEN u[i] ELSE 0) = MarkedByte(m, x, l, i)
             /\ MarkedByte(m, x, l, i) \in Digit
  <2>1. CASE i <= l
    <3>1. i \in 1..l /\ i <= l + 1 /\ x + i \in 1..Len(m)
      BY <2>1
    <3>2. u[i] = m[x + i] /\ m[x + i] \in Digit
      BY <1>1, <1>5, <3>1, ElementOfSeq
    <3> QED
      BY <2>1, <3>1, <3>2 DEF MarkedByte
  <2>2. CASE i = l + 1
    <3>1. ~(i <= l) /\ i <= l + 1
      BY <2>2
    <3> QED
      BY <1>2, <1>5, <2>2, <3>1 DEF MarkedByte
  <2>3. CASE ~(i <= l) /\ i # l + 1
    <3>1. ~(i <= l + 1)
      BY <2>3
    <3> QED
      BY <1>2, <2>3, <3>1 DEF MarkedByte
  <2> QED
    BY <2>1, <2>2, <2>3
<1>8. Marked(m, B, k) = [i \in 1..B |-> MarkedByte(m, x, l, i)]
  BY <1>6, <1>7
<1> QED
  BY <1>7, <1>8 DEF IsMarked

\* The marker shows where the tail ends: equal padded tails are equal tails.
LEMMA MarkedInjective ==
  ASSUME NEW B \in Nat \ {0}, NEW m, NEW w, NEW x \in Nat,
         NEW l \in 0..(B - 1), NEW g \in 0..(B - 1), NEW f, NEW e,
         IsMarked(f, B, m, x, l), IsMarked(e, B, w, x, g), \A i \in 1..B : f[i] = e[i]
  PROVE  l = g /\ SameFrom(m, w, x, l)
<1>0. \A i \in 1..B : MarkedByte(m, x, l, i) = MarkedByte(w, x, g, i)
  BY DEF IsMarked
<1>1. ASSUME l < g PROVE FALSE
  <2>1. g + 1 \in 1..B /\ ~(g + 1 <= l) /\ g + 1 # l + 1 /\ ~(g + 1 <= g)
    BY <1>1
  <2>2. MarkedByte(m, x, l, g + 1) = 0 /\ MarkedByte(w, x, g, g + 1) = 1
    BY <2>1 DEF MarkedByte
  <2> QED
    BY <1>0, <2>1, <2>2
<1>2. ASSUME g < l PROVE FALSE
  <2>1. l + 1 \in 1..B /\ ~(l + 1 <= g) /\ l + 1 # g + 1 /\ ~(l + 1 <= l)
    BY <1>2
  <2>2. MarkedByte(m, x, l, l + 1) = 1 /\ MarkedByte(w, x, g, l + 1) = 0
    BY <2>1 DEF MarkedByte
  <2> QED
    BY <1>0, <2>1, <2>2
<1>3. l = g
  BY <1>1, <1>2
<1>4. ASSUME NEW i \in 1..l PROVE m[x + i] = w[x + i]
  <2>1. i \in 1..B /\ i <= l
    OBVIOUS
  <2> QED
    BY <1>0, <1>3, <2>1 DEF MarkedByte
<1> QED
  BY <1>3, <1>4 DEF SameFrom

\* A message is its blocks and its tail.
LEMMA SameMessage ==
  ASSUME NEW S, NEW m \in Seq(S), NEW w \in Seq(S), NEW B \in Nat \ {0}, NEW k \in Nat,
         NEW x \in Nat, At(x, k, B), NEW l \in Nat, Len(m) = x + l, Len(w) = x + l,
         SameBlocks(m, w, B, k), SameFrom(m, w, x, l)
  PROVE  m = w
<1>1. ASSUME NEW i \in 1..Len(m) PROVE m[i] = w[i]
  <2>1. CASE i <= x
    <3>1. PICK q \in Nat, r \in 0..(B - 1) : i - 1 = q * B + r
      <4>1. i - 1 \in Nat
        OBVIOUS
      <4> QED
        BY <4>1, DivModNames
    <3>2. PICK y \in Nat : y = q * B /\ i = y + (r + 1)
      BY <3>1
    <3>3. q < k
      <4>1. ASSUME k <= q PROVE FALSE
        <5>1. PICK d \in Nat : q = k + d
          <6>1. q - k \in Nat /\ q = k + (q - k)
            BY <4>1
          <6> QED
            BY <6>1
        <5>2. q * B = k * B + d * B /\ d * B >= 0
          BY <5>1
        <5> QED
          BY <2>1, <3>2, <5>2 DEF At
      <4> QED
        BY <4>1
    <3>4. PICK j \in 1..k : j - 1 = q /\ j \in Nat \ {0}
      <4>1. q + 1 \in 1..k /\ (q + 1) - 1 = q
        BY <3>3
      <4> QED
        BY <4>1
    <3>5. y + B <= Len(m) /\ y + B <= Len(w) /\ At(y, j - 1, B)
      <4>1. PICK v \in Nat : v = (j - 1) * B /\ v + B <= k * B
        BY BlockStart
      <4>2. (j - 1) * B = y
        BY <3>2, <3>4
      <4> QED
        BY <4>1, <4>2 DEF At
    <3>6. PICK fm \in [1..B -> S] : fm = Block(m, B, j) /\ Reads(fm, B, m, y)
      BY <3>4, <3>5, BlockReads
    <3>7. PICK fw \in [1..B -> S] : fw = Block(w, B, j) /\ Reads(fw, B, w, y)
      BY <3>4, <3>5, BlockReads
    <3>8. r + 1 \in 1..B
      OBVIOUS
    <3> QED
      BY <3>2, <3>6, <3>7, <3>8 DEF Reads, SameBlocks
  <2>2. CASE ~(i <= x)
    <3>1. PICK g \in 1..l : i = x + g
      <4>1. i - x \in 1..l /\ i = x + (i - x)
        BY <2>2
      <4> QED
        BY <4>1
    <3> QED
      BY <3>1 DEF SameFrom
  <2> QED
    BY <2>1, <2>2
<1> QED
  BY <1>1, SeqEqual

-----------------------------------------------------------------------------
(* The CMAC of a message *)

\* m is k chained blocks and a last one of l bytes, empty for the empty message only.
OmacParts(m, k, x, l) ==
  At(x, k, OmacBlock) /\ l <= OmacBlock /\ (k > 0 => l > 0) /\ Len(m) = x + l

OmacVal(m, k, l) ==
  <<BlocksOf(m, OmacBlock, k),
    IF l = OmacBlock THEN TailOf(m, OmacBlock, k) ELSE Marked(m, OmacBlock, k),
    IF l = OmacBlock THEN "k1" ELSE "k2">>

LEMMA OmacOfIs ==
  ASSUME NEW m \in Seq(Digit), NEW k \in Nat, NEW x \in Nat, NEW l \in Nat, OmacParts(m, k, x, l)
  PROVE  OMAC!OmacOf(m) = OmacVal(m, k, l)
<1> DEFINE kk == IF Len(m) = 0 THEN 0 ELSE (Len(m) - 1) \div OmacBlock
           full == Len(m) > 0 /\ Len(m) % OmacBlock = 0
<1>1. PICK B \in Nat \ {0} : B = OmacBlock
  BY Params
<1>2. PICK z \in Nat : z = Len(m) /\ z = x + l /\ l <= B /\ (k > 0 => l > 0) /\ x = k * B
  BY <1>1 DEF OmacParts, At
<1>3. CASE z = 0
  <2>1. k = 0 /\ l = 0 /\ l # B
    BY <1>2, <1>3
  <2>2. kk = k /\ full = (l = B)
    BY <1>1, <1>2, <1>3, <2>1
  <2> QED
    BY <1>1, <2>2 DEF OMAC!OmacOf, OmacVal, OMAC!BlocksOf, OMAC!TailOf, OMAC!PadTo, OMAC!Block,
                      BlocksOf, TailOf, PadTo, Block, Marked
<1>4. CASE z # 0
  <2>1. l > 0
    <3>1. k = 0 => x = 0
      BY <1>2
    <3> QED
      BY <1>2, <1>4, <3>1
  <2>2. (z - 1) \div B = k
    <3>1. PICK a \in Nat, r \in 0..(B - 1) : a = z - 1 /\ r = l - 1 /\ a = k * B + r
      <4>1. z - 1 \in Nat /\ l - 1 \in 0..(B - 1) /\ z - 1 = k * B + (l - 1)
        BY <1>2, <1>4, <2>1
      <4> QED
        BY <4>1
    <3>2. (k * B + r) \div B = k
      BY DivModOf
    <3> QED
      BY <3>1, <3>2
  <2>3. (z % B = 0) = (l = B)
    <3>1. CASE l = B
      <4>1. z = (k + 1) * B + 0 /\ k + 1 \in Nat /\ 0 \in 0..(B - 1)
        BY <1>2, <3>1
      <4>2. z % B = 0
        BY <4>1, DivModIs
      <4> QED
        BY <3>1, <4>2
    <3>2. CASE l # B
      <4>1. l \in 0..(B - 1) /\ z = k * B + l
        BY <1>2, <3>2
      <4>2. (k * B + l) % B = l
        BY <4>1, DivModOf
      <4> QED
        BY <2>1, <3>2, <4>1, <4>2
    <3> QED
      BY <3>1, <3>2
  <2>4. kk = k /\ full = (l = B)
    <3>1. z > 0
      BY <1>4
    <3> QED
      BY <1>1, <1>2, <1>4, <2>2, <2>3, <3>1
  <2> QED
    BY <1>1, <2>4 DEF OMAC!OmacOf, OmacVal, OMAC!BlocksOf, OMAC!TailOf, OMAC!PadTo, OMAC!Block,
                      BlocksOf, TailOf, PadTo, Block, Marked
<1> QED
  BY <1>3, <1>4

LEMMA OmacPartsExist ==
  ASSUME NEW m \in Seq(Digit)
  PROVE  \E k \in Nat, x \in Nat, l \in Nat : OmacParts(m, k, x, l)
<1>1. PICK B \in Nat \ {0} : B = OmacBlock
  BY Params
<1>2. PICK z \in Nat : z = Len(m)
  BY LenProperties
<1>3. CASE z = 0
  <2>1. At(0, 0, OmacBlock) /\ OmacParts(m, 0, 0, 0)
    BY <1>1, <1>2, <1>3 DEF OmacParts, At
  <2> QED
    BY <2>1
<1>4. CASE z # 0
  <2>1. z - 1 \in Nat
    BY <1>4
  <2>2. PICK k \in Nat, r \in 0..(B - 1) : z - 1 = k * B + r
    BY <2>1, DivModNames
  <2>3. PICK x \in Nat : x = k * B /\ z = x + (r + 1)
    BY <2>2
  <2>4. r + 1 \in Nat /\ r + 1 <= B /\ r + 1 > 0
    OBVIOUS
  <2>5. OmacParts(m, k, x, r + 1)
    BY <1>1, <1>2, <2>3, <2>4 DEF OmacParts, At
  <2> QED
    BY <2>4, <2>5
<1> QED
  BY <1>3, <1>4

\* The chain, the last block and the subkey determine the message.
LEMMA OmacInjective ==
  ASSUME NEW m \in Seq(Digit), NEW w \in Seq(Digit), OMAC!OmacOf(m) = OMAC!OmacOf(w)
  PROVE  m = w
<1>1. PICK B \in Nat \ {0} : B = OmacBlock
  BY Params
<1>2. PICK k \in Nat, x \in Nat, l \in Nat : OmacParts(m, k, x, l)
  BY OmacPartsExist
<1>3. PICK q \in Nat, y \in Nat, g \in Nat : OmacParts(w, q, y, g)
  BY OmacPartsExist
<1>4. OmacVal(m, k, l) = OmacVal(w, q, g)
  BY <1>2, <1>3, OmacOfIs
<1>5. /\ BlocksOf(m, B, k) = BlocksOf(w, B, q)
      /\ (IF l = B THEN TailOf(m, B, k) ELSE Marked(m, B, k)) = (IF g = B THEN TailOf(w, B, q) ELSE Marked(w, B, q))
      /\ (l = B) = (g = B)
  BY <1>1, <1>4 DEF OmacVal
<1>6. k = q
  <2>1. DOMAIN BlocksOf(m, B, k) = 1..k /\ DOMAIN BlocksOf(w, B, q) = 1..q
    BY DEF BlocksOf
  <2>2. 1..k = 1..q
    BY <1>5, <2>1
  <2> QED
    BY <2>2
<1>7. /\ At(x, k, B) /\ l <= B /\ Len(m) = x + l
      /\ At(x, k, B) /\ g <= B /\ Len(w) = x + g
  BY <1>1, <1>2, <1>3, <1>6 DEF OmacParts, At
<1>8. SameBlocks(m, w, B, k)
  <2>1. ASSUME NEW j \in 1..k PROVE Block(m, B, j) = Block(w, B, j)
    <3>1. BlocksOf(m, B, k)[j] = Block(m, B, j) /\ BlocksOf(w, B, k)[j] = Block(w, B, j)
      BY DEF BlocksOf
    <3> QED
      BY <1>5, <1>6, <3>1
  <2> QED
    BY <2>1 DEF SameBlocks
<1>9. l = g /\ SameFrom(m, w, x, l)
  <2>1. CASE l = B
    <3>1. TailOf(m, B, k) = TailOf(w, B, k) /\ g = B
      BY <1>5, <1>6, <2>1
    <3>2. Reads(TailOf(m, B, k), l, m, x)
      BY <1>7, TailIs
    <3>3. Reads(TailOf(w, B, k), g, w, x)
      BY <1>7, TailIs
    <3> QED
      BY <2>1, <3>1, <3>2, <3>3 DEF Reads, SameFrom
  <2>2. CASE l # B
    <3>1. Marked(m, B, k) = Marked(w, B, k) /\ l \in 0..(B - 1) /\ g \in 0..(B - 1)
      BY <1>5, <1>6, <1>7, <2>2
    <3>2. IsMarked(Marked(m, B, k), B, m, x, l)
      BY <1>7, <3>1, MarkedIs
    <3>3. IsMarked(Marked(w, B, k), B, w, x, g)
      BY <1>7, <3>1, MarkedIs
    <3> QED
      BY <3>1, <3>2, <3>3, MarkedInjective
  <2> QED
    BY <2>1, <2>2
<1> QED
  BY <1>7, <1>8, <1>9, SameMessage

\* Between Writes, what Sum returns is the CMAC of the message written (omac.go:180-213).
LEMMA OmacSum ==
  ASSUME OmacI, stage = "idle"
  PROVE  OMAC!SumOf(h, buf) = OMAC!OmacOf(msg)
<1>1. PICK k \in Nat, x \in Nat, l \in Nat, z \in Nat :
        /\ k = Len(h) /\ x = k * OmacBlock /\ l = Len(buf) /\ z = Len(p)
        /\ l <= OmacBlock /\ Len(msg) = x + l + z /\ Cut(msg, x, buf, l, p)
  BY OmacNumbers
<1>2. PICK B \in Nat \ {0} : B = OmacBlock
  BY Params
<1>3. z = 0 /\ Len(msg) = x + l /\ (k > 0 => l > 0) /\ At(x, k, B)
  <2>1. z = 0
    BY <1>1 DEF OmacI
  <2>2. k > 0 => l + z > 0
    BY <1>1 DEF OmacI
  <2> QED
    BY <1>1, <1>2, <2>1, <2>2 DEF At
<1>4. OMAC!OmacOf(msg) = OmacVal(msg, k, l)
  <2>1. OmacParts(msg, k, x, l) /\ msg \in Seq(Digit)
    BY <1>1, <1>2, <1>3 DEF OmacParts, OmacI
  <2> QED
    BY <2>1, OmacOfIs
<1>5. PICK m, b \in Seq(Digit) : m = msg /\ b = buf
  BY DEF OmacI
<1>6. Reads(b, l, m, x)
  BY <1>1, <1>5 DEF Cut, Reads
<1>7. h = BlocksOf(m, B, k)
  <2>1. PICK s \in [1..k -> Seq(Digit)] : s = h
    BY <1>1, LenProperties DEF OmacI
  <2>2. \A i \in 1..k : s[i] = Block(m, B, i)
    BY <1>1, <1>2, <1>5, <2>1 DEF OmacI
  <2>3. s = [i \in 1..k |-> Block(m, B, i)]
    BY <2>2
  <2> QED
    BY <2>1, <2>3 DEF BlocksOf
<1>8. b = TailOf(m, B, k)
  <2>1. PICK t \in Seq(Digit) : t = TailOf(m, B, k) /\ Len(t) = l /\ Reads(t, l, m, x)
    BY <1>3, <1>5, TailIs
  <2>2. \A i \in 1..l : b[i] = t[i]
    BY <1>6, <2>1 DEF Reads
  <2> QED
    BY <1>1, <1>5, <2>1, <2>2, SeqEqual
<1>9. CASE l = B
  <2>1. OMAC!LastBlock(b) = [block |-> b, subkey |-> "k1"]
    BY <1>1, <1>2, <1>5, <1>9 DEF OMAC!LastBlock
  <2>2. OMAC!SumOf(h, b) = <<h, b, "k1">>
    BY <2>1 DEF OMAC!SumOf
  <2>3. OmacVal(m, k, l) = <<BlocksOf(m, B, k), TailOf(m, B, k), "k1">>
    BY <1>2, <1>9 DEF OmacVal
  <2> QED
    BY <1>4, <1>5, <1>7, <1>8, <2>2, <2>3
<1>10. CASE l # B
  <2>1. OMAC!LastBlock(b) = [block |-> PadTo(Append(b, 1), B, 0), subkey |-> "k2"]
    BY <1>1, <1>2, <1>5, <1>10 DEF OMAC!LastBlock, OMAC!PadTo, PadTo
  <2>2. OMAC!SumOf(h, b) = <<h, PadTo(Append(b, 1), B, 0), "k2">>
    BY <2>1 DEF OMAC!SumOf
  <2>3. OmacVal(m, k, l) = <<BlocksOf(m, B, k), PadTo(TailOf(m, B, k) \o <<1>>, B, 0), "k2">>
    BY <1>2, <1>10 DEF OmacVal, Marked
  <2>4. Append(b, 1) = b \o <<1>>
    OBVIOUS
  <2> QED
    BY <1>4, <1>5, <1>7, <1>8, <2>2, <2>3, <2>4
<1> QED
  BY <1>9, <1>10

-----------------------------------------------------------------------------
(* The refinement: what every digest does on msg and tag *)

\* A write that adds nothing is a stuttering step, any other one a Write of Digest.
LEMMA AbstractWrite ==
  ASSUME NEW d \in Seq(Digit), msg \in Seq(Digit), msg' = msg \o d, UNCHANGED <<alg, size, tag>>
  PROVE  [Abstract!Next]_(Abstract!vars)
<1>1. PICK m \in Seq(Digit) : m = msg
  OBVIOUS
<1>2. PICK w : w = m \o d
  OBVIOUS
<1>3. /\ w \in Seq(Digit) /\ Len(w) = Len(m) + Len(d) /\ Len(m) \in Nat /\ Len(d) \in Nat
      /\ \A i \in 1..Len(m) : w[i] = m[i]
  BY <1>2, Joined
<1>4. CASE Len(d) = 0
  <2>1. w = m
    BY <1>3, <1>4, SeqEqual
  <2> QED
    BY <1>1, <1>2, <2>1 DEF Abstract!vars
<1>5. CASE Len(d) > 0
  <2>1. Len(w) > Len(m)
    BY <1>3, <1>5
  <2>2. SubSeq(w, 1, Len(m)) = m
    <3>1. PICK u \in Seq(Digit), t \in 0..Len(w) : t = Len(m) /\ u = SubSeq(w, 1, t) /\ Len(u) = t /\ \A i \in 1..t : u[i] = w[i]
      <4>1. PICK t \in 0..Len(w) : t = Len(m)
        BY <1>3
      <4>2. PICK u : u = SubSeq(w, 1, t)
        OBVIOUS
      <4>3. u \in Seq(Digit) /\ Len(u) = t /\ \A i \in 1..t : u[i] = w[i]
        BY <1>3, <4>2, Prefix
      <4> QED
        BY <4>1, <4>2, <4>3
    <3>2. \A i \in 1..Len(m) : u[i] = m[i]
      BY <1>3, <3>1
    <3>3. u = m
      BY <3>1, <3>2, SeqEqual
    <3> QED
      BY <3>1, <3>3
  <2>3. Abstract!Write
    BY <1>1, <1>2, <2>1, <2>2 DEF Abstract!Write
  <2> QED
    BY <2>3 DEF Abstract!Next
<1> QED
  BY <1>3, <1>4, <1>5

\* Sum and Reset.
LEMMA AbstractSum ==
  ASSUME tag' = DigestOf(<<alg, size>>, msg), UNCHANGED <<alg, size, msg>>
  PROVE  [Abstract!Next]_(Abstract!vars)
  BY DEF Abstract!Next, Abstract!Sum

LEMMA AbstractReset ==
  ASSUME msg' = <<>>, UNCHANGED <<alg, size, tag>>
  PROVE  [Abstract!Next]_(Abstract!vars)
  BY DEF Abstract!Next, Abstract!Reset

LEMMA AbstractStutter ==
  ASSUME UNCHANGED <<alg, size, msg, tag>>
  PROVE  [Abstract!Next]_(Abstract!vars)
  BY DEF Abstract!vars

-----------------------------------------------------------------------------
(* The buffer of the two hashes *)

BlockNum(m, i) == Num(Block(m, HashBlock, i))
MsgNums(m, k) == [i \in 1..k |-> BlockNum(m, i)]
MsgTotal(m, k) == Total(MsgNums(m, k), k)

\* The blocks of a message are numbers.
LEMMA BlockNumType ==
  ASSUME NEW m \in Seq(Digit), NEW k \in Nat, k * HashBlock <= Len(m), NEW j \in 1..k
  PROVE  BlockNum(m, j) \in Nat
<1>1. PICK B \in Nat \ {0} : B = HashBlock
  BY Params
<1>2. PICK x \in Nat : x = (j - 1) * B /\ x + B <= k * B
  BY BlockStart
<1>3. At(x, j - 1, B) /\ x + B <= Len(m) /\ j \in Nat \ {0}
  <2>1. PICK y \in Nat : y = k * B /\ y <= Len(m) /\ x + B <= y
    BY <1>1, <1>2
  <2>2. Len(m) \in Nat
    BY LenProperties
  <2> QED
    BY <1>2, <2>1, <2>2 DEF At
<1>4. Block(m, B, j) \in [1..B -> Digit]
  BY <1>3, BlockReads
<1>5. \A i \in 1..HashBlock : Block(m, HashBlock, j)[i] \in Digit
  BY <1>1, <1>4
<1> QED
  BY <1>5, NumType DEF BlockNum

\* The sum of the first k blocks.
LEMMA MsgTotalType ==
  ASSUME NEW m \in Seq(Digit), NEW k \in Nat, k * HashBlock <= Len(m)
  PROVE  MsgTotal(m, k) \in Nat /\ (k = 0 => MsgTotal(m, k) = 0)
<1>1. \A i \in 1..k : MsgNums(m, k)[i] \in Nat
  BY BlockNumType DEF MsgNums
<1> QED
  BY <1>1, TotalIs DEF MsgTotal

\* One block more.
LEMMA MsgTotalNext ==
  ASSUME NEW m \in Seq(Digit), NEW k \in Nat, NEW q \in Nat, q = k + 1, q * HashBlock <= Len(m)
  PROVE  MsgTotal(m, q) = MsgTotal(m, k) + BlockNum(m, q)
<1>1. \A i \in 1..q : MsgNums(m, q)[i] \in Nat
  BY BlockNumType DEF MsgNums
<1>2. q # 0 /\ q - 1 = k /\ q \in 1..q
  OBVIOUS
<1>3. Total(MsgNums(m, q), q) = Total(MsgNums(m, q), k) + MsgNums(m, q)[q]
  BY <1>1, <1>2, TotalIs
<1>4. Total(MsgNums(m, q), k) = Total(MsgNums(m, k), k)
  <2>1. \A i \in 1..k : MsgNums(m, q)[i] \in Nat /\ MsgNums(m, q)[i] = MsgNums(m, k)[i]
    <3>1. \A i \in 1..k : i \in 1..q
      OBVIOUS
    <3> QED
      BY <1>1, <3>1 DEF MsgNums
  <2>2. PICK d, e : d = MsgNums(m, q) /\ e = MsgNums(m, k)
    OBVIOUS
  <2>3. Total(d, k) = Total(e, k)
    BY <2>1, <2>2, TotalSame
  <2> QED
    BY <2>2, <2>3
<1>5. MsgNums(m, q)[q] = BlockNum(m, q)
  BY <1>2 DEF MsgNums
<1> QED
  BY <1>3, <1>4, <1>5 DEF MsgTotal

\* Bytes added behind complete blocks change neither.
LEMMA Steady ==
  ASSUME NEW m \in Seq(Digit), NEW d \in Seq(Digit), NEW k \in Nat, k * HashBlock <= Len(m)
  PROVE  /\ \A i \in 1..k : BlockNum(m \o d, i) = BlockNum(m, i)
         /\ MsgTotal(m \o d, k) = MsgTotal(m, k)
<1>1. ASSUME NEW i \in 1..k PROVE BlockNum(m \o d, i) = BlockNum(m, i)
  <2>1. HashBlock \in Nat \ {0}
    BY Params
  <2>2. PICK x \in Nat : At(x, k, HashBlock) /\ x <= Len(m)
    BY <2>1 DEF At
  <2>3. Block(m \o d, HashBlock, i) = Block(m, HashBlock, i)
    BY <2>1, <2>2, BlockStable
  <2> QED
    BY <2>3 DEF BlockNum
<1>2. MsgNums(m \o d, k) = MsgNums(m, k)
  BY <1>1 DEF MsgNums
<1> QED
  BY <1>1, <1>2 DEF MsgTotal

\* A full buffer is the next block of the message.
LEMMA BlockDone ==
  ASSUME NEW m \in Seq(Digit), NEW r \in Seq(Digit), NEW k \in Nat, NEW c, Cut(m, k * HashBlock, c, HashBlock, r)
  PROVE  /\ \A e : Cut(m, (k + 1) * HashBlock, e, 0, r)
         /\ (k + 1) * HashBlock <= Len(m) /\ BlockNum(m, k + 1) = Num(c)
<1>1. PICK B \in Nat \ {0} : B = HashBlock
  BY Params
<1>2. Cut(m, k * B, c, B, r)
  BY <1>1
<1>3. \A e : Cut(m, (k + 1) * B, e, 0, r)
  BY <1>2, CutBlock
<1>4. (k + 1) * B <= Len(m) /\ \A i \in 1..B : Block(m, B, k + 1)[i] = c[i]
  BY <1>2, CutBlock
<1>5. PICK b : b = Block(m, B, k + 1)
  OBVIOUS
<1>6. Num(b) = Num(c)
  BY <1>1, <1>4, <1>5, NumSame
<1> QED
  BY <1>1, <1>3, <1>4, <1>5, <1>6 DEF BlockNum

\* k blocks are absorbed; the message is those, what is buffered and what is left.
Layout(k) ==
  /\ msg \in Seq(Digit) /\ p \in Seq(Digit)
  /\ buf \in [1..HashBlock -> Digit] /\ nbuf \in 0..(HashBlock - 1)
  /\ stage \in {"idle", "fill", "blocks"}
  /\ Cut(msg, k * HashBlock, buf, nbuf, p)
  /\ stage = "idle" \/ (stage = "blocks" /\ nbuf > 0) => p = <<>>

LEMMA LayoutNumbers ==
  ASSUME NEW k \in Nat, Layout(k)
  PROVE  \E B \in Nat \ {0}, x \in Nat, l \in 0..(HashBlock - 1), z \in Nat :
           /\ B = HashBlock /\ x = k * B /\ l = nbuf /\ z = Len(p) /\ l \in Nat /\ l < B
           /\ Len(msg) = x + l + z /\ Cut(msg, x, buf, l, p)
<1>1. PICK B \in Nat \ {0} : B = HashBlock
  BY Params
<1>2. PICK x \in Nat : x = k * B
  OBVIOUS
<1>3. PICK l \in 0..(HashBlock - 1) : l = nbuf
  BY DEF Layout
<1>4. Len(p) \in Nat
  BY LenProperties DEF Layout
<1>5. Cut(msg, x, buf, l, p)
  BY <1>1, <1>2, <1>3 DEF Layout
<1>6. Len(msg) = x + l + Len(p)
  BY <1>5 DEF Cut
<1>7. l \in Nat /\ l < B
  BY <1>1
<1> QED
  BY <1>1, <1>2, <1>3, <1>4, <1>5, <1>6, <1>7

\* The blocks absorbed are complete blocks of the message.
LEMMA LayoutLength ==
  ASSUME NEW k \in Nat, Layout(k)
  PROVE  k * HashBlock <= Len(msg)
<1>1. PICK B \in Nat \ {0}, x \in Nat, l \in 0..(HashBlock - 1), z \in Nat :
        /\ B = HashBlock /\ x = k * B /\ l = nbuf /\ z = Len(p) /\ l \in Nat /\ l < B
        /\ Len(msg) = x + l + z /\ Cut(msg, x, buf, l, p)
  BY LayoutNumbers
<1>2. x <= Len(msg)
  BY <1>1
<1> QED
  BY <1>1, <1>2

HCopied(b, from, d) ==
  [i \in 1..HashBlock |-> IF i > from /\ i - from <= Len(d) THEN d[i - from] ELSE b[i]]

\* c is b with t bytes of d from from on.
IsCopy(c, b, from, d, t) ==
  /\ c \in [1..HashBlock -> Digit]
  /\ \A i \in 1..from : c[i] = b[i]
  /\ \A i \in 1..t : c[from + i] = d[i]

\* What is copied into the buffer (copy(buf[from:], d)).
LEMMA CopiedIs ==
  ASSUME NEW b \in [1..HashBlock -> Digit], NEW from \in Nat, NEW d \in Seq(Digit),
         NEW t \in 0..Len(d), from + t <= HashBlock
  PROVE  IsCopy(HCopied(b, from, d), b, from, d, t)
<1>1. PICK B \in Nat \ {0}, z \in Nat : B = HashBlock /\ z = Len(d)
  BY Params, LenProperties
<1>2. \A i \in 1..z : d[i] \in Digit
  BY <1>1, ElementOfSeq
<1>3. PICK c : c = HCopied(b, from, d)
  OBVIOUS
<1>4. c = [i \in 1..B |-> IF i > from /\ i - from <= z THEN d[i - from] ELSE b[i]]
  BY <1>1, <1>3 DEF HCopied
<1>5. ASSUME NEW i \in 1..B PROVE c[i] \in Digit
  <2>1. CASE i > from /\ i - from <= z
    <3>1. i - from \in 1..z
      BY <2>1
    <3> QED
      BY <1>2, <1>4, <2>1, <3>1
  <2>2. CASE ~(i > from /\ i - from <= z)
    BY <1>1, <1>4, <2>2
  <2> QED
    BY <2>1, <2>2
<1>6. ASSUME NEW i \in 1..from PROVE c[i] = b[i]
  <2>1. i \in 1..B /\ ~(i > from)
    BY <1>1
  <2> QED
    BY <1>4, <2>1
<1>7. ASSUME NEW i \in 1..t PROVE c[from + i] = d[i]
  <2>1. from + i \in 1..B /\ from + i > from /\ (from + i) - from = i /\ i <= z
    BY <1>1
  <2> QED
    BY <1>4, <2>1
<1>8. c \in [1..B -> Digit]
  BY <1>4, <1>5
<1> QED
  BY <1>1, <1>3, <1>6, <1>7, <1>8 DEF IsCopy

\* Write (streebog.go:377-385, gostr341194.go:301-309).
LEMMA LayoutWrite ==
  ASSUME NEW k \in Nat, Layout(k), NEW d \in Seq(Digit),
         stage = "idle", stage' = "fill", p' = d, msg' = msg \o d, UNCHANGED <<buf, nbuf>>
  PROVE  Layout(k)'
<1>1. PICK B \in Nat \ {0}, x \in Nat, l \in 0..(HashBlock - 1), z \in Nat :
        /\ B = HashBlock /\ x = k * B /\ l = nbuf /\ z = Len(p) /\ l \in Nat /\ l < B
        /\ Len(msg) = x + l + z /\ Cut(msg, x, buf, l, p)
  BY LayoutNumbers
<1>2. PICK m \in Seq(Digit) : m = msg
  BY DEF Layout
<1>3. Cut(m, x, buf, l, <<>>)
  BY <1>1, <1>2 DEF Layout
<1>4. m \o d \in Seq(Digit) /\ Cut(m \o d, x, buf, l, d)
  BY <1>1, <1>3, CutWrite, Joined
<1>5. Cut(msg', k * HashBlock, buf', nbuf', p')
  BY <1>1, <1>2, <1>4
<1> QED
  BY <1>2, <1>4, <1>5 DEF Layout

\* Bytes of p go into the buffer: Fill when they do not complete it, and Remainder.
LEMMA LayoutKeep ==
  ASSUME NEW k \in Nat, Layout(k), NEW t \in Nat, t = Len(p), nbuf + t < HashBlock,
         buf' = HCopied(buf, nbuf, p), nbuf' = nbuf + t, p' = <<>>, msg' = msg,
         stage' \in {"idle", "blocks"}
  PROVE  Layout(k)'
<1>1. PICK B \in Nat \ {0}, x \in Nat, l \in 0..(HashBlock - 1), z \in Nat :
        /\ B = HashBlock /\ x = k * B /\ l = nbuf /\ z = Len(p) /\ l \in Nat /\ l < B
        /\ Len(msg) = x + l + z /\ Cut(msg, x, buf, l, p)
  BY LayoutNumbers
<1>2. PICK m, r \in Seq(Digit), b \in [1..HashBlock -> Digit] : m = msg /\ r = p /\ b = buf
  BY DEF Layout
<1>3. PICK c : c = HCopied(b, l, r)
  OBVIOUS
<1>4. t \in 0..Len(r) /\ l + t <= HashBlock /\ l \in Nat
  BY <1>1, <1>2
<1>5. /\ c \in [1..HashBlock -> Digit] /\ \A i \in 1..l : c[i] = b[i]
      /\ \A i \in 1..t : c[l + i] = r[i]
  <2>1. IsCopy(c, b, l, r, t)
    BY <1>3, <1>4, CopiedIs
  <2> QED
    BY <2>1 DEF IsCopy
<1>6. Cut(m, x, b, l, r)
  BY <1>1, <1>2
<1>7. Cut(m, x, c, l + t, SubSeq(r, t + 1, Len(r)))
  BY <1>4, <1>5, <1>6, CutMove
<1>8. SubSeq(r, t + 1, Len(r)) = <<>>
  <2>1. PICK u : u = SubSeq(r, t + 1, Len(r))
    OBVIOUS
  <2>2. u \in Seq(Digit) /\ Len(u) = Len(r) - t
    BY <1>4, <2>1, Suffix
  <2>3. Len(u) = 0
    BY <1>2, <2>2
  <2> QED
    BY <2>1, <2>2, <2>3, EmptySeq
<1>9. Cut(msg', k * HashBlock, buf', nbuf', p')
  BY <1>1, <1>2, <1>3, <1>7, <1>8
<1>10. /\ <<>> \in Seq(Digit) /\ nbuf' \in 0..(HashBlock - 1)
  BY <1>1, EmptySeq
<1> QED
  BY <1>2, <1>3, <1>1, <1>5, <1>9, <1>10 DEF Layout

\* Fill completes the buffer.
LEMMA LayoutFull ==
  ASSUME NEW k \in Nat, Layout(k), NEW t \in 0..Len(p), nbuf + t = HashBlock,
         buf' = HCopied(buf, nbuf, p), nbuf' = 0, p' = SubSeq(p, t + 1, Len(p)), msg' = msg,
         stage' = "blocks"
  PROVE  /\ Layout(k + 1)' /\ (k + 1) * HashBlock <= Len(msg)
         /\ BlockNum(msg, k + 1) = Num(HCopied(buf, nbuf, p))
<1>1. PICK B \in Nat \ {0}, x \in Nat, l \in 0..(HashBlock - 1), z \in Nat :
        /\ B = HashBlock /\ x = k * B /\ l = nbuf /\ z = Len(p) /\ l \in Nat /\ l < B
        /\ Len(msg) = x + l + z /\ Cut(msg, x, buf, l, p)
  BY LayoutNumbers
<1>2. PICK m, r \in Seq(Digit), b \in [1..HashBlock -> Digit] : m = msg /\ r = p /\ b = buf
  BY DEF Layout
<1>3. PICK c : c = HCopied(b, l, r)
  OBVIOUS
<1>4. t \in 0..Len(r) /\ l + t <= HashBlock /\ l \in Nat /\ l + t = HashBlock
  BY <1>1, <1>2
<1>5. /\ c \in [1..HashBlock -> Digit] /\ \A i \in 1..l : c[i] = b[i]
      /\ \A i \in 1..t : c[l + i] = r[i]
  <2>1. IsCopy(c, b, l, r, t)
    BY <1>3, <1>4, CopiedIs
  <2> QED
    BY <2>1 DEF IsCopy
<1>6. Cut(m, x, b, l, r)
  BY <1>1, <1>2
<1>7. Cut(m, x, c, l + t, SubSeq(r, t + 1, Len(r)))
  BY <1>4, <1>5, <1>6, CutMove
<1>8. PICK u \in Seq(Digit) : u = SubSeq(r, t + 1, Len(r))
  BY <1>4, Suffix
<1>9. Cut(m, k * HashBlock, c, HashBlock, u)
  BY <1>1, <1>4, <1>7, <1>8
<1>10. /\ \A e : Cut(m, (k + 1) * HashBlock, e, 0, u)
       /\ (k + 1) * HashBlock <= Len(m) /\ BlockNum(m, k + 1) = Num(c)
  BY <1>9, BlockDone
<1>11. Cut(msg', (k + 1) * HashBlock, buf', nbuf', p')
  BY <1>2, <1>8, <1>10
<1>12. 0 \in 0..(HashBlock - 1)
  BY <1>1
<1>13. Layout(k + 1)'
  BY <1>1, <1>2, <1>3, <1>5, <1>8, <1>11, <1>12 DEF Layout
<1> QED
  BY <1>1, <1>2, <1>3, <1>10, <1>13

\* A whole block is absorbed from p.
LEMMA LayoutBlock ==
  ASSUME NEW k \in Nat, Layout(k), stage = "blocks", Len(p) >= HashBlock,
         p' = SubSeq(p, HashBlock + 1, Len(p)), UNCHANGED <<buf, nbuf, stage, msg>>
  PROVE  /\ Layout(k + 1)' /\ (k + 1) * HashBlock <= Len(msg)
         /\ BlockNum(msg, k + 1) = Num(SubSeq(p, 1, HashBlock))
<1>1. PICK B \in Nat \ {0}, x \in Nat, l \in 0..(HashBlock - 1), z \in Nat :
        /\ B = HashBlock /\ x = k * B /\ l = nbuf /\ z = Len(p) /\ l \in Nat /\ l < B
        /\ Len(msg) = x + l + z /\ Cut(msg, x, buf, l, p)
  BY LayoutNumbers
<1>2. PICK m, r \in Seq(Digit) : m = msg /\ r = p
  BY DEF Layout
<1>3. l = 0
  <2>1. ASSUME l > 0 PROVE FALSE
    <3>1. p = <<>>
      BY <1>1, <2>1 DEF Layout
    <3>2. z = 0
      BY <1>1, <3>1
    <3> QED
      BY <1>1, <3>2
  <2> QED
    BY <1>1, <2>1
<1>4. B \in 0..Len(r)
  BY <1>1, <1>2
<1>5. PICK c : c = SubSeq(r, 1, B)
  OBVIOUS
<1>6. c \in Seq(Digit) /\ Len(c) = B /\ \A i \in 1..B : c[i] = r[i]
  BY <1>4, <1>5, Prefix
<1>7. Cut(m, x, buf, 0, r)
  BY <1>1, <1>2, <1>3
<1>8. PICK u \in Seq(Digit) : u = SubSeq(r, B + 1, Len(r))
  BY <1>4, Suffix
<1>9. Cut(m, x, c, 0 + B, SubSeq(r, B + 1, Len(r)))
  <2>1. \A i \in 1..0 : c[i] = buf[i]
    OBVIOUS
  <2>2. \A i \in 1..B : c[0 + i] = r[i]
    BY <1>6
  <2>3. 0 \in Nat
    OBVIOUS
  <2> QED
    BY <1>4, <1>7, <2>1, <2>2, <2>3, CutMove
<1>10. Cut(m, k * HashBlock, c, HashBlock, u)
  BY <1>1, <1>8, <1>9
<1>11. /\ \A e : Cut(m, (k + 1) * HashBlock, e, 0, u)
       /\ (k + 1) * HashBlock <= Len(m) /\ BlockNum(m, k + 1) = Num(c)
  BY <1>10, BlockDone
<1>12. Cut(msg', (k + 1) * HashBlock, buf', nbuf', p')
  BY <1>1, <1>2, <1>3, <1>8, <1>11
<1>13. Layout(k + 1)'
  BY <1>1, <1>2, <1>3, <1>8, <1>12 DEF Layout
<1> QED
  BY <1>1, <1>2, <1>5, <1>11, <1>13

\* Nothing moves: Fill with an empty buffer, Remainder without one, Sum.
LEMMA LayoutSame ==
  ASSUME NEW k \in Nat, Layout(k), UNCHANGED <<buf, nbuf, p, msg>>,
         \/ stage' = "idle" /\ p = <<>>
         \/ stage' = "blocks" /\ nbuf = 0
         \/ stage' = stage
  PROVE  Layout(k)'
<1>1. Cut(msg', k * HashBlock, buf', nbuf', p')
  BY DEF Layout
<1>2. nbuf = 0 => ~(nbuf > 0)
  OBVIOUS
<1> QED
  BY <1>1, <1>2 DEF Layout

\* Nothing written.
LEMMA LayoutEmpty ==
  ASSUME msg = <<>>, p = <<>>, buf = [i \in 1..HashBlock |-> 0], nbuf = 0, stage = "idle"
  PROVE  Layout(0)
<1>1. 0 \in Digit /\ <<>> \in Seq(Digit) /\ Len(<<>>) = 0 /\ 0 \in 0..(HashBlock - 1) /\ 0 * HashBlock = 0
  BY Params, EmptySeq DEF Digit
<1>2. Cut(<<>>, 0, buf, 0, <<>>)
  BY <1>1 DEF Cut
<1> QED
  BY <1>1, <1>2 DEF Layout

LEMMA LayoutReset ==
  ASSUME msg' = <<>>, p' = <<>>, buf' = [i \in 1..HashBlock |-> 0], nbuf' = 0, stage' = "idle"
  PROVE  Layout(0)'
<1>1. 0 \in Digit /\ <<>> \in Seq(Digit) /\ Len(<<>>) = 0 /\ 0 \in 0..(HashBlock - 1) /\ 0 * HashBlock = 0
  BY Params, EmptySeq DEF Digit
<1>2. Cut(<<>>, 0, buf', 0, <<>>)
  BY <1>1 DEF Cut
<1> QED
  BY <1>1, <1>2 DEF Layout

-----------------------------------------------------------------------------
(* Streebog *)

\* The bits before block i, as the counter N holds them.
Bits(i) == ((i - 1) * HashBlock * BitsPerByte) % Modulus

StbChain(k) ==
  /\ h \in Seq(Nat \X Nat) /\ Len(h) = k
  /\ \A i \in 1..k : h[i] = <<Bits(i), BlockNum(msg, i)>>
  /\ n = Bits(k + 1) /\ sum = MsgTotal(msg, k) % Modulus

StbI == Layout(Len(h)) /\ StbChain(Len(h))

LEMMA StbNames ==
  /\ \A b : Stb!Number(b) = Num(b)
  /\ \A d, k : Stb!Total(d, k) = Total(d, k)
  /\ \A m, b, i : Stb!Block(m, b, i) = Block(m, b, i)
  /\ \A i : Stb!Before(i) = Bits(i)
  /\ \A x : Stb!wrap(x) = x % Modulus
  /\ \A m, x, b, l, r : Stb!Cut(m, x, b, l, r) = Cut(m, x, b, l, r)
  /\ \A b, from, d : Stb!Copied(b, from, d) = HCopied(b, from, d)
  /\ \A m, b, k : Stb!TailOf(m, b, k) = TailOf(m, b, k)
  /\ \A s, b, z : Stb!PadTo(s, b, z) = PadTo(s, b, z)
  /\ Stb!Bytes = Digit
<1>1. \A b : Stb!Number(b) = Num(b)
  BY DEF Stb!Number, Stb!NumberOf, Stb!Total, Num, NumberOf, Total
<1>2. \A d, k : Stb!Total(d, k) = Total(d, k)
  BY DEF Stb!Total, Total
<1>3. \A m, b, i : Stb!Block(m, b, i) = Block(m, b, i)
  BY DEF Stb!Block, Block
<1>4. \A i : Stb!Before(i) = Bits(i)
  BY DEF Stb!Before, Stb!wrap, Bits, Modulus
<1>5. \A x : Stb!wrap(x) = x % Modulus
  BY DEF Stb!wrap, Modulus
<1>6. \A m, x, b, l, r : Stb!Cut(m, x, b, l, r) = Cut(m, x, b, l, r)
  BY DEF Stb!Cut, Cut
<1>7. \A b, from, d : Stb!Copied(b, from, d) = HCopied(b, from, d)
  BY DEF Stb!Copied, HCopied
<1>8. \A m, b, k : Stb!TailOf(m, b, k) = TailOf(m, b, k)
  BY DEF Stb!TailOf, TailOf
<1>9. \A s, b, z : Stb!PadTo(s, b, z) = PadTo(s, b, z)
  BY DEF Stb!PadTo, PadTo
<1>10. Stb!Bytes = Digit
  BY DEF Stb!Bytes, Digit
<1> QED
  BY <1>1, <1>2, <1>3, <1>4, <1>5, <1>6, <1>7, <1>8, <1>9, <1>10

\* The bit counter wraps as the bit length does.
LEMMA BitsAdd ==
  ASSUME NEW k \in Nat, NEW x \in Nat, At(x, k, HashBlock), NEW l \in Nat
  PROVE  /\ Bits(k + 1) \in Nat /\ Bits(k + 1) = (x * BitsPerByte) % Modulus
         /\ (Bits(k + 1) + l * BitsPerByte) % Modulus = ((x + l) * BitsPerByte) % Modulus
<1>1. PICK M \in Nat \ {0} : M = Modulus
  BY Params
<1>2. PICK b \in Nat : b = BitsPerByte
  BY Params
<1>3. PICK a, c \in Nat : a = x * b /\ c = l * b /\ (x + l) * b = a + c
  <2>1. x * b \in Nat /\ l * b \in Nat /\ (x + l) * b = x * b + l * b
    OBVIOUS
  <2> QED
    BY <2>1
<1>4. Bits(k + 1) = a % M
  <2>1. (k + 1) - 1 = k
    OBVIOUS
  <2>2. Bits(k + 1) = (k * HashBlock * BitsPerByte) % Modulus
    BY <2>1 DEF Bits
  <2>3. k * HashBlock = x
    BY DEF At
  <2> QED
    BY <1>1, <1>2, <1>3, <2>2, <2>3
<1>5. ((a % M) + c) % M = (a + c) % M
  BY ModAdd
<1>6. a % M \in 0..(M - 1)
  BY DivModBasic
<1>7. a % M \in Nat
  BY <1>6
<1> QED
  BY <1>1, <1>2, <1>3, <1>4, <1>5, <1>7

LEMMA AtNext ==
  ASSUME NEW k \in Nat, NEW x \in Nat, NEW B \in Nat, At(x, k, B)
  PROVE  At(x + B, k + 1, B)
  BY DEF At

\* compress takes one block (streebog.go:412-440).
LEMMA StbAbsorb ==
  ASSUME NEW k \in Nat, NEW c, StbChain(k), msg \in Seq(Digit), (k + 1) * HashBlock <= Len(msg),
         BlockNum(msg, k + 1) = Num(c), Stb!compress(c), msg' = msg
  PROVE  StbChain(k + 1)'
<1>1. PICK B \in Nat \ {0}, M \in Nat \ {0} : B = HashBlock /\ M = Modulus
  BY Params
<1>2. PICK q \in Nat : q = k + 1 /\ q \in 1..q /\ q * HashBlock <= Len(msg)
  OBVIOUS
<1>3. PICK m \in Seq(Digit) : m = msg
  OBVIOUS
<1>4. k * HashBlock <= Len(m)
  <2>1. q * B = k * B + B
    BY <1>2
  <2>2. PICK y \in Nat : y = k * B /\ y + B <= Len(m)
    BY <1>1, <1>2, <1>3, <2>1
  <2>3. Len(m) \in Nat
    BY LenProperties
  <2> QED
    BY <1>1, <2>2, <2>3
<1>5. PICK a, v \in Nat : a = MsgTotal(m, k) /\ v = BlockNum(m, q) /\ MsgTotal(m, q) = a + v
  BY <1>2, <1>3, <1>4, MsgTotalType, BlockNumType, MsgTotalNext
<1>6. PICK x \in Nat : At(x, k, HashBlock)
  <2>1. k * B \in Nat
    OBVIOUS
  <2> QED
    BY <1>1, <2>1 DEF At
<1>7. /\ h' = Append(h, <<n, v>>) /\ n' = (n + HashBlock * BitsPerByte) % Modulus
      /\ sum' = (sum + v) % Modulus
  BY <1>2, <1>3, <1>5, StbNames DEF Stb!compress, Stb!add512
<1>8. n \in Nat /\ n = Bits(q) /\ n' = Bits(q + 1)
  <2>1. n = Bits(k + 1) /\ HashBlock \in Nat
    BY Params DEF StbChain
  <2>2. Bits(k + 1) \in Nat /\ (Bits(k + 1) + HashBlock * BitsPerByte) % Modulus = ((x + HashBlock) * BitsPerByte) % Modulus
    BY <1>6, <2>1, BitsAdd
  <2>3. At(x + HashBlock, q, HashBlock) /\ x + HashBlock \in Nat
    BY <1>2, <1>6, <2>1, AtNext
  <2>4. Bits(q + 1) = ((x + HashBlock) * BitsPerByte) % Modulus
    BY <2>1, <2>3, BitsAdd
  <2> QED
    BY <1>2, <1>7, <2>1, <2>2, <2>4
<1>9. sum' = MsgTotal(m, q) % Modulus
  <2>1. sum = a % M
    BY <1>1, <1>3, <1>5 DEF StbChain
  <2>2. ((a % M) + v) % M = (a + v) % M
    BY ModAdd
  <2> QED
    BY <1>1, <1>5, <1>7, <2>1, <2>2
<1>10. PICK e \in Nat \X Nat, s \in Seq(Nat \X Nat) : e = <<n, v>> /\ s = h
  BY <1>8 DEF StbChain
<1>11. /\ h' \in Seq(Nat \X Nat) /\ Len(h') = q
       /\ \A i \in 1..k : h'[i] = h[i]
       /\ h'[q] = <<n, v>>
  <2>1. Len(s) = k
    BY <1>10 DEF StbChain
  <2>2. /\ Append(s, e) \in Seq(Nat \X Nat) /\ Len(Append(s, e)) = k + 1
        /\ \A i \in 1..k : Append(s, e)[i] = s[i]
        /\ Append(s, e)[k + 1] = e
    BY <2>1, AppendProperties
  <2> QED
    BY <1>2, <1>7, <1>10, <2>2
<1>12. ASSUME NEW i \in 1..q PROVE h'[i] = <<Bits(i), BlockNum(m, i)>>
  <2>1. i \in 1..k \/ i = q
    BY <1>2
  <2>2. CASE i \in 1..k
    BY <1>3, <1>11, <2>2 DEF StbChain
  <2>3. CASE i = q
    BY <1>5, <1>8, <1>11, <2>3
  <2> QED
    BY <2>1, <2>2, <2>3
<1> QED
  BY <1>2, <1>3, <1>8, <1>9, <1>11, <1>12 DEF StbChain

\* A Write leaves the compressed blocks alone.
LEMMA StbExtend ==
  ASSUME NEW k \in Nat, StbChain(k), Layout(k), NEW d \in Seq(Digit), msg' = msg \o d, UNCHANGED <<h, n, sum>>
  PROVE  StbChain(k)'
<1>1. PICK m \in Seq(Digit) : m = msg /\ k * HashBlock <= Len(m)
  BY LayoutLength DEF Layout
<1>2. \A i \in 1..k : BlockNum(m \o d, i) = BlockNum(m, i)
  BY <1>1, Steady
<1>3. MsgTotal(m \o d, k) = MsgTotal(m, k)
  BY <1>1, Steady
<1> QED
  BY <1>1, <1>2, <1>3 DEF StbChain

LEMMA StbStay ==
  ASSUME NEW k \in Nat, StbChain(k), msg' = msg, UNCHANGED <<h, n, sum>>
  PROVE  StbChain(k)'
  BY DEF StbChain

\* All of p has been taken.
LEMMA NothingLeft ==
  ASSUME NEW r \in Seq(Digit), NEW t \in 0..Len(r), t = Len(r)
  PROVE  SubSeq(r, t + 1, Len(r)) = <<>>
<1>1. PICK u : u = SubSeq(r, t + 1, Len(r))
  OBVIOUS
<1>2. u \in Seq(Digit) /\ Len(u) = Len(r) - t
  BY <1>1, Suffix
<1>3. Len(u) = 0
  BY <1>2
<1> QED
  BY <1>1, <1>2, <1>3, EmptySeq

\* No block, no bits, no sum.
LEMMA StbNothing ==
  /\ Bits(0 + 1) = 0 /\ MsgTotal(<<>>, 0) % Modulus = 0
  /\ <<>> \in Seq(Nat \X Nat) /\ Len(<<>>) = 0
<1>1. PICK M \in Nat \ {0}, B \in Nat \ {0}, b \in Nat : M = Modulus /\ B = HashBlock /\ b = BitsPerByte
  BY Params
<1>2. <<>> \in Seq(Nat \X Nat) /\ <<>> \in Seq(Digit) /\ Len(<<>>) = 0
  BY EmptySeq
<1>3. 0 % M = 0
  <2>1. (0 * M + 0) % M = 0 /\ 0 * M + 0 = 0
    BY DivModOf
  <2> QED
    BY <2>1
<1>4. (0 + 1) - 1 = 0 /\ 0 * B = 0 /\ 0 * b = 0
  OBVIOUS
<1>5. MsgTotal(<<>>, 0) = 0
  <2>1. 0 * HashBlock <= Len(<<>>)
    BY <1>1, <1>2, <1>4
  <2> QED
    BY <1>2, <2>1, MsgTotalType
<1>6. Bits(0 + 1) = 0
  BY <1>1, <1>3, <1>4 DEF Bits
<1> QED
  BY <1>1, <1>2, <1>3, <1>5, <1>6

\* Inv of Streebog, in the terms of this module.
LEMMA StbSums ==
  ASSUME NEW k \in Nat, NEW s, NEW m, \A i \in 1..k : s[i] = <<Bits(i), BlockNum(m, i)>>
  PROVE  Total([i \in 1..k |-> s[i][2]], k) = MsgTotal(m, k)
<1>1. [i \in 1..k |-> s[i][2]] = MsgNums(m, k)
  BY DEF MsgNums
<1> QED
  BY <1>1 DEF MsgTotal

LEMMA StbInvIs == (Stb!Inv <=> StbI) /\ (Stb!Inv' <=> StbI')
<1> DEFINE Core(k) == /\ Layout(k) /\ h \in Seq(Nat \X Nat)
                      /\ \A i \in 1..k : h[i] = <<Bits(i), BlockNum(msg, i)>>
                      /\ n = Bits(k + 1)
           Sums(k) == sum = Total([i \in 1..k |-> h[i][2]], k) % Modulus
<1>1. Stb!Inv <=> Core(Len(h)) /\ Sums(Len(h))
  BY StbNames DEF Stb!Inv, Stb!TypeOK, Layout, BlockNum
<1>2. Stb!Inv' <=> Core(Len(h))' /\ Sums(Len(h))'
  BY StbNames DEF Stb!Inv, Stb!TypeOK, Layout, BlockNum
<1>3. ASSUME Core(Len(h)) PROVE Sums(Len(h)) <=> sum = MsgTotal(msg, Len(h)) % Modulus
  <2>1. PICK k \in Nat : k = Len(h)
    BY <1>3, LenProperties
  <2>2. \A i \in 1..k : h[i] = <<Bits(i), BlockNum(msg, i)>>
    BY <1>3, <2>1
  <2>3. Total([i \in 1..k |-> h[i][2]], k) = MsgTotal(msg, k)
    BY <2>2, StbSums
  <2> QED
    BY <2>1, <2>3
<1>4. ASSUME Core(Len(h))' PROVE Sums(Len(h))' <=> sum' = (MsgTotal(msg, Len(h)) % Modulus)'
  <2>1. PICK k \in Nat : k = Len(h')
    BY <1>4, LenProperties
  <2>2. \A i \in 1..k : h'[i] = <<Bits(i), BlockNum(msg', i)>>
    BY <1>4, <2>1
  <2>3. Total([i \in 1..k |-> h'[i][2]], k) = MsgTotal(msg', k)
    BY <2>2, StbSums
  <2> QED
    BY <2>1, <2>3
<1> QED
  BY <1>1, <1>2, <1>3, <1>4 DEF StbI, StbChain

\* Every step of Streebog.
LEMMA StbNext ==
  ASSUME StbI, Stb!Next
  PROVE  StbI'
<1>1. PICK k \in Nat : k = Len(h) /\ Layout(k) /\ StbChain(k)
  BY LenProperties DEF StbI, StbChain
<1>2. SUFFICES \E q \in Nat : Layout(q)' /\ StbChain(q)'
  <2>1. ASSUME NEW q \in Nat, Layout(q)', StbChain(q)' PROVE StbI'
    BY <2>1 DEF StbI, StbChain
  <2> QED
    BY <2>1
<1>3. PICK B \in Nat \ {0}, l \in 0..(HashBlock - 1), z \in Nat :
        B = HashBlock /\ l = nbuf /\ z = Len(p) /\ l \in Nat /\ l < B
  BY <1>1, LayoutNumbers
<1>4. msg \in Seq(Digit) /\ p \in Seq(Digit)
  BY <1>1 DEF Layout
<1>5. CASE \E d \in Stb!MessagesUpTo(Stb!Bytes, MaxMsg) : Stb!Write(d)
  <2>1. PICK d \in MessagesUpTo(Digit, MaxMsg) : Stb!Write(d)
    BY <1>5 DEF Stb!MessagesUpTo, MessagesUpTo, Stb!Bytes, Digit
  <2>2. d \in Seq(Digit)
    BY DigestsAssumption, MessagesAre
  <2>3. /\ stage = "idle" /\ stage' = "fill" /\ p' = d /\ msg' = msg \o d
        /\ UNCHANGED <<h, n, sum, buf, nbuf>>
    BY <2>1 DEF Stb!Write
  <2>4. Layout(k)'
    BY <1>1, <2>2, <2>3, LayoutWrite
  <2>5. StbChain(k)'
    BY <1>1, <2>2, <2>3, StbExtend
  <2> QED
    BY <2>4, <2>5
<1>6. CASE Stb!Fill
  <2>1. stage = "fill" /\ stage' = "blocks" /\ msg' = msg
    BY <1>6 DEF Stb!Fill
  <2>2. CASE nbuf = 0
    <3>1. UNCHANGED <<h, n, sum, buf, nbuf, p>>
      BY <1>6, <2>2 DEF Stb!Fill
    <3>2. Layout(k)'
      BY <1>1, <2>1, <2>2, <3>1, LayoutSame
    <3>3. StbChain(k)'
      BY <1>1, <2>1, <3>1, StbStay
    <3> QED
      BY <3>2, <3>3
  <2>3. CASE nbuf # 0
    <3> DEFINE t == IF Len(p) <= HashBlock - nbuf THEN Len(p) ELSE HashBlock - nbuf
    <3>1. /\ buf' = HCopied(buf, nbuf, p) /\ p' = SubSeq(p, t + 1, Len(p))
          /\ nbuf' = IF nbuf + t = HashBlock THEN 0 ELSE nbuf + t
          /\ IF nbuf + t = HashBlock THEN Stb!compress(HCopied(buf, nbuf, p)) ELSE UNCHANGED <<h, n, sum>>
      BY <1>6, <2>3, StbNames DEF Stb!Fill
    <3>2. PICK g \in Nat : g = t /\ g \in 0..Len(p) /\ (nbuf + g = HashBlock \/ (nbuf + g < HashBlock /\ g = Len(p)))
      <4>1. t \in 0..z /\ (l + t = B \/ (l + t < B /\ t = z))
        BY <1>3
      <4> HIDE DEF t
      <4> QED
        BY <1>3, <4>1
    <3> HIDE DEF t
    <3>3. CASE nbuf + g = HashBlock
      <4>1. /\ nbuf' = 0 /\ p' = SubSeq(p, g + 1, Len(p)) /\ Stb!compress(HCopied(buf, nbuf, p))
        BY <3>1, <3>2, <3>3
      <4>2. /\ Layout(k + 1)' /\ (k + 1) * HashBlock <= Len(msg)
            /\ BlockNum(msg, k + 1) = Num(HCopied(buf, nbuf, p))
        BY <1>1, <2>1, <3>1, <3>2, <3>3, <4>1, LayoutFull
      <4>3. StbChain(k + 1)'
        BY <1>1, <1>4, <2>1, <4>1, <4>2, StbAbsorb
      <4> QED
        BY <4>2, <4>3
    <3>4. CASE ~(nbuf + g = HashBlock)
      <4>1. g = Len(p) /\ nbuf + g < HashBlock
        BY <3>2, <3>4
      <4>2. nbuf' = nbuf + g /\ p' = SubSeq(p, g + 1, Len(p)) /\ UNCHANGED <<h, n, sum>>
        BY <3>1, <3>2, <3>4
      <4>3. p' = <<>>
        BY <1>4, <3>2, <4>1, <4>2, NothingLeft
      <4>4. Layout(k)'
        BY <1>1, <2>1, <3>1, <4>1, <4>2, <4>3, LayoutKeep
      <4>5. StbChain(k)'
        BY <1>1, <2>1, <4>2, StbStay
      <4> QED
        BY <4>4, <4>5
    <3> QED
      BY <3>3, <3>4
  <2> QED
    BY <2>2, <2>3
<1>7. CASE Stb!FullBlock
  <2>1. /\ stage = "blocks" /\ Len(p) >= HashBlock /\ Stb!compress(SubSeq(p, 1, HashBlock))
        /\ p' = SubSeq(p, HashBlock + 1, Len(p)) /\ UNCHANGED <<buf, nbuf, stage, msg>>
    BY <1>7 DEF Stb!FullBlock
  <2>2. /\ Layout(k + 1)' /\ (k + 1) * HashBlock <= Len(msg)
        /\ BlockNum(msg, k + 1) = Num(SubSeq(p, 1, HashBlock))
    BY <1>1, <2>1, LayoutBlock
  <2>3. StbChain(k + 1)'
    BY <1>1, <1>4, <2>1, <2>2, StbAbsorb
  <2> QED
    BY <2>2, <2>3
<1>8. CASE Stb!Remainder
  <2>1. stage = "blocks" /\ stage' = "idle" /\ p' = <<>> /\ Len(p) < HashBlock /\ UNCHANGED <<h, n, sum, msg>>
    BY <1>8 DEF Stb!Remainder
  <2>2. StbChain(k)'
    BY <1>1, <2>1, StbStay
  <2>3. CASE Len(p) > 0
    <3>1. nbuf = 0
      <4>1. p # <<>>
        BY <2>3
      <4>2. ~(nbuf > 0)
        BY <1>1, <2>1, <4>1 DEF Layout
      <4> QED
        BY <1>3, <4>2
    <3>2. buf' = HCopied(buf, nbuf, p) /\ nbuf' = nbuf + z /\ nbuf + z < HashBlock
      <4>1. buf' = HCopied(buf, 0, p) /\ nbuf' = Len(p)
        BY <1>8, <2>3, StbNames DEF Stb!Remainder
      <4> QED
        BY <1>3, <2>1, <3>1, <4>1
    <3>3. Layout(k)'
      BY <1>1, <1>3, <2>1, <3>2, LayoutKeep
    <3> QED
      BY <2>2, <3>3
  <2>4. CASE ~(Len(p) > 0)
    <3>1. p = <<>> /\ UNCHANGED <<buf, nbuf>>
      <4>1. Len(p) = 0
        BY <1>3, <2>4
      <4> QED
        BY <1>4, <1>8, <2>4, <4>1, EmptySeq DEF Stb!Remainder
    <3>2. Layout(k)'
      BY <1>1, <2>1, <3>1, LayoutSame
    <3> QED
      BY <2>2, <3>2
  <2> QED
    BY <2>3, <2>4
<1>9. CASE Stb!Sum
  <2>1. UNCHANGED <<h, n, sum, buf, nbuf, stage, p, msg>>
    BY <1>9 DEF Stb!Sum
  <2> QED
    BY <1>1, <2>1, LayoutSame, StbStay
<1>10. CASE Stb!Reset
  <2>1. /\ h' = <<>> /\ n' = 0 /\ sum' = 0 /\ buf' = [i \in 1..HashBlock |-> 0] /\ nbuf' = 0
        /\ msg' = <<>> /\ stage' = "idle" /\ p' = <<>>
    BY <1>1, <1>10 DEF Stb!Reset, Stb!Cleared, Stb!ZeroBlock, Layout
  <2>2. Layout(0)'
    BY <2>1, LayoutReset
  <2>3. StbChain(0)'
    BY <2>1, StbNothing DEF StbChain
  <2> QED
    BY <2>2, <2>3
<1> QED
  BY <1>5, <1>6, <1>7, <1>8, <1>9, <1>10 DEF Stb!Next

-----------------------------------------------------------------------------
(* The end of the two hashes *)

Two(a, b) == <<a, b>>
Three(a, b, c) == <<a, b, c>>
Ended(s, a, b) == s \o Two(a, b)
Tripled(s, a, b, c) == s \o Three(a, b, c)

\* Finalization appends the last block, then two more.
LEMMA SplitThree ==
  ASSUME NEW S, NEW s \in Seq(S), NEW a \in S, NEW b \in S, NEW c \in S
  PROVE  Tripled(s, a, b, c) = Ended(Append(s, a), b, c)
<1>1. PICK z \in Nat : z = Len(s)
  BY LenProperties
<1>2. PICK t \in Seq(S) : t = Append(s, a) /\ Len(t) = z + 1 /\ t[z + 1] = a /\ \A i \in 1..z : t[i] = s[i]
  <2>1. PICK t : t = Append(s, a)
    OBVIOUS
  <2>2. t \in Seq(S) /\ Len(t) = Len(s) + 1 /\ t[Len(s) + 1] = a /\ \A i \in 1..Len(s) : t[i] = s[i]
    BY <2>1, AppendProperties
  <2> QED
    BY <1>1, <2>1, <2>2
<1>3. PICK e \in Seq(S) : e = <<a, b, c>> /\ Len(e) = 3 /\ e[1] = a /\ e[2] = b /\ e[3] = c
  <2>1. <<a, b, c>> \in Seq(S) /\ Len(<<a, b, c>>) = 3
    OBVIOUS
  <2> QED
    BY <2>1
<1>4. PICK f \in Seq(S) : f = <<b, c>> /\ Len(f) = 2 /\ f[1] = b /\ f[2] = c
  <2>1. <<b, c>> \in Seq(S) /\ Len(<<b, c>>) = 2
    OBVIOUS
  <2> QED
    BY <2>1
<1>5. PICK u : u = s \o e
  OBVIOUS
<1>6. /\ u \in Seq(S) /\ Len(u) = z + 3
      /\ \A i \in 1..z : u[i] = s[i]
      /\ \A i \in 1..3 : u[z + i] = e[i]
  BY <1>1, <1>3, <1>5, Joined
<1>7. PICK v : v = t \o f
  OBVIOUS
<1>8. /\ v \in Seq(S) /\ Len(v) = (z + 1) + 2
      /\ \A i \in 1..(z + 1) : v[i] = t[i]
      /\ \A i \in 1..2 : v[(z + 1) + i] = f[i]
  <2>1. /\ v \in Seq(S) /\ Len(v) = Len(t) + Len(f)
        /\ \A i \in 1..Len(t) : v[i] = t[i]
        /\ \A i \in 1..Len(f) : v[Len(t) + i] = f[i]
    BY <1>7, Joined
  <2> QED
    BY <1>2, <1>4, <2>1
<1>9. ASSUME NEW i \in 1..(z + 3) PROVE u[i] = v[i]
  <2>1. CASE i <= z
    <3>1. i \in 1..z /\ i \in 1..(z + 1)
      BY <2>1
    <3> QED
      BY <1>2, <1>6, <1>8, <3>1
  <2>2. CASE i = z + 1
    <3>1. u[z + 1] = a
      BY <1>3, <1>6
    <3>2. v[z + 1] = a
      <4>1. z + 1 \in 1..(z + 1)
        OBVIOUS
      <4> QED
        BY <1>2, <1>8, <4>1
    <3> QED
      BY <2>2, <3>1, <3>2
  <2>3. CASE i = z + 2
    <3>1. u[z + 2] = b
      BY <1>3, <1>6
    <3>2. v[(z + 1) + 1] = b
      BY <1>4, <1>8
    <3>3. (z + 1) + 1 = z + 2
      OBVIOUS
    <3> QED
      BY <2>3, <3>1, <3>2, <3>3
  <2>4. CASE i = z + 3
    <3>1. u[z + 3] = c
      BY <1>3, <1>6
    <3>2. v[(z + 1) + 2] = c
      BY <1>4, <1>8
    <3>3. (z + 1) + 2 = z + 3
      OBVIOUS
    <3> QED
      BY <2>4, <3>1, <3>2, <3>3
  <2>5. i <= z \/ i = z + 1 \/ i = z + 2 \/ i = z + 3
    OBVIOUS
  <2> QED
    BY <2>1, <2>2, <2>3, <2>4, <2>5, Zenon
<1>10. u = v
  <2>1. Len(u) = Len(v) /\ \A i \in 1..Len(u) : u[i] = v[i]
    BY <1>6, <1>8, <1>9
  <2> QED
    BY <1>6, <1>8, <2>1, SeqEqual
<1> QED
  BY <1>2, <1>3, <1>4, <1>5, <1>7, <1>10 DEF Two, Three, Ended, Tripled

\* The two last entries and those before them.
LEMMA JoinInjective ==
  ASSUME NEW S, NEW s \in Seq(S), NEW t \in Seq(S), NEW a \in S, NEW b \in S, NEW c \in S, NEW d \in S,
         Ended(s, a, b) = Ended(t, c, d)
  PROVE  s = t /\ a = c /\ b = d
<1>1. PICK y, z \in Nat : y = Len(s) /\ z = Len(t)
  BY LenProperties
<1>2. PICK e \in Seq(S) : e = <<a, b>> /\ Len(e) = 2 /\ e[1] = a /\ e[2] = b
  <2>1. <<a, b>> \in Seq(S) /\ Len(<<a, b>>) = 2
    OBVIOUS
  <2> QED
    BY <2>1
<1>3. PICK f \in Seq(S) : f = <<c, d>> /\ Len(f) = 2 /\ f[1] = c /\ f[2] = d
  <2>1. <<c, d>> \in Seq(S) /\ Len(<<c, d>>) = 2
    OBVIOUS
  <2> QED
    BY <2>1
<1>4. PICK u : u = s \o e
  OBVIOUS
<1>5. /\ Len(u) = y + 2
      /\ \A i \in 1..y : u[i] = s[i]
      /\ \A i \in 1..2 : u[y + i] = e[i]
  BY <1>1, <1>2, <1>4, Joined
<1>6. PICK v : v = t \o f
  OBVIOUS
<1>7. /\ Len(v) = z + 2
      /\ \A i \in 1..z : v[i] = t[i]
      /\ \A i \in 1..2 : v[z + i] = f[i]
  BY <1>1, <1>3, <1>6, Joined
<1>8. u = v /\ y = z
  <2>1. u = v
    BY <1>2, <1>3, <1>4, <1>6 DEF Two, Ended
  <2>2. y + 2 = z + 2
    BY <1>5, <1>7, <2>1
  <2> QED
    BY <2>1, <2>2
<1>9. s = t
  <2>1. Len(s) = Len(t) /\ \A i \in 1..Len(s) : s[i] = t[i]
    BY <1>1, <1>5, <1>7, <1>8
  <2> QED
    BY <2>1, SeqEqual
<1>10. e[1] = f[1] /\ e[2] = f[2]
  <2>1. 1 \in 1..2 /\ 2 \in 1..2
    OBVIOUS
  <2> QED
    BY <1>5, <1>7, <1>8, <2>1
<1> QED
  BY <1>2, <1>3, <1>9, <1>10

\* The blocks and a last number.
EndNums(m, k, t) == [i \in 1..(k + 1) |-> IF i <= k THEN BlockNum(m, i) ELSE t]

LEMMA EndTotal ==
  ASSUME NEW m \in Seq(Digit), NEW k \in Nat, k * HashBlock <= Len(m), NEW t \in Nat
  PROVE  /\ Total(EndNums(m, k, t), k + 1) = MsgTotal(m, k) + t
         /\ EndNums(m, k, t) \in [1..(k + 1) -> Nat]
<1>1. PICK q \in Nat : q = k + 1 /\ q - 1 = k /\ q # 0 /\ q \in 1..q /\ ~(q <= k)
  OBVIOUS
<1>2. PICK e : e = EndNums(m, k, t)
  OBVIOUS
<1>3. \A i \in 1..k : BlockNum(m, i) \in Nat
  BY BlockNumType
<1>4. e \in [1..q -> Nat] /\ e[q] = t /\ \A i \in 1..k : e[i] = BlockNum(m, i)
  <2>1. ASSUME NEW i \in 1..q PROVE (IF i <= k THEN BlockNum(m, i) ELSE t) \in Nat
    <3>1. i <= k => i \in 1..k
      OBVIOUS
    <3> QED
      BY <1>3, <3>1
  <2>2. \A i \in 1..k : i \in 1..q /\ i <= k
    BY <1>1
  <2>3. e = [i \in 1..q |-> IF i <= k THEN BlockNum(m, i) ELSE t]
    BY <1>1, <1>2 DEF EndNums
  <2> QED
    BY <1>1, <2>1, <2>2, <2>3
<1>5. Total(e, q) = Total(e, k) + t
  <2>1. \A i \in 1..q : e[i] \in Nat
    BY <1>4
  <2>2. Total(e, q) = Total(e, q - 1) + e[q]
    BY <1>1, <2>1, TotalIs
  <2> QED
    BY <1>1, <1>4, <2>2
<1>6. Total(e, k) = MsgTotal(m, k)
  <2>1. PICK f : f = MsgNums(m, k)
    OBVIOUS
  <2>2. \A i \in 1..k : e[i] \in Nat /\ e[i] = f[i]
    BY <1>3, <1>4, <2>1 DEF MsgNums
  <2>3. Total(e, k) = Total(f, k)
    BY <2>2, TotalSame
  <2> QED
    BY <2>1, <2>3 DEF MsgTotal
<1> QED
  BY <1>1, <1>2, <1>4, <1>5, <1>6

-----------------------------------------------------------------------------
(* The Streebog input of a message *)

\* m is k blocks and a tail of l bytes that do not fill one.
HashParts(m, k, x, l) == At(x, k, HashBlock) /\ l < HashBlock /\ Len(m) = x + l

LEMMA HashPartsExist ==
  ASSUME NEW m \in Seq(Digit)
  PROVE  \E k \in Nat, x \in Nat, l \in Nat : HashParts(m, k, x, l)
<1>1. PICK B \in Nat \ {0}, z \in Nat : B = HashBlock /\ z = Len(m)
  BY Params, LenProperties
<1>2. PICK k \in Nat, l \in 0..(B - 1) : z = k * B + l
  BY DivModNames
<1>3. PICK x \in Nat : x = k * B /\ z = x + l
  BY <1>2
<1>4. l \in Nat /\ l < B
  OBVIOUS
<1>5. HashParts(m, k, x, l)
  BY <1>1, <1>3, <1>4 DEF HashParts, At
<1> QED
  BY <1>4, <1>5

\* The facts about the parts that the proofs use.
LEMMA HashPartsAre ==
  ASSUME NEW m \in Seq(Digit), NEW k \in Nat, NEW x \in Nat, NEW l \in Nat, HashParts(m, k, x, l)
  PROVE  /\ l \in 0..(HashBlock - 1) /\ HashBlock \in Nat \ {0} /\ At(x, k, HashBlock)
         /\ Len(m) = x + l /\ k * HashBlock <= Len(m) /\ Len(m) \div HashBlock = k
<1>1. PICK B \in Nat \ {0} : B = HashBlock
  BY Params
<1>2. l \in 0..(B - 1) /\ x = k * B /\ Len(m) = x + l
  BY <1>1 DEF HashParts, At
<1>3. (k * B + l) \div B = k
  BY <1>2, DivModOf
<1>4. x <= Len(m)
  BY <1>2
<1> QED
  BY <1>1, <1>2, <1>3, <1>4 DEF At

StbTail(m, k) == Num(Marked(m, HashBlock, k))

LEMMA StbTailType ==
  ASSUME NEW m \in Seq(Digit), NEW k \in Nat, NEW x \in Nat, NEW l \in Nat, HashParts(m, k, x, l)
  PROVE  StbTail(m, k) \in Nat /\ IsMarked(Marked(m, HashBlock, k), HashBlock, m, x, l)
         /\ Marked(m, HashBlock, k) \in [1..HashBlock -> Digit]
<1>1. l \in 0..(HashBlock - 1) /\ HashBlock \in Nat \ {0} /\ At(x, k, HashBlock) /\ Len(m) = x + l
  BY HashPartsAre
<1>2. IsMarked(Marked(m, HashBlock, k), HashBlock, m, x, l) /\ Marked(m, HashBlock, k) \in [1..HashBlock -> Digit]
  BY <1>1, MarkedIs
<1>3. \A i \in 1..HashBlock : Marked(m, HashBlock, k)[i] \in Digit
  BY <1>2
<1> QED
  BY <1>2, <1>3, NumType DEF StbTail

\* The inputs of g up to the padded block, then the bit length and the checksum.
StbChainOf(m, k) == [i \in 1..(k + 1) |-> <<Bits(i), EndNums(m, k, StbTail(m, k))[i]>>]
StbVal(s, m, k) ==
  <<s, StbChainOf(m, k) \o <<<<0, (Len(m) * BitsPerByte) % Modulus>>,
                             <<0, (MsgTotal(m, k) + StbTail(m, k)) % Modulus>>>>>>

LEMMA StbOfIs ==
  ASSUME NEW s, NEW m \in Seq(Digit), NEW k \in Nat, NEW x \in Nat, NEW l \in Nat, HashParts(m, k, x, l)
  PROVE  Stb!StreebogOf(s, m) = StbVal(s, m, k)
<1> DEFINE nums == [i \in 1..(k + 1) |-> Num(IF i <= k THEN Block(m, HashBlock, i) ELSE Marked(m, HashBlock, k))]
<1>1. Len(m) \div HashBlock = k /\ k * HashBlock <= Len(m)
  BY HashPartsAre
<1>2. nums = EndNums(m, k, StbTail(m, k))
  BY DEF EndNums, BlockNum, StbTail
<1>3. Total(EndNums(m, k, StbTail(m, k)), k + 1) = MsgTotal(m, k) + StbTail(m, k)
  BY <1>1, StbTailType, EndTotal
<1>4. Stb!StreebogOf(s, m) =
        <<s, [i \in 1..(k + 1) |-> <<Bits(i), nums[i]>>]
               \o <<<<0, (Len(m) * BitsPerByte) % Modulus>>, <<0, Total(nums, k + 1) % Modulus>>>>>>
  BY <1>1, StbNames DEF Stb!StreebogOf, Marked
<1> HIDE DEF nums
<1> QED
  BY <1>2, <1>3, <1>4 DEF StbVal, StbChainOf

\* Between Writes, what Sum returns is the hash of the message written (streebog.go:447-482).
LEMMA StbSum ==
  ASSUME StbI, stage = "idle"
  PROVE  Stb!Finalized = Stb!StreebogOf(size, msg)
<1>1. PICK k \in Nat : k = Len(h) /\ Layout(k) /\ StbChain(k)
  BY LenProperties DEF StbI, StbChain
<1>2. PICK B \in Nat \ {0}, x \in Nat, l \in 0..(HashBlock - 1), z \in Nat :
        /\ B = HashBlock /\ x = k * B /\ l = nbuf /\ z = Len(p) /\ l \in Nat /\ l < B
        /\ Len(msg) = x + l + z /\ Cut(msg, x, buf, l, p)
  BY <1>1, LayoutNumbers
<1>3. PICK m \in Seq(Digit) : m = msg
  BY <1>1 DEF Layout
<1>4. HashParts(m, k, x, l) /\ Reads(buf, l, m, x) /\ At(x, k, HashBlock)
  <2>1. z = 0
    BY <1>1, <1>2 DEF Layout
  <2>2. Len(m) = x + l
    BY <1>2, <1>3, <2>1
  <2>3. Reads(buf, l, m, x)
    BY <1>2, <1>3 DEF Cut, Reads
  <2> QED
    BY <1>2, <2>2, <2>3 DEF HashParts, At
<1>5. PICK v \in Nat : v = StbTail(m, k)
  BY <1>2, <1>4, StbTailType
<1>6. Stb!Number(Stb!Padded) = v
  <2>1. IsMarked(Marked(m, HashBlock, k), HashBlock, m, x, l)
    BY <1>2, <1>4, StbTailType
  <2>2. ASSUME NEW i \in 1..HashBlock PROVE Stb!Padded[i] = Marked(m, HashBlock, k)[i]
    <3>1. Marked(m, HashBlock, k)[i] = MarkedByte(m, x, l, i)
      BY <2>1 DEF IsMarked
    <3>2. Stb!Padded[i] = IF i <= l THEN buf[i] ELSE IF i = l + 1 THEN 1 ELSE 0
      BY <1>2 DEF Stb!Padded
    <3>3. i <= l => buf[i] = m[x + i]
      <4>1. i <= l => i \in 1..l
        OBVIOUS
      <4> QED
        BY <1>4, <4>1 DEF Reads
    <3> QED
      BY <3>1, <3>2, <3>3 DEF MarkedByte
  <2>3. Num(Stb!Padded) = Num(Marked(m, HashBlock, k))
    <3>1. PICK a, b : a = Stb!Padded /\ b = Marked(m, HashBlock, k)
      OBVIOUS
    <3>2. Num(a) = Num(b)
      BY <2>2, <3>1, NumSame
    <3> QED
      BY <3>1, <3>2
  <2> QED
    BY <1>5, <2>3, StbNames DEF StbTail
<1>7. PICK M \in Nat \ {0} : M = Modulus
  BY Params
<1>8. k * HashBlock <= Len(m)
  BY <1>2, <1>4, HashPartsAre
<1>9. /\ Bits(k + 1) \in Nat /\ n = Bits(k + 1)
      /\ (n + nbuf * BitsPerByte) % Modulus = (Len(m) * BitsPerByte) % Modulus
  <2>1. n = Bits(k + 1)
    BY <1>1 DEF StbChain
  <2>2. Bits(k + 1) \in Nat /\ (Bits(k + 1) + l * BitsPerByte) % Modulus = ((x + l) * BitsPerByte) % Modulus
    BY <1>2, <1>4, BitsAdd
  <2>3. Len(m) = x + l /\ nbuf = l
    BY <1>2, <1>4 DEF HashParts
  <2> QED
    BY <2>1, <2>2, <2>3
<1>10. (sum + v) % Modulus = (MsgTotal(m, k) + v) % Modulus
  <2>1. PICK a \in Nat : a = MsgTotal(m, k)
    BY <1>8, MsgTotalType
  <2>2. sum = a % M
    BY <1>1, <1>3, <1>7, <2>1 DEF StbChain
  <2>3. ((a % M) + v) % M = (a + v) % M
    BY ModAdd
  <2> QED
    BY <1>7, <2>1, <2>2, <2>3
<1>11. PICK g, w : g = (Len(m) * BitsPerByte) % Modulus /\ w = (MsgTotal(m, k) + v) % Modulus
  OBVIOUS
<1>12. g \in Nat /\ w \in Nat
  <2>1. PICK a, b \in Nat : a = Len(m) * BitsPerByte /\ b = MsgTotal(m, k) + v
    <3>1. Len(m) \in Nat /\ BitsPerByte \in Nat /\ MsgTotal(m, k) \in Nat
      BY <1>8, Params, LenProperties, MsgTotalType
    <3>2. Len(m) * BitsPerByte \in Nat /\ MsgTotal(m, k) + v \in Nat
      BY <3>1
    <3> QED
      BY <3>2
  <2>2. a % M \in 0..(M - 1)
    BY DivModBasic
  <2>3. b % M \in 0..(M - 1)
    BY DivModBasic
  <2> QED
    BY <1>7, <1>11, <2>1, <2>2, <2>3
<1>13. Stb!Finalized = <<size, h \o <<<<n, v>>, <<0, g>>, <<0, w>>>>>>
  BY <1>6, <1>9, <1>10, <1>11, StbNames DEF Stb!Finalized, Stb!add512
<1>14. PICK S : S = Nat \X Nat
  OBVIOUS
<1>15. PICK s \in Seq(S), e1, e2, e3 \in S : s = h /\ e1 = <<n, v>> /\ e2 = <<0, g>> /\ e3 = <<0, w>>
  BY <1>1, <1>9, <1>12, <1>14 DEF StbChain
<1>16. Tripled(s, e1, e2, e3) = Ended(Append(s, e1), e2, e3)
  BY SplitThree
<1>17. Append(s, e1) = StbChainOf(m, k)
  <2>1. PICK t : t = Append(s, e1)
    OBVIOUS
  <2>2. t \in Seq(S) /\ Len(t) = k + 1 /\ t[k + 1] = e1 /\ \A i \in 1..k : t[i] = s[i]
    <3>1. Len(s) = k
      BY <1>1, <1>15
    <3> QED
      BY <2>1, <3>1, AppendProperties
  <2>3. PICK f \in [1..(k + 1) -> S] : f = t
    BY <2>2, LenProperties
  <2>4. ASSUME NEW i \in 1..(k + 1) PROVE f[i] = <<Bits(i), EndNums(m, k, v)[i]>>
    <3>1. CASE i <= k
      <4>1. i \in 1..k
        BY <3>1
      <4>2. h[i] = <<Bits(i), BlockNum(m, i)>>
        BY <1>1, <1>3, <4>1 DEF StbChain
      <4>3. EndNums(m, k, v)[i] = BlockNum(m, i)
        BY <3>1 DEF EndNums
      <4> QED
        BY <1>15, <2>2, <2>3, <4>1, <4>2, <4>3
    <3>2. CASE ~(i <= k)
      <4>1. i = k + 1
        BY <3>2
      <4>2. EndNums(m, k, v)[i] = v
        BY <3>2 DEF EndNums
      <4> QED
        BY <1>9, <1>15, <2>2, <2>3, <4>1, <4>2
    <3> QED
      BY <3>1, <3>2
  <2>5. f = [i \in 1..(k + 1) |-> <<Bits(i), EndNums(m, k, v)[i]>>]
    BY <2>4
  <2> QED
    BY <1>5, <2>1, <2>3, <2>5 DEF StbChainOf
<1>18. Stb!StreebogOf(size, m) = <<size, StbChainOf(m, k) \o <<<<0, g>>, <<0, w>>>>>>
  <2>1. Stb!StreebogOf(size, m) = StbVal(size, m, k)
    BY <1>2, <1>4, StbOfIs
  <2> QED
    BY <1>5, <1>11, <2>1 DEF StbVal
<1> QED
  BY <1>3, <1>13, <1>15, <1>16, <1>17, <1>18 DEF Two, Three, Ended, Tripled

\* Blocks with equal numbers are equal.
LEMMA BlocksFromNums ==
  ASSUME NEW m \in Seq(Digit), NEW w \in Seq(Digit), NEW k \in Nat,
         k * HashBlock <= Len(m), k * HashBlock <= Len(w),
         \A j \in 1..k : BlockNum(m, j) = BlockNum(w, j)
  PROVE  SameBlocks(m, w, HashBlock, k)
<1>1. PICK B \in Nat \ {0}, y \in Nat, u \in Nat, v \in Nat :
        B = HashBlock /\ y = k * B /\ y <= u /\ y <= v /\ u = Len(m) /\ v = Len(w)
  <2>1. HashBlock \in Nat \ {0} /\ Len(m) \in Nat /\ Len(w) \in Nat
    BY Params, LenProperties
  <2>2. k * HashBlock \in Nat
    BY <2>1
  <2> QED
    BY <2>1, <2>2
<1>2. ASSUME NEW j \in 1..k PROVE \A i \in 1..B : Block(m, B, j)[i] = Block(w, B, j)[i]
  <2>1. PICK x \in Nat : x = (j - 1) * B /\ x + B <= k * B
    BY BlockStart
  <2>2. At(x, j - 1, B) /\ x + B <= Len(m) /\ x + B <= Len(w) /\ j \in Nat \ {0}
    BY <1>1, <2>1 DEF At
  <2>3. PICK f \in [1..B -> Digit] : f = Block(m, B, j)
    BY <2>2, BlockReads
  <2>4. PICK g \in [1..B -> Digit] : g = Block(w, B, j)
    BY <2>2, BlockReads
  <2>5. Num(f) = Num(g)
    BY <1>1, <2>3, <2>4 DEF BlockNum
  <2>6. \A i \in 1..HashBlock : f[i] \in Digit /\ g[i] \in Digit
    BY <1>1
  <2>7. \A i \in 1..HashBlock : f[i] = g[i]
    BY <2>5, <2>6, NumInjective
  <2> QED
    BY <1>1, <2>3, <2>4, <2>7
<1> QED
  BY <1>1, <1>2 DEF SameBlocks

\* Equal hash inputs are of equal messages: the padding carries a marker.
LEMMA StbInjective ==
  ASSUME NEW s, NEW m \in Seq(Digit), NEW w \in Seq(Digit), Stb!StreebogOf(s, m) = Stb!StreebogOf(s, w)
  PROVE  m = w
<1>1. PICK k \in Nat, x \in Nat, l \in Nat : HashParts(m, k, x, l)
  BY HashPartsExist
<1>2. PICK q \in Nat, y \in Nat, g \in Nat : HashParts(w, q, y, g)
  BY HashPartsExist
<1>3. StbVal(s, m, k) = StbVal(s, w, q)
  BY <1>1, <1>2, StbOfIs
<1>4. PICK S : S = Nat \X Nat
  OBVIOUS
<1>5. PICK a, b, c, d \in S :
        Ended(StbChainOf(m, k), a, b) = Ended(StbChainOf(w, q), c, d)
  <2>1. ASSUME NEW v \in Seq(Digit), NEW t \in Nat, NEW o \in Nat, NEW r \in Nat, HashParts(v, t, o, r)
        PROVE  /\ <<0, (Len(v) * BitsPerByte) % Modulus>> \in Nat \X Nat
               /\ <<0, (MsgTotal(v, t) + StbTail(v, t)) % Modulus>> \in Nat \X Nat
    <3>1. PICK M \in Nat \ {0} : M = Modulus
      BY Params
    <3>2. t * HashBlock <= Len(v) /\ StbTail(v, t) \in Nat
      BY <2>1, HashPartsAre, StbTailType
    <3>3. Len(v) \in Nat /\ BitsPerByte \in Nat /\ MsgTotal(v, t) \in Nat
      BY <3>2, Params, LenProperties, MsgTotalType
    <3>4. PICK e, f \in Nat : e = Len(v) * BitsPerByte /\ f = MsgTotal(v, t) + StbTail(v, t)
      <4>1. Len(v) * BitsPerByte \in Nat /\ MsgTotal(v, t) + StbTail(v, t) \in Nat
        BY <3>2, <3>3
      <4> QED
        BY <4>1
    <3>5. e % M \in 0..(M - 1)
      BY DivModBasic
    <3>6. f % M \in 0..(M - 1)
      BY DivModBasic
    <3> QED
      BY <3>1, <3>4, <3>5, <3>6
  <2>2. /\ <<0, (Len(m) * BitsPerByte) % Modulus>> \in Nat \X Nat
        /\ <<0, (MsgTotal(m, k) + StbTail(m, k)) % Modulus>> \in Nat \X Nat
    BY <1>1, <2>1
  <2>3. /\ <<0, (Len(w) * BitsPerByte) % Modulus>> \in Nat \X Nat
        /\ <<0, (MsgTotal(w, q) + StbTail(w, q)) % Modulus>> \in Nat \X Nat
    BY <1>2, <2>1
  <2> QED
    BY <1>3, <1>4, <2>2, <2>3 DEF StbVal, Two, Ended
<1>6. ASSUME NEW v \in Seq(Digit), NEW t \in Nat, NEW o \in Nat, NEW r \in Nat, HashParts(v, t, o, r)
      PROVE  StbChainOf(v, t) \in Seq(Nat \X Nat) /\ DOMAIN StbChainOf(v, t) = 1..(t + 1)
  <2>1. t * HashBlock <= Len(v) /\ StbTail(v, t) \in Nat
    BY <1>6, HashPartsAre, StbTailType
  <2>2. EndNums(v, t, StbTail(v, t)) \in [1..(t + 1) -> Nat]
    BY <2>1, EndTotal
  <2>3. ASSUME NEW i \in 1..(t + 1) PROVE Bits(i) \in Nat
    <3>1. PICK j \in Nat : j = i - 1 /\ j + 1 = i
      BY <2>3
    <3>2. PICK e \in Nat : At(e, j, HashBlock)
      <4>1. j * HashBlock \in Nat
        BY Params
      <4> QED
        BY <4>1 DEF At
    <3> QED
      BY <3>1, <3>2, BitsAdd
  <2>4. StbChainOf(v, t) \in [1..(t + 1) -> Nat \X Nat]
    BY <2>2, <2>3 DEF StbChainOf
  <2>5. t + 1 \in Nat
    OBVIOUS
  <2> QED
    BY <2>4, <2>5, FcnSeq
<1>7. StbChainOf(m, k) = StbChainOf(w, q)
  <2>1. PICK e, f \in Seq(S) : e = StbChainOf(m, k) /\ f = StbChainOf(w, q)
    BY <1>1, <1>2, <1>4, <1>6
  <2>2. Ended(e, a, b) = Ended(f, c, d)
    BY <1>5, <2>1
  <2>3. e = f
    BY <2>2, JoinInjective
  <2> QED
    BY <2>1, <2>3
<1>8. k = q
  <2>1. DOMAIN StbChainOf(m, k) = 1..(k + 1) /\ DOMAIN StbChainOf(w, q) = 1..(q + 1)
    BY DEF StbChainOf
  <2>2. 1..(k + 1) = 1..(q + 1)
    BY <1>7, <2>1
  <2> QED
    BY <2>2
<1>9. ASSUME NEW i \in 1..(k + 1)
      PROVE  EndNums(m, k, StbTail(m, k))[i] = EndNums(w, k, StbTail(w, k))[i]
  <2>1. StbChainOf(m, k)[i] = <<Bits(i), EndNums(m, k, StbTail(m, k))[i]>>
    BY DEF StbChainOf
  <2>2. StbChainOf(w, k)[i] = <<Bits(i), EndNums(w, k, StbTail(w, k))[i]>>
    BY DEF StbChainOf
  <2> QED
    BY <1>7, <1>8, <2>1, <2>2
<1>10. StbTail(m, k) = StbTail(w, k)
  <2>1. k + 1 \in 1..(k + 1) /\ ~(k + 1 <= k)
    OBVIOUS
  <2>2. /\ EndNums(m, k, StbTail(m, k))[k + 1] = StbTail(m, k)
        /\ EndNums(w, k, StbTail(w, k))[k + 1] = StbTail(w, k)
    BY <2>1 DEF EndNums
  <2> QED
    BY <1>9, <2>1, <2>2
<1>11. ASSUME NEW j \in 1..k PROVE BlockNum(m, j) = BlockNum(w, j)
  <2>1. j \in 1..(k + 1) /\ j <= k
    OBVIOUS
  <2>2. /\ EndNums(m, k, StbTail(m, k))[j] = BlockNum(m, j)
        /\ EndNums(w, k, StbTail(w, k))[j] = BlockNum(w, j)
    BY <2>1 DEF EndNums
  <2> QED
    BY <1>9, <2>1, <2>2
<1>12. HashParts(w, k, x, g)
  BY <1>1, <1>2, <1>8 DEF HashParts, At
<1>13. /\ l \in 0..(HashBlock - 1) /\ HashBlock \in Nat \ {0} /\ At(x, k, HashBlock)
       /\ Len(m) = x + l /\ k * HashBlock <= Len(m)
  BY <1>1, HashPartsAre
<1>14. g \in 0..(HashBlock - 1) /\ Len(w) = x + g /\ k * HashBlock <= Len(w)
  BY <1>12, HashPartsAre
<1>15. l = g /\ SameFrom(m, w, x, l)
  <2>1. PICK f, e \in [1..HashBlock -> Digit] :
          /\ f = Marked(m, HashBlock, k) /\ e = Marked(w, HashBlock, k)
          /\ IsMarked(f, HashBlock, m, x, l) /\ IsMarked(e, HashBlock, w, x, g)
    BY <1>1, <1>12, StbTailType
  <2>2. Num(f) = Num(e)
    BY <1>10, <2>1 DEF StbTail
  <2>3. \A i \in 1..HashBlock : f[i] \in Digit /\ e[i] \in Digit
    OBVIOUS
  <2>4. \A i \in 1..HashBlock : f[i] = e[i]
    BY <2>2, <2>3, NumInjective
  <2> QED
    BY <1>13, <1>14, <2>1, <2>4, MarkedInjective
<1>16. SameBlocks(m, w, HashBlock, k)
  BY <1>11, <1>13, <1>14, BlocksFromNums
<1> QED
  BY <1>13, <1>14, <1>15, <1>16, SameMessage

-----------------------------------------------------------------------------
(* GOST R 34.11-94 *)

R94Chain(k) ==
  /\ h \in Seq(Nat) /\ Len(h) = k
  /\ \A i \in 1..k : h[i] = BlockNum(msg, i)
  /\ len = k * HashBlock * BitsPerByte /\ sum = MsgTotal(msg, k) % Modulus

R94I == Layout(Len(h)) /\ R94Chain(Len(h))

LEMMA R94Names ==
  /\ \A b : R94!Number(b) = Num(b)
  /\ \A d, k : R94!Total(d, k) = Total(d, k)
  /\ \A m, b, i : R94!Block(m, b, i) = Block(m, b, i)
  /\ \A x, y : R94!addMod(x, y) = (x + y) % Modulus
  /\ \A m, x, b, l, r : R94!Cut(m, x, b, l, r) = Cut(m, x, b, l, r)
  /\ \A b, from, d : R94!Copied(b, from, d) = HCopied(b, from, d)
  /\ \A s, b, z : R94!PadTo(s, b, z) = PadTo(s, b, z)
  /\ R94!Bytes = Digit
<1>1. \A b : R94!Number(b) = Num(b)
  BY DEF R94!Number, R94!NumberOf, R94!Total, Num, NumberOf, Total
<1>2. \A d, k : R94!Total(d, k) = Total(d, k)
  BY DEF R94!Total, Total
<1>3. \A m, b, i : R94!Block(m, b, i) = Block(m, b, i)
  BY DEF R94!Block, Block
<1>4. \A x, y : R94!addMod(x, y) = (x + y) % Modulus
  BY DEF R94!addMod, Modulus
<1>5. \A m, x, b, l, r : R94!Cut(m, x, b, l, r) = Cut(m, x, b, l, r)
  BY DEF R94!Cut, Cut
<1>6. \A b, from, d : R94!Copied(b, from, d) = HCopied(b, from, d)
  BY DEF R94!Copied, HCopied
<1>7. \A s, b, z : R94!PadTo(s, b, z) = PadTo(s, b, z)
  BY DEF R94!PadTo, PadTo
<1>8. R94!Bytes = Digit
  BY DEF R94!Bytes, Digit
<1> QED
  BY <1>1, <1>2, <1>3, <1>4, <1>5, <1>6, <1>7, <1>8

\* processBlock takes one block (gostr341194.go:329-342).
LEMMA R94Absorb ==
  ASSUME NEW k \in Nat, NEW c, R94Chain(k), msg \in Seq(Digit), (k + 1) * HashBlock <= Len(msg),
         BlockNum(msg, k + 1) = Num(c), R94!processBlock(c), msg' = msg
  PROVE  R94Chain(k + 1)'
<1>1. PICK B \in Nat \ {0}, M \in Nat \ {0}, y \in Nat : B = HashBlock /\ M = Modulus /\ y = BitsPerByte
  BY Params
<1>2. PICK q \in Nat : q = k + 1 /\ q \in 1..q /\ q * HashBlock <= Len(msg)
  OBVIOUS
<1>3. PICK m \in Seq(Digit) : m = msg
  OBVIOUS
<1>4. k * HashBlock <= Len(m)
  <2>1. q * B = k * B + B
    BY <1>2
  <2>2. PICK g \in Nat : g = k * B /\ g + B <= Len(m)
    BY <1>1, <1>2, <1>3, <2>1
  <2>3. Len(m) \in Nat
    BY LenProperties
  <2> QED
    BY <1>1, <2>2, <2>3
<1>5. PICK a, v \in Nat : a = MsgTotal(m, k) /\ v = BlockNum(m, q) /\ MsgTotal(m, q) = a + v
  BY <1>2, <1>3, <1>4, MsgTotalType, BlockNumType, MsgTotalNext
<1>6. /\ h' = Append(h, v) /\ len' = len + HashBlock * BitsPerByte
      /\ sum' = (sum + v) % Modulus
  BY <1>2, <1>3, <1>5, R94Names DEF R94!processBlock
<1>7. len' = q * HashBlock * BitsPerByte
  <2>1. len = k * B * y
    BY <1>1 DEF R94Chain
  <2>2. (k + 1) * B = k * B + B
    OBVIOUS
  <2>3. PICK g \in Nat : g = k * B
    OBVIOUS
  <2>4. (g + B) * y = g * y + B * y
    OBVIOUS
  <2> QED
    BY <1>1, <1>2, <1>6, <2>1, <2>2, <2>3, <2>4
<1>8. sum' = MsgTotal(m, q) % Modulus
  <2>1. sum = a % M
    BY <1>1, <1>3, <1>5 DEF R94Chain
  <2>2. ((a % M) + v) % M = (a + v) % M
    BY ModAdd
  <2> QED
    BY <1>1, <1>5, <1>6, <2>1, <2>2
<1>9. PICK s \in Seq(Nat) : s = h /\ Len(s) = k
  BY DEF R94Chain
<1>10. PICK t : t = Append(s, v)
  OBVIOUS
<1>11. t \in Seq(Nat) /\ Len(t) = k + 1 /\ t[k + 1] = v /\ \A i \in 1..k : t[i] = s[i]
  BY <1>9, <1>10, AppendProperties
<1>12. ASSUME NEW i \in 1..q PROVE h'[i] = BlockNum(m, i)
  <2>1. i \in 1..k \/ i = q
    BY <1>2
  <2>2. CASE i \in 1..k
    BY <1>3, <1>6, <1>9, <1>10, <1>11, <2>2 DEF R94Chain
  <2>3. CASE i = q
    BY <1>2, <1>5, <1>6, <1>9, <1>10, <1>11, <2>3
  <2> QED
    BY <2>1, <2>2, <2>3
<1>13. h' \in Seq(Nat) /\ Len(h') = q
  BY <1>2, <1>6, <1>9, <1>10, <1>11
<1> QED
  BY <1>2, <1>3, <1>7, <1>8, <1>12, <1>13 DEF R94Chain

\* A Write leaves the absorbed blocks alone.
LEMMA R94Extend ==
  ASSUME NEW k \in Nat, R94Chain(k), Layout(k), NEW d \in Seq(Digit), msg' = msg \o d, UNCHANGED <<h, sum, len>>
  PROVE  R94Chain(k)'
<1>1. PICK m \in Seq(Digit) : m = msg /\ k * HashBlock <= Len(m)
  BY LayoutLength DEF Layout
<1>2. \A i \in 1..k : BlockNum(m \o d, i) = BlockNum(m, i)
  BY <1>1, Steady
<1>3. MsgTotal(m \o d, k) = MsgTotal(m, k)
  BY <1>1, Steady
<1> QED
  BY <1>1, <1>2, <1>3 DEF R94Chain

LEMMA R94Stay ==
  ASSUME NEW k \in Nat, R94Chain(k), msg' = msg, UNCHANGED <<h, sum, len>>
  PROVE  R94Chain(k)'
  BY DEF R94Chain

LEMMA R94Nothing ==
  /\ 0 * HashBlock * BitsPerByte = 0 /\ MsgTotal(<<>>, 0) % Modulus = 0
  /\ <<>> \in Seq(Nat) /\ Len(<<>>) = 0
<1>1. PICK B \in Nat, b \in Nat : B = HashBlock /\ b = BitsPerByte
  BY Params
<1>2. 0 * B * b = 0
  OBVIOUS
<1> QED
  BY <1>1, <1>2, StbNothing, EmptySeq

\* Inv of GostR341194, in the terms of this module.
LEMMA R94Sums ==
  ASSUME NEW k \in Nat, NEW s \in Seq(Nat), Len(s) = k, NEW m, \A i \in 1..k : s[i] = BlockNum(m, i)
  PROVE  Total(s, k) = MsgTotal(m, k)
<1>1. PICK f : f = MsgNums(m, k)
  OBVIOUS
<1>2. \A i \in 1..k : s[i] \in Nat /\ s[i] = f[i]
  BY <1>1, ElementOfSeq DEF MsgNums
<1>3. Total(s, k) = Total(f, k)
  BY <1>2, TotalSame
<1> QED
  BY <1>1, <1>3 DEF MsgTotal

LEMMA R94InvIs == (R94!Inv <=> R94I) /\ (R94!Inv' <=> R94I')
<1> DEFINE Core(k) == /\ Layout(k) /\ h \in Seq(Nat)
                      /\ \A i \in 1..k : h[i] = BlockNum(msg, i)
                      /\ len = k * HashBlock * BitsPerByte
           Sums(k) == sum = Total(h, k) % Modulus
<1>1. R94!Inv <=> Core(Len(h)) /\ Sums(Len(h))
  BY R94Names DEF R94!Inv, R94!TypeOK, Layout, BlockNum, Modulus
<1>2. R94!Inv' <=> Core(Len(h))' /\ Sums(Len(h))'
  BY R94Names DEF R94!Inv, R94!TypeOK, Layout, BlockNum, Modulus
<1>3. ASSUME Core(Len(h)) PROVE Sums(Len(h)) <=> sum = MsgTotal(msg, Len(h)) % Modulus
  <2>1. PICK k \in Nat : k = Len(h)
    BY <1>3, LenProperties
  <2>2. h \in Seq(Nat) /\ \A i \in 1..k : h[i] = BlockNum(msg, i)
    BY <1>3, <2>1
  <2>3. Total(h, k) = MsgTotal(msg, k)
    BY <2>1, <2>2, R94Sums
  <2> QED
    BY <2>1, <2>3
<1>4. ASSUME Core(Len(h))' PROVE Sums(Len(h))' <=> sum' = (MsgTotal(msg, Len(h)) % Modulus)'
  <2>1. PICK k \in Nat : k = Len(h')
    BY <1>4, LenProperties
  <2>2. h' \in Seq(Nat) /\ \A i \in 1..k : h'[i] = BlockNum(msg', i)
    BY <1>4, <2>1
  <2>3. Total(h', k) = MsgTotal(msg', k)
    BY <2>1, <2>2, R94Sums
  <2> QED
    BY <2>1, <2>3
<1> QED
  BY <1>1, <1>2, <1>3, <1>4 DEF R94I, R94Chain

\* Every step of GOST R 34.11-94.
LEMMA R94Next ==
  ASSUME R94I, R94!Next
  PROVE  R94I'
<1>1. PICK k \in Nat : k = Len(h) /\ Layout(k) /\ R94Chain(k)
  BY LenProperties DEF R94I, R94Chain
<1>2. SUFFICES \E q \in Nat : Layout(q)' /\ R94Chain(q)'
  <2>1. ASSUME NEW q \in Nat, Layout(q)', R94Chain(q)' PROVE R94I'
    BY <2>1 DEF R94I, R94Chain
  <2> QED
    BY <2>1
<1>3. PICK B \in Nat \ {0}, l \in 0..(HashBlock - 1), z \in Nat :
        B = HashBlock /\ l = nbuf /\ z = Len(p) /\ l \in Nat /\ l < B
  BY <1>1, LayoutNumbers
<1>4. msg \in Seq(Digit) /\ p \in Seq(Digit)
  BY <1>1 DEF Layout
<1>5. CASE \E d \in R94!MessagesUpTo(R94!Bytes, MaxMsg) : R94!Write(d)
  <2>1. PICK d \in MessagesUpTo(Digit, MaxMsg) : R94!Write(d)
    BY <1>5 DEF R94!MessagesUpTo, MessagesUpTo, R94!Bytes, Digit
  <2>2. d \in Seq(Digit)
    BY DigestsAssumption, MessagesAre
  <2>3. /\ stage = "idle" /\ stage' = "fill" /\ p' = d /\ msg' = msg \o d
        /\ UNCHANGED <<h, sum, len, buf, nbuf>>
    BY <2>1 DEF R94!Write
  <2>4. Layout(k)'
    BY <1>1, <2>2, <2>3, LayoutWrite
  <2>5. R94Chain(k)'
    BY <1>1, <2>2, <2>3, R94Extend
  <2> QED
    BY <2>4, <2>5
<1>6. CASE R94!Fill
  <2>1. stage = "fill" /\ stage' = "blocks" /\ msg' = msg
    BY <1>6 DEF R94!Fill
  <2>2. CASE nbuf = 0
    <3>1. UNCHANGED <<h, sum, len, buf, nbuf, p>>
      BY <1>6, <2>2 DEF R94!Fill
    <3>2. Layout(k)'
      BY <1>1, <2>1, <2>2, <3>1, LayoutSame
    <3>3. R94Chain(k)'
      BY <1>1, <2>1, <3>1, R94Stay
    <3> QED
      BY <3>2, <3>3
  <2>3. CASE nbuf # 0
    <3> DEFINE t == IF Len(p) <= HashBlock - nbuf THEN Len(p) ELSE HashBlock - nbuf
    <3>1. /\ buf' = HCopied(buf, nbuf, p) /\ p' = SubSeq(p, t + 1, Len(p))
          /\ nbuf' = IF nbuf + t = HashBlock THEN 0 ELSE nbuf + t
          /\ IF nbuf + t = HashBlock THEN R94!processBlock(HCopied(buf, nbuf, p)) ELSE UNCHANGED <<h, sum, len>>
      BY <1>6, <2>3, R94Names DEF R94!Fill
    <3>2. PICK g \in Nat : g = t /\ g \in 0..Len(p) /\ (nbuf + g = HashBlock \/ (nbuf + g < HashBlock /\ g = Len(p)))
      <4>1. t \in 0..z /\ (l + t = B \/ (l + t < B /\ t = z))
        BY <1>3
      <4> HIDE DEF t
      <4> QED
        BY <1>3, <4>1
    <3> HIDE DEF t
    <3>3. CASE nbuf + g = HashBlock
      <4>1. /\ nbuf' = 0 /\ p' = SubSeq(p, g + 1, Len(p)) /\ R94!processBlock(HCopied(buf, nbuf, p))
        BY <3>1, <3>2, <3>3
      <4>2. /\ Layout(k + 1)' /\ (k + 1) * HashBlock <= Len(msg)
            /\ BlockNum(msg, k + 1) = Num(HCopied(buf, nbuf, p))
        BY <1>1, <2>1, <3>1, <3>2, <3>3, <4>1, LayoutFull
      <4>3. R94Chain(k + 1)'
        BY <1>1, <1>4, <2>1, <4>1, <4>2, R94Absorb
      <4> QED
        BY <4>2, <4>3
    <3>4. CASE ~(nbuf + g = HashBlock)
      <4>1. g = Len(p) /\ nbuf + g < HashBlock
        BY <3>2, <3>4
      <4>2. nbuf' = nbuf + g /\ p' = SubSeq(p, g + 1, Len(p)) /\ UNCHANGED <<h, sum, len>>
        BY <3>1, <3>2, <3>4
      <4>3. p' = <<>>
        BY <1>4, <3>2, <4>1, <4>2, NothingLeft
      <4>4. Layout(k)'
        BY <1>1, <2>1, <3>1, <4>1, <4>2, <4>3, LayoutKeep
      <4>5. R94Chain(k)'
        BY <1>1, <2>1, <4>2, R94Stay
      <4> QED
        BY <4>4, <4>5
    <3> QED
      BY <3>3, <3>4
  <2> QED
    BY <2>2, <2>3
<1>7. CASE R94!FullBlock
  <2>1. /\ stage = "blocks" /\ Len(p) >= HashBlock /\ R94!processBlock(SubSeq(p, 1, HashBlock))
        /\ p' = SubSeq(p, HashBlock + 1, Len(p)) /\ UNCHANGED <<buf, nbuf, stage, msg>>
    BY <1>7 DEF R94!FullBlock
  <2>2. /\ Layout(k + 1)' /\ (k + 1) * HashBlock <= Len(msg)
        /\ BlockNum(msg, k + 1) = Num(SubSeq(p, 1, HashBlock))
    BY <1>1, <2>1, LayoutBlock
  <2>3. R94Chain(k + 1)'
    BY <1>1, <1>4, <2>1, <2>2, R94Absorb
  <2> QED
    BY <2>2, <2>3
<1>8. CASE R94!Remainder
  <2>1. stage = "blocks" /\ stage' = "idle" /\ p' = <<>> /\ Len(p) < HashBlock /\ UNCHANGED <<h, sum, len, msg>>
    BY <1>8 DEF R94!Remainder
  <2>2. R94Chain(k)'
    BY <1>1, <2>1, R94Stay
  <2>3. CASE Len(p) > 0
    <3>1. nbuf = 0
      <4>1. p # <<>>
        BY <2>3
      <4>2. ~(nbuf > 0)
        BY <1>1, <2>1, <4>1 DEF Layout
      <4> QED
        BY <1>3, <4>2
    <3>2. buf' = HCopied(buf, nbuf, p) /\ nbuf' = nbuf + z /\ nbuf + z < HashBlock
      <4>1. buf' = HCopied(buf, 0, p) /\ nbuf' = Len(p)
        BY <1>8, <2>3, R94Names DEF R94!Remainder
      <4> QED
        BY <1>3, <2>1, <3>1, <4>1
    <3>3. Layout(k)'
      BY <1>1, <1>3, <2>1, <3>2, LayoutKeep
    <3> QED
      BY <2>2, <3>3
  <2>4. CASE ~(Len(p) > 0)
    <3>1. p = <<>> /\ UNCHANGED <<buf, nbuf>>
      <4>1. Len(p) = 0
        BY <1>3, <2>4
      <4> QED
        BY <1>4, <1>8, <2>4, <4>1, EmptySeq DEF R94!Remainder
    <3>2. Layout(k)'
      BY <1>1, <2>1, <3>1, LayoutSame
    <3> QED
      BY <2>2, <3>2
  <2> QED
    BY <2>3, <2>4
<1>9. CASE R94!Sum
  <2>1. UNCHANGED <<h, sum, len, buf, nbuf, stage, p, msg>>
    BY <1>9 DEF R94!Sum
  <2> QED
    BY <1>1, <2>1, LayoutSame, R94Stay
<1>10. CASE R94!Reset
  <2>1. /\ h' = <<>> /\ sum' = 0 /\ len' = 0 /\ buf' = [i \in 1..HashBlock |-> 0] /\ nbuf' = 0
        /\ msg' = <<>> /\ stage' = "idle" /\ p' = <<>>
    BY <1>1, <1>10 DEF R94!Reset, R94!ZeroBlock, Layout
  <2>2. Layout(0)'
    BY <2>1, LayoutReset
  <2>3. R94Chain(0)'
    BY <2>1, R94Nothing DEF R94Chain
  <2> QED
    BY <2>2, <2>3
<1> QED
  BY <1>5, <1>6, <1>7, <1>8, <1>9, <1>10 DEF R94!Next

-----------------------------------------------------------------------------
(* The GOST R 34.11-94 input of a message *)

\* The message filled up with zeros to k blocks.
Filled(m, k) == PadTo(m, k * HashBlock, 0)
IsFilled(f, m, x) ==
  /\ f \in Seq(Digit) /\ Len(f) = x
  /\ \A i \in 1..x : f[i] = IF i <= Len(m) THEN m[i] ELSE 0

LEMMA FilledIs ==
  ASSUME NEW m \in Seq(Digit), NEW k \in Nat, NEW x \in Nat, At(x, k, HashBlock)
  PROVE  IsFilled(Filled(m, k), m, x)
<1>1. PICK f : f = Filled(m, k)
  OBVIOUS
<1>2. f = [i \in 1..x |-> IF i <= Len(m) THEN m[i] ELSE 0]
  BY <1>1 DEF Filled, PadTo, At
<1>3. ASSUME NEW i \in 1..x PROVE (IF i <= Len(m) THEN m[i] ELSE 0) \in Digit
  <2>1. i <= Len(m) => i \in 1..Len(m)
    BY LenProperties
  <2>2. 0 \in Digit
    BY Params DEF Digit
  <2> QED
    BY <2>1, <2>2, ElementOfSeq
<1>4. f \in [1..x -> Digit]
  BY <1>2, <1>3
<1>5. f \in Seq(Digit) /\ Len(f) = x
  BY <1>4, FcnSeq
<1> QED
  BY <1>1, <1>2, <1>5 DEF IsFilled

\* The number of blocks, rounded up.
LEMMA RoundUp ==
  ASSUME NEW m \in Seq(Digit), NEW q \in Nat, NEW x \in Nat, NEW l \in Nat, HashParts(m, q, x, l)
  PROVE  (Len(m) + HashBlock - 1) \div HashBlock = IF l = 0 THEN q ELSE q + 1
<1>1. PICK B \in Nat \ {0} : B = HashBlock
  BY Params
<1>2. PICK z \in Nat : z = Len(m) /\ z = x + l /\ l < B /\ x = q * B
  BY <1>1 DEF HashParts, At
<1>3. CASE l = 0
  <2>1. z + B - 1 = q * B + (B - 1) /\ B - 1 \in 0..(B - 1)
    BY <1>2, <1>3
  <2>2. (q * B + (B - 1)) \div B = q
    BY <2>1, DivModOf
  <2> QED
    BY <1>1, <1>2, <1>3, <2>1, <2>2
<1>4. CASE l # 0
  <2>1. PICK g \in Nat : g = q + 1 /\ g * B = x + B
    <3>1. q + 1 \in Nat /\ (q + 1) * B = q * B + B
      OBVIOUS
    <3> QED
      BY <1>2, <3>1
  <2>2. z + B - 1 = g * B + (l - 1) /\ l - 1 \in 0..(B - 1)
    BY <1>2, <1>4, <2>1
  <2>3. (g * B + (l - 1)) \div B = g
    BY <2>2, DivModOf
  <2> QED
    BY <1>1, <1>2, <1>4, <2>1, <2>2, <2>3
<1> QED
  BY <1>3, <1>4

\* The blocks of the filled message, its bit length and its checksum.
R94Blocks(m, k) == IF m = <<>> THEN <<0>> ELSE MsgNums(Filled(m, k), k)
R94Val(m, k) == Ended(R94Blocks(m, k), Len(m) * BitsPerByte, MsgTotal(Filled(m, k), k) % Modulus)

LEMMA R94OfIs ==
  ASSUME NEW m, NEW k, k = (Len(m) + HashBlock - 1) \div HashBlock
  PROVE  R94!R94Of(m) = R94Val(m, k)
<1> DEFINE nums == [i \in 1..k |-> Num(Block(Filled(m, k), HashBlock, i))]
<1>1. nums = MsgNums(Filled(m, k), k)
  BY DEF MsgNums, BlockNum
<1>2. R94!R94Of(m) = (IF m = <<>> THEN <<0>> ELSE nums) \o <<Len(m) * BitsPerByte, Total(nums, k) % Modulus>>
  BY R94Names DEF R94!R94Of, Filled, Modulus
<1> HIDE DEF nums
<1> QED
  BY <1>1, <1>2 DEF R94Val, R94Blocks, Ended, Two, MsgTotal

\* A message of whole blocks is not filled.
LEMMA FilledWhole ==
  ASSUME NEW m \in Seq(Digit), NEW q \in Nat, NEW x \in Nat, HashParts(m, q, x, 0)
  PROVE  Filled(m, q) = m
<1>1. At(x, q, HashBlock) /\ Len(m) = x
  BY DEF HashParts
<1>2. PICK f : f = Filled(m, q)
  OBVIOUS
<1>3. f \in Seq(Digit) /\ Len(f) = x /\ \A i \in 1..x : f[i] = m[i]
  <2>1. IsFilled(f, m, x)
    BY <1>1, <1>2, FilledIs
  <2> QED
    BY <1>1, <2>1 DEF IsFilled
<1>4. f = m
  BY <1>1, <1>3, SeqEqual
<1> QED
  BY <1>2, <1>4

\* c is the tail, filled with zeros.
IsTailBlock(c, m, x, l) ==
  /\ c \in [1..HashBlock -> Digit]
  /\ \A i \in 1..HashBlock : c[i] = IF i <= l THEN m[x + i] ELSE 0

\* The last block of a message with a tail is the tail, filled with zeros.
LEMMA FilledTail ==
  ASSUME NEW m \in Seq(Digit), NEW q \in Nat, NEW x \in Nat, NEW l \in Nat \ {0}, HashParts(m, q, x, l),
         NEW c, IsTailBlock(c, m, x, l)
  PROVE  /\ MsgNums(Filled(m, q + 1), q + 1) = EndNums(m, q, Num(c))
         /\ MsgTotal(Filled(m, q + 1), q + 1) = MsgTotal(m, q) + Num(c)
         /\ Num(c) \in Nat
<1>1. PICK B \in Nat \ {0}, z \in Nat : B = HashBlock /\ z = Len(m) /\ z = x + l /\ l < B /\ At(x, q, HashBlock)
  BY Params, LenProperties DEF HashParts
<1>2. PICK k \in Nat : k = q + 1
  OBVIOUS
<1>3. At(x + B, k, HashBlock) /\ x + B \in Nat
  BY <1>1, <1>2, AtNext
<1>4. PICK f \in Seq(Digit) : /\ f = Filled(m, k) /\ Len(f) = x + B
                              /\ \A i \in 1..(x + B) : f[i] = IF i <= z THEN m[i] ELSE 0
  <2>1. PICK f : f = Filled(m, k)
    OBVIOUS
  <2>2. IsFilled(f, m, x + B)
    BY <1>3, <2>1, FilledIs
  <2> QED
    BY <1>1, <2>1, <2>2 DEF IsFilled
<1>5. PICK d \in Seq(Digit) : f = m \o d
  <2>1. PICK g \in Nat : z + g = x + B
    <3>1. B - l \in Nat /\ z + (B - l) = x + B
      BY <1>1
    <3> QED
      BY <3>1
  <2>2. 0 \in Digit
    BY Params DEF Digit
  <2>3. [i \in 1..g |-> 0] \in [1..g -> Digit]
    BY <2>2
  <2>4. PICK d \in Seq(Digit) : Len(d) = g /\ \A i \in 1..g : d[i] = 0
    <3>1. [i \in 1..g |-> 0] \in Seq(Digit) /\ Len([i \in 1..g |-> 0]) = g
      BY <2>3, FcnSeq
    <3> QED
      BY <3>1
  <2>5. PICK u : u = m \o d
    OBVIOUS
  <2>6. /\ u \in Seq(Digit) /\ Len(u) = Len(m) + Len(d)
        /\ \A i \in 1..Len(m) : u[i] = m[i]
        /\ \A i \in 1..Len(d) : u[Len(m) + i] = d[i]
    BY <2>5, Joined
  <2>7. /\ Len(u) = x + B /\ \A i \in 1..z : u[i] = m[i]
        /\ \A i \in 1..g : u[z + i] = 0
    BY <1>1, <2>1, <2>4, <2>6
  <2>8. ASSUME NEW i \in 1..(x + B) PROVE u[i] = f[i]
    <3>1. CASE i <= z
      <4>1. i \in 1..z
        BY <3>1
      <4> QED
        BY <1>4, <2>7, <3>1, <4>1
    <3>2. CASE ~(i <= z)
      <4>1. PICK j \in 1..g : i = z + j
        <5>1. i - z \in 1..g /\ i = z + (i - z)
          BY <2>1, <3>2
        <5> QED
          BY <5>1
      <4> QED
        BY <1>4, <2>7, <3>2, <4>1
    <3> QED
      BY <3>1, <3>2
  <2>9. u = f
    BY <1>4, <2>6, <2>7, <2>8, SeqEqual
  <2> QED
    BY <2>5, <2>9
<1>6. q * HashBlock <= Len(m)
  BY <1>1 DEF At
<1>7. \A i \in 1..q : BlockNum(f, i) = BlockNum(m, i)
  BY <1>5, <1>6, Steady
<1>8. MsgTotal(f, q) = MsgTotal(m, q)
  BY <1>5, <1>6, Steady
<1>9. BlockNum(f, k) = Num(c)
  <2>1. Cut(f, x, c, B, <<>>)
    <3>1. Len(<<>>) = 0 /\ Len(f) = x + B + 0
      BY <1>4
    <3>2. ASSUME NEW i \in 1..B PROVE c[i] = f[x + i]
      <4>1. x + i \in 1..(x + B) /\ (x + i <= z <=> i <= l)
        BY <1>1
      <4> QED
        BY <1>1, <1>4, <4>1 DEF IsTailBlock
    <3> QED
      BY <3>1, <3>2 DEF Cut
  <2>2. Cut(f, q * HashBlock, c, HashBlock, <<>>)
    BY <1>1, <2>1 DEF At
  <2>3. PICK e \in Seq(Digit) : e = <<>>
    BY EmptySeq
  <2>4. Cut(f, q * HashBlock, c, HashBlock, e)
    BY <2>2, <2>3
  <2>5. BlockNum(f, q + 1) = Num(c)
    BY <2>4, BlockDone
  <2> QED
    BY <1>2, <2>5
<1>10. k * HashBlock <= Len(f)
  BY <1>3, <1>4 DEF At
<1>11. MsgTotal(f, k) = MsgTotal(m, q) + Num(c)
  <2>1. MsgTotal(f, k) = MsgTotal(f, q) + BlockNum(f, k)
    BY <1>2, <1>10, MsgTotalNext
  <2> QED
    BY <1>8, <1>9, <2>1
<1>12. MsgNums(f, k) = EndNums(m, q, Num(c))
  <2>1. ASSUME NEW i \in 1..k PROVE BlockNum(f, i) = IF i <= q THEN BlockNum(m, i) ELSE Num(c)
    <3>1. IF i <= q THEN i \in 1..q ELSE i = k
      BY <1>2
    <3> QED
      BY <1>7, <1>9, <3>1
  <2> QED
    BY <1>2, <2>1 DEF MsgNums, EndNums
<1>13. Num(c) \in Nat
  <2>1. \A i \in 1..HashBlock : c[i] \in Digit
    BY DEF IsTailBlock
  <2> QED
    BY <2>1, NumType
<1> QED
  BY <1>2, <1>4, <1>11, <1>12, <1>13

\* Between Writes, what Sum returns is the hash of the message written (gostr341194.go:344-385).
LEMMA R94Sum ==
  ASSUME R94I, stage = "idle"
  PROVE  R94!Finalized = R94!R94Of(msg)
<1>1. PICK k \in Nat : k = Len(h) /\ Layout(k) /\ R94Chain(k)
  BY LenProperties DEF R94I, R94Chain
<1>2. PICK B \in Nat \ {0}, x \in Nat, l \in 0..(HashBlock - 1), z \in Nat :
        /\ B = HashBlock /\ x = k * B /\ l = nbuf /\ z = Len(p) /\ l \in Nat /\ l < B
        /\ Len(msg) = x + l + z /\ Cut(msg, x, buf, l, p)
  BY <1>1, LayoutNumbers
<1>3. PICK m \in Seq(Digit) : m = msg
  BY <1>1 DEF Layout
<1>4. HashParts(m, k, x, l) /\ Reads(buf, l, m, x) /\ Len(m) = x + l
  <2>1. z = 0
    BY <1>1, <1>2 DEF Layout
  <2>2. Len(m) = x + l
    BY <1>2, <1>3, <2>1
  <2>3. Reads(buf, l, m, x)
    BY <1>2, <1>3 DEF Cut, Reads
  <2> QED
    BY <1>2, <2>2, <2>3 DEF HashParts, At
<1>5. PICK s \in Seq(Nat) : s = h /\ Len(s) = k /\ \A i \in 1..k : s[i] = BlockNum(m, i)
  BY <1>1, <1>3 DEF R94Chain
<1>6. PICK M \in Nat \ {0}, y \in Nat \ {0} : M = Modulus /\ y = BitsPerByte
  BY Params
<1>7. len = x * y /\ len \in Nat /\ x * y + l * y = (x + l) * y /\ (x + l) * y \in Nat
  <2>1. x * y \in Nat /\ (x + l) * y = x * y + l * y /\ (x + l) * y \in Nat
    BY <1>2
  <2> QED
    BY <1>1, <1>2, <1>6, <2>1 DEF R94Chain
<1>8. PICK a \in Nat : a = MsgTotal(m, k) /\ sum = a % M /\ a % M \in 0..(M - 1)
  <2>1. k * HashBlock <= Len(m)
    BY <1>2, <1>4
  <2>2. MsgTotal(m, k) \in Nat
    BY <2>1, MsgTotalType
  <2>3. MsgTotal(m, k) % M \in 0..(M - 1)
    BY <2>2, DivModBasic
  <2> QED
    BY <1>1, <1>3, <1>6, <2>2, <2>3 DEF R94Chain
<1>9. CASE l > 0
  <2>1. PICK c : c = R94!TailBlock
    OBVIOUS
  <2>2. IsTailBlock(c, m, x, l)
    <3>1. PICK b \in [1..B -> Digit] : b = buf
      BY <1>1, <1>2 DEF Layout
    <3>2. b \in Seq(Digit) /\ Len(b) = B
      BY FcnSeq
    <3>3. l \in 0..Len(b)
      BY <1>2, <3>2
    <3>4. PICK u : u = SubSeq(b, 1, l)
      OBVIOUS
    <3>5. Len(u) = l /\ \A i \in 1..l : u[i] = b[i]
      BY <3>2, <3>3, <3>4, Prefix
    <3>6. c = [i \in 1..B |-> IF i <= l THEN u[i] ELSE 0]
      BY <1>2, <2>1, <3>1, <3>4, <3>5, R94Names DEF R94!TailBlock, PadTo
    <3>7. ASSUME NEW i \in 1..B
          PROVE  c[i] = (IF i <= l THEN m[x + i] ELSE 0) /\ c[i] \in Digit
      <4>1. CASE i <= l
        <5>1. i \in 1..l
          BY <1>2, <4>1
        <5>2. c[i] = b[i]
          BY <3>5, <3>6, <4>1, <5>1
        <5> QED
          BY <1>4, <3>1, <4>1, <5>1, <5>2 DEF Reads
      <4>2. CASE ~(i <= l)
        <5>1. 0 \in Digit
          BY Params DEF Digit
        <5> QED
          BY <3>6, <4>2, <5>1
      <4> QED
        BY <4>1, <4>2
    <3> QED
      BY <1>2, <3>6, <3>7 DEF IsTailBlock
  <2>3. PICK v \in Nat :
          /\ v = Num(c) /\ MsgTotal(Filled(m, k + 1), k + 1) = a + v
          /\ MsgNums(Filled(m, k + 1), k + 1) = EndNums(m, k, v)
    <3>1. l \in Nat \ {0}
      BY <1>2, <1>9
    <3> QED
      BY <1>4, <1>8, <2>2, <3>1, FilledTail
  <2>4. R94!Finalized = h \o <<v, len + nbuf * BitsPerByte, (sum + v) % Modulus>>
    <3>1. nbuf > 0
      BY <1>2, <1>9
    <3> QED
      BY <2>1, <2>3, <3>1, R94Names DEF R94!Finalized
  <2>5. PICK g, w \in Nat : g = Len(m) * BitsPerByte /\ g = len + nbuf * BitsPerByte
                            /\ w = (a + v) % M /\ w = (sum + v) % Modulus
    <3>1. ((a % M) + v) % M = (a + v) % M
      BY ModAdd
    <3>2. (a + v) % M \in 0..(M - 1)
      <4>1. a + v \in Nat
        OBVIOUS
      <4> QED
        BY <4>1, DivModBasic
    <3>3. Len(m) * BitsPerByte = len + nbuf * BitsPerByte /\ Len(m) * BitsPerByte \in Nat
      BY <1>2, <1>4, <1>6, <1>7
    <3> QED
      BY <1>6, <1>8, <3>1, <3>2, <3>3
  <2>6. R94!Finalized = Append(s, v) \o Two(g, w)
    <3>1. PICK S : S = Nat
      OBVIOUS
    <3>2. s \in Seq(S) /\ v \in S /\ g \in S /\ w \in S
      BY <3>1
    <3>3. Tripled(s, v, g, w) = Ended(Append(s, v), g, w)
      BY <3>2, SplitThree
    <3> QED
      BY <1>5, <2>4, <2>5, <3>3 DEF Three, Tripled, Ended
  <2>7. Append(s, v) = EndNums(m, k, v)
    <3>1. PICK t : t = Append(s, v)
      OBVIOUS
    <3>2. t \in Seq(Nat) /\ Len(t) = k + 1 /\ t[k + 1] = v /\ \A i \in 1..k : t[i] = s[i]
      BY <1>5, <3>1, AppendProperties
    <3>3. PICK f \in [1..(k + 1) -> Nat] : f = t
      BY <3>2, LenProperties
    <3>4. ASSUME NEW i \in 1..(k + 1) PROVE f[i] = IF i <= k THEN BlockNum(m, i) ELSE v
      <4>1. IF i <= k THEN i \in 1..k ELSE i = k + 1
        OBVIOUS
      <4> QED
        BY <1>5, <3>2, <3>3, <4>1
    <3>5. f = [i \in 1..(k + 1) |-> IF i <= k THEN BlockNum(m, i) ELSE v]
      BY <3>4
    <3> QED
      BY <3>1, <3>3, <3>5 DEF EndNums
  <2>8. R94!R94Of(m) = R94Val(m, k + 1)
    <3>1. (Len(m) + HashBlock - 1) \div HashBlock = k + 1
      <4>1. (Len(m) + HashBlock - 1) \div HashBlock = IF l = 0 THEN k ELSE k + 1
        BY <1>2, <1>4, RoundUp
      <4> QED
        BY <1>9, <4>1
    <3> QED
      BY <3>1, R94OfIs
  <2>9. m # <<>>
    <3>1. Len(m) # 0
      BY <1>2, <1>4, <1>9
    <3> QED
      BY <3>1
  <2> QED
    BY <1>3, <1>6, <2>3, <2>5, <2>6, <2>7, <2>8, <2>9 DEF R94Val, R94Blocks, Ended
<1>10. CASE l = 0
  <2>1. R94!R94Of(m) = R94Val(m, k) /\ Filled(m, k) = m
    <3>1. (Len(m) + HashBlock - 1) \div HashBlock = IF l = 0 THEN k ELSE k + 1
      BY <1>2, <1>4, RoundUp
    <3>2. HashParts(m, k, x, 0)
      BY <1>4, <1>10
    <3>3. Filled(m, k) = m
      BY <3>2, FilledWhole
    <3> QED
      BY <1>10, <3>1, <3>3, R94OfIs
  <2>2. Len(m) = x /\ len = Len(m) * BitsPerByte
    <3>1. Len(m) = x
      BY <1>4, <1>10
    <3> QED
      BY <1>6, <1>7, <3>1
  <2>3. R94Val(m, k) = R94Blocks(m, k) \o <<len, sum>>
    BY <1>6, <1>8, <2>1, <2>2 DEF R94Val, Ended, Two
  <2>4. CASE k = 0
    <3>1. x = 0 /\ m = <<>> /\ s = <<>> /\ len = 0
      <4>1. x = 0
        BY <1>2, <2>4
      <4>2. x * y = 0
        BY <4>1
      <4> QED
        BY <1>5, <1>7, <2>2, <2>4, <4>1, <4>2, EmptySeq
    <3>2. R94!Finalized = <<>> \o <<0, len, sum>>
      <4>1. ~(nbuf > 0)
        BY <1>2, <1>10
      <4> QED
        BY <1>5, <3>1, <4>1 DEF R94!Finalized
    <3>3. R94Blocks(m, k) = <<0>>
      BY <3>1 DEF R94Blocks
    <3>4. <<>> \o <<0, len, sum>> = <<0>> \o <<len, sum>>
      OBVIOUS
    <3> QED
      BY <1>3, <2>1, <2>3, <3>2, <3>3, <3>4
  <2>5. CASE k # 0
    <3>1. Len(m) # 0 /\ len # 0
      <4>1. k * B # 0
        BY <2>5
      <4>2. x * y # 0
        BY <1>2, <4>1
      <4> QED
        BY <1>2, <1>7, <2>2, <4>1, <4>2
    <3>2. R94!Finalized = h \o <<len, sum>>
      <4>1. ~(nbuf > 0)
        BY <1>2, <1>10
      <4> QED
        BY <3>1, <4>1 DEF R94!Finalized
    <3>3. s = MsgNums(m, k)
      <4>1. PICK f \in [1..k -> Nat] : f = s
        BY <1>5, LenProperties
      <4>2. \A i \in 1..k : f[i] = BlockNum(m, i)
        BY <1>5, <4>1
      <4>3. f = [i \in 1..k |-> BlockNum(m, i)]
        BY <4>2
      <4> QED
        BY <4>1, <4>3 DEF MsgNums
    <3>4. m # <<>>
      BY <3>1
    <3>5. R94Blocks(m, k) = s
      BY <2>1, <3>3, <3>4 DEF R94Blocks
    <3> QED
      BY <1>3, <1>5, <2>1, <2>3, <3>2, <3>5
  <2> QED
    BY <2>4, <2>5
<1> QED
  BY <1>2, <1>9, <1>10

\* What R94Of is made of: numbers, and a filled message at least as long as m.
R94Parts(m, k, x) ==
  /\ At(x, k, HashBlock) /\ Len(m) <= x /\ R94!R94Of(m) = R94Val(m, k)
  /\ k = (Len(m) + HashBlock - 1) \div HashBlock

LEMMA R94PartsExist ==
  ASSUME NEW m \in Seq(Digit)
  PROVE  \E k \in Nat, x \in Nat : R94Parts(m, k, x)
<1>1. PICK B \in Nat \ {0} : B = HashBlock
  BY Params
<1>2. PICK q \in Nat, y \in Nat, l \in Nat : HashParts(m, q, y, l)
  BY HashPartsExist
<1>3. y = q * B /\ l < B /\ Len(m) = y + l
  BY <1>1, <1>2 DEF HashParts, At
<1>4. PICK k \in Nat : k = (Len(m) + HashBlock - 1) \div HashBlock /\ k = IF l = 0 THEN q ELSE q + 1
  BY <1>2, RoundUp
<1>5. R94!R94Of(m) = R94Val(m, k)
  BY <1>4, R94OfIs
<1>6. CASE l = 0
  <2>1. Len(m) <= y /\ At(y, k, HashBlock)
    BY <1>1, <1>3, <1>4, <1>6 DEF At
  <2> QED
    BY <1>4, <1>5, <2>1 DEF R94Parts
<1>7. CASE l # 0
  <2>1. At(y + B, k, HashBlock)
    <3>1. k = q + 1 /\ At(y, q, B)
      BY <1>3, <1>4, <1>7 DEF At
    <3> QED
      BY <1>1, <3>1, AtNext
  <2>2. y + B \in Nat /\ Len(m) <= y + B
    BY <1>3
  <2> QED
    BY <1>4, <1>5, <2>1, <2>2 DEF R94Parts
<1> QED
  BY <1>6, <1>7

LEMMA R94Types ==
  ASSUME NEW m \in Seq(Digit), NEW k \in Nat, NEW x \in Nat, R94Parts(m, k, x)
  PROVE  /\ R94Blocks(m, k) \in Seq(Nat) /\ Len(m) * BitsPerByte \in Nat
         /\ MsgTotal(Filled(m, k), k) % Modulus \in Nat
         /\ Filled(m, k) \in Seq(Digit) /\ IsFilled(Filled(m, k), m, x)
         /\ k * HashBlock <= Len(Filled(m, k))
<1>1. PICK f : f = Filled(m, k)
  OBVIOUS
<1>2. IsFilled(f, m, x) /\ f \in Seq(Digit) /\ Len(f) = x
  <2>1. IsFilled(f, m, x)
    BY <1>1, FilledIs DEF R94Parts
  <2> QED
    BY <2>1 DEF IsFilled
<1>3. PICK e \in Seq(Digit) : e = f
  BY <1>2
<1>4. k * HashBlock <= Len(e)
  BY <1>2, <1>3 DEF R94Parts, At
<1>5. MsgNums(e, k) \in [1..k -> Nat]
  BY <1>4, BlockNumType DEF MsgNums
<1>6. MsgNums(e, k) \in Seq(Nat)
  BY <1>5, FcnSeq
<1>7. <<0>> \in Seq(Nat)
  OBVIOUS
<1>8. MsgTotal(e, k) % Modulus \in Nat
  <2>1. PICK a \in Nat, M \in Nat \ {0} : a = MsgTotal(e, k) /\ M = Modulus
    BY <1>4, MsgTotalType, Params
  <2>2. a % M \in 0..(M - 1)
    BY DivModBasic
  <2> QED
    BY <2>1, <2>2
<1>9. Len(m) * BitsPerByte \in Nat
  <2>1. Len(m) \in Nat /\ BitsPerByte \in Nat
    BY LenProperties, Params
  <2> QED
    BY <2>1
<1> QED
  BY <1>1, <1>2, <1>3, <1>4, <1>6, <1>7, <1>8, <1>9 DEF R94Blocks

\* Equal hash inputs are of equal messages: zero padding carries no marker, the length
\* block tells messages apart that the padding does not.
LEMMA R94Injective ==
  ASSUME NEW m \in Seq(Digit), NEW w \in Seq(Digit), R94!R94Of(m) = R94!R94Of(w)
  PROVE  m = w
<1>1. PICK k \in Nat, x \in Nat : R94Parts(m, k, x)
  BY R94PartsExist
<1>2. PICK q \in Nat, y \in Nat : R94Parts(w, q, y)
  BY R94PartsExist
<1>3. R94Blocks(m, k) = R94Blocks(w, q) /\ Len(m) * BitsPerByte = Len(w) * BitsPerByte
  <2>1. PICK S : S = Nat
    OBVIOUS
  <2>2. PICK s, t \in Seq(S), a, b, c, d \in S :
          /\ s = R94Blocks(m, k) /\ t = R94Blocks(w, q)
          /\ a = Len(m) * BitsPerByte /\ b = MsgTotal(Filled(m, k), k) % Modulus
          /\ c = Len(w) * BitsPerByte /\ d = MsgTotal(Filled(w, q), q) % Modulus
    BY <1>1, <1>2, <2>1, R94Types
  <2>3. Ended(s, a, b) = Ended(t, c, d)
    BY <1>1, <1>2, <2>2 DEF R94Parts, R94Val
  <2>4. s = t /\ a = c
    BY <2>3, JoinInjective
  <2> QED
    BY <2>2, <2>4
<1>4. Len(m) = Len(w)
  <2>1. PICK u, v \in Nat, b \in Nat \ {0} : u = Len(m) /\ v = Len(w) /\ b = BitsPerByte
    BY LenProperties, Params
  <2>2. u * b + 0 = v * b + 0 /\ 0 \in 0..(b - 1)
    BY <1>3, <2>1
  <2>3. u = v
    BY <2>2, DivModUnique
  <2> QED
    BY <2>1, <2>3
<1>5. k = q /\ At(x, k, HashBlock) /\ Len(m) <= x /\ R94Parts(w, k, x)
  BY <1>1, <1>2, <1>4 DEF R94Parts, At
<1>6. CASE m = <<>>
  <2>1. Len(w) = 0
    BY <1>4, <1>6
  <2> QED
    BY <1>6, <2>1, EmptySeq
<1>7. CASE m # <<>>
  <2>1. w # <<>>
    <3>1. Len(m) # 0
      BY <1>7, EmptySeq
    <3> QED
      BY <1>4, <3>1
  <2>2. PICK f, e \in Seq(Digit) :
          /\ f = Filled(m, k) /\ e = Filled(w, k) /\ IsFilled(f, m, x) /\ IsFilled(e, w, x)
          /\ k * HashBlock <= Len(f) /\ k * HashBlock <= Len(e)
    BY <1>1, <1>5, R94Types
  <2>3. MsgNums(f, k) = MsgNums(e, k)
    BY <1>3, <1>5, <1>7, <2>1, <2>2 DEF R94Blocks
  <2>4. ASSUME NEW j \in 1..k PROVE BlockNum(f, j) = BlockNum(e, j)
    <3>1. MsgNums(f, k)[j] = BlockNum(f, j) /\ MsgNums(e, k)[j] = BlockNum(e, j)
      BY DEF MsgNums
    <3> QED
      BY <2>3, <3>1
  <2>5. SameBlocks(f, e, HashBlock, k)
    BY <2>2, <2>4, BlocksFromNums
  <2>6. f = e
    <3>1. Len(f) = x + 0 /\ Len(e) = x + 0 /\ 0 \in Nat /\ HashBlock \in Nat \ {0}
      BY <2>2, Params DEF IsFilled
    <3>2. SameFrom(f, e, x, 0)
      BY DEF SameFrom
    <3> QED
      BY <1>5, <2>5, <3>1, <3>2, SameMessage
  <2>7. ASSUME NEW i \in 1..Len(m) PROVE m[i] = w[i]
    <3>1. Len(m) \in Nat
      BY LenProperties
    <3>2. i \in 1..x /\ i <= Len(m) /\ i <= Len(w)
      BY <1>4, <1>5, <3>1
    <3>3. f[i] = m[i] /\ e[i] = w[i]
      BY <2>2, <3>2 DEF IsFilled
    <3> QED
      BY <2>6, <3>3
  <2> QED
    BY <1>4, <2>7, SeqEqual
<1> QED
  BY <1>6, <1>7

-----------------------------------------------------------------------------
(* The theorems *)

\* IInv, in the terms of this module.
DigestsI ==
  /\ alg \in {"omac", "streebog", "gostr341194"}
  /\ alg = "omac" => OmacI
  /\ alg = "streebog" => StbI
  /\ alg = "gostr341194" => R94I

LEMMA IInvIs == (IInv <=> DigestsI) /\ (IInv' <=> DigestsI')
<1>1. IInv <=> DigestsI
  BY OmacInvIs, StbInvIs, R94InvIs DEF IInv, DigestsI
<1>2. IInv' <=> DigestsI'
  BY OmacInvIs, StbInvIs, R94InvIs DEF IInv, DigestsI
<1> QED
  BY <1>1, <1>2

\* A constructed object, of each algorithm.
LEMMA InitIs == Init => DigestsI
<1>1. CASE alg = "omac" /\ OMAC!Init
  <2>1. OmacI
    BY <1>1, OmacEmpty DEF OMAC!Init
  <2> QED
    BY <1>1, <2>1 DEF DigestsI
<1>2. CASE alg = "streebog" /\ Stb!Init
  <2>1. msg = <<>> /\ p = <<>> /\ buf = [i \in 1..HashBlock |-> 0] /\ nbuf = 0 /\ stage = "idle"
    BY <1>2 DEF Stb!Init, Stb!ZeroBlock
  <2>2. h = <<>> /\ n = 0 /\ sum = 0
    BY <1>2 DEF Stb!Init
  <2>3. Layout(0)
    BY <2>1, LayoutEmpty
  <2>4. StbChain(0) /\ Len(h) = 0
    BY <2>1, <2>2, StbNothing DEF StbChain
  <2>5. StbI
    BY <2>3, <2>4 DEF StbI
  <2> QED
    BY <1>2, <2>5 DEF DigestsI
<1>3. CASE alg = "gostr341194" /\ R94!Init
  <2>1. msg = <<>> /\ p = <<>> /\ buf = [i \in 1..HashBlock |-> 0] /\ nbuf = 0 /\ stage = "idle"
    BY <1>3 DEF R94!Init, R94!ZeroBlock
  <2>2. h = <<>> /\ len = 0 /\ sum = 0
    BY <1>3 DEF R94!Init
  <2>3. Layout(0)
    BY <2>1, LayoutEmpty
  <2>4. R94Chain(0) /\ Len(h) = 0
    BY <2>1, <2>2, R94Nothing DEF R94Chain
  <2>5. R94I
    BY <2>3, <2>4 DEF R94I
  <2> QED
    BY <1>3, <2>5 DEF DigestsI
<1> QED
  BY <1>1, <1>2, <1>3 DEF Init

\* Every step, of each algorithm.
LEMMA NextIs == DigestsI /\ [Next]_vars => DigestsI'
<1> SUFFICES ASSUME DigestsI, [Next]_vars PROVE DigestsI'
  OBVIOUS
<1>1. CASE alg = "omac" /\ OMAC!Next /\ alg' = alg
  <2>1. OmacI'
    BY <1>1, OmacNext DEF DigestsI
  <2> QED
    BY <1>1, <2>1 DEF DigestsI
<1>2. CASE alg = "streebog" /\ Stb!Next /\ alg' = alg
  <2>1. StbI'
    BY <1>2, StbNext DEF DigestsI
  <2> QED
    BY <1>2, <2>1 DEF DigestsI
<1>3. CASE alg = "gostr341194" /\ R94!Next /\ alg' = alg
  <2>1. R94I'
    BY <1>3, R94Next DEF DigestsI
  <2> QED
    BY <1>3, <2>1 DEF DigestsI
<1>4. CASE UNCHANGED vars
  <2>1. UNCHANGED <<alg, size, h, n, sum, len, buf, nbuf, stage, p, msg, tag>>
    BY <1>4 DEF vars
  <2>2. OmacI' <=> OmacI
    BY <2>1 DEF OmacI
  <2>3. (StbI' <=> StbI) /\ (R94I' <=> R94I)
    BY <2>1 DEF StbI, StbChain, R94I, R94Chain, Layout
  <2> QED
    BY <2>1, <2>2, <2>3 DEF DigestsI
<1> QED
  BY <1>1, <1>2, <1>3, <1>4 DEF Next

\* In every reachable state of every digest the message written is the blocks absorbed,
\* the bytes in the buffer and the rest of the Write in progress, whatever stale bytes
\* the buffer holds, and counter, length and checksum are those of the blocks absorbed
\* (omac.go:144-170, streebog.go:377-430, gostr341194.go:301-340).
THEOREM InductiveInvariant == Spec => []IInv
<1>1. Init => IInv
  BY InitIs, IInvIs
<1>2. IInv /\ [Next]_vars => IInv'
  BY NextIs, IInvIs
<1> QED
  BY <1>1, <1>2, PTL DEF Spec

\* Between two calls Sum returns the digest of the message.
LEMMA CurrentIs ==
  ASSUME DigestsI, stage = "idle"
  PROVE  Current = DigestOf(<<alg, size>>, msg) /\ msg \in Seq(Digit)
<1> DEFINE c == <<alg, size>>
<1>0. c[1] = alg /\ c[2] = size
  OBVIOUS
<1>1. CASE alg = "omac"
  <2>1. OmacI
    BY <1>1 DEF DigestsI
  <2>2. Current = OMAC!SumOf(h, buf) /\ DigestOf(c, msg) = OMAC!OmacOf(msg)
    BY <1>0, <1>1 DEF Current, DigestOf
  <2>3. OMAC!SumOf(h, buf) = OMAC!OmacOf(msg) /\ msg \in Seq(Digit)
    BY <2>1, OmacSum DEF OmacI
  <2> QED
    BY <2>2, <2>3
<1>2. CASE alg = "streebog"
  <2>1. StbI
    BY <1>2 DEF DigestsI
  <2>2. Current = Stb!Finalized /\ DigestOf(c, msg) = Stb!StreebogOf(size, msg)
    BY <1>0, <1>2 DEF Current, DigestOf
  <2>3. Stb!Finalized = Stb!StreebogOf(size, msg) /\ msg \in Seq(Digit)
    BY <2>1, StbSum DEF StbI, Layout
  <2> QED
    BY <2>2, <2>3
<1>3. CASE alg = "gostr341194"
  <2>1. R94I
    BY <1>3 DEF DigestsI
  <2>2. Current = R94!Finalized /\ DigestOf(c, msg) = R94!R94Of(msg)
    BY <1>0, <1>3 DEF Current, DigestOf
  <2>3. R94!Finalized = R94!R94Of(msg) /\ msg \in Seq(Digit)
    BY <2>1, R94Sum DEF R94I, Layout
  <2> QED
    BY <2>2, <2>3
<1> QED
  BY <1>1, <1>2, <1>3 DEF DigestsI

\* The digest of a message determines it.
LEMMA DigestInjective ==
  ASSUME NEW m \in Seq(Digit), NEW w \in Seq(Digit), alg \in {"omac", "streebog", "gostr341194"},
         DigestOf(<<alg, size>>, m) = DigestOf(<<alg, size>>, w)
  PROVE  m = w
<1> DEFINE c == <<alg, size>>
<1>0. c[1] = alg /\ c[2] = size
  OBVIOUS
<1>1. CASE alg = "omac"
  <2>1. DigestOf(c, m) = OMAC!OmacOf(m) /\ DigestOf(c, w) = OMAC!OmacOf(w)
    BY <1>0, <1>1 DEF DigestOf
  <2> QED
    BY <2>1, OmacInjective
<1>2. CASE alg = "streebog"
  <2>1. DigestOf(c, m) = Stb!StreebogOf(size, m) /\ DigestOf(c, w) = Stb!StreebogOf(size, w)
    BY <1>0, <1>2 DEF DigestOf
  <2> QED
    BY <2>1, StbInjective
<1>3. CASE alg = "gostr341194"
  <2>1. DigestOf(c, m) = R94!R94Of(m) /\ DigestOf(c, w) = R94!R94Of(w)
    BY <1>0, <1>3 DEF DigestOf
  <2> QED
    BY <2>1, R94Injective
<1> QED
  BY <1>1, <1>2, <1>3

\* No two messages share what Sum hashes: OMAC's two subkeys tell a padded last block
\* from a complete one, Streebog's padding carries a bit, and the length block of GOST R
\* 34.11-94 stands in for the marker its zero padding lacks (omac.go:180-200,
\* streebog.go:447-482, gostr341194.go:344-385).
THEOREM Separation == Spec => []Separates
<1>1. ASSUME IInv PROVE Separates
  <2> SUFFICES ASSUME stage = "idle", NEW m \in MessagesUpTo(0..(Base - 1), MaxMsg),
                      DigestOf(<<alg, size>>, m) = Current
               PROVE  m = msg
    BY DEF Separates
  <2>1. DigestsI
    BY <1>1, IInvIs
  <2>2. m \in Seq(Digit)
    BY DigestsAssumption, MessagesAre DEF Digit
  <2>3. Current = DigestOf(<<alg, size>>, msg) /\ msg \in Seq(Digit)
    BY <2>1, CurrentIs
  <2>4. alg \in {"omac", "streebog", "gostr341194"}
    BY <2>1 DEF DigestsI
  <2> QED
    BY <2>2, <2>3, <2>4, DigestInjective
<1> QED
  BY <1>1, InductiveInvariant, PTL

\* What each action of OMAC does on the interface.
LEMMA OmacRefines ==
  ASSUME OmacI, DigestsI, alg = "omac", OMAC!Next, UNCHANGED <<alg, size>>
  PROVE  [Abstract!Next]_(Abstract!vars)
<1>1. CASE \E d \in OMAC!MessagesUpTo(0..(Base - 1), MaxMsg) : OMAC!Write(d)
  <2>1. PICK d \in MessagesUpTo(Digit, MaxMsg) : OMAC!Write(d)
    BY <1>1 DEF OMAC!MessagesUpTo, MessagesUpTo, Digit
  <2>2. d \in Seq(Digit)
    BY DigestsAssumption, MessagesAre
  <2>3. msg' = msg \o d /\ UNCHANGED tag /\ msg \in Seq(Digit)
    BY <2>1 DEF OMAC!Write, OmacI
  <2> QED
    BY <2>2, <2>3, AbstractWrite
<1>2. CASE OMAC!WriteLoop \/ OMAC!WriteReturn
  <2>1. UNCHANGED <<msg, tag>>
    BY <1>2 DEF OMAC!WriteLoop, OMAC!WriteReturn
  <2> QED
    BY <2>1, AbstractStutter
<1>3. CASE OMAC!Sum
  <2>1. stage = "idle" /\ tag' = OMAC!SumOf(h, buf) /\ UNCHANGED msg
    BY <1>3 DEF OMAC!Sum
  <2>2. tag' = Current
    BY <2>1 DEF Current
  <2>3. tag' = DigestOf(<<alg, size>>, msg)
    BY <2>1, <2>2, CurrentIs
  <2> QED
    BY <2>1, <2>3, AbstractSum
<1>4. CASE OMAC!Reset
  <2>1. msg' = <<>> /\ UNCHANGED tag
    BY <1>4 DEF OMAC!Reset
  <2> QED
    BY <2>1, AbstractReset
<1> QED
  BY <1>1, <1>2, <1>3, <1>4 DEF OMAC!Next

\* What each action of Streebog does on the interface.
LEMMA StbRefines ==
  ASSUME StbI, DigestsI, alg = "streebog", Stb!Next, UNCHANGED alg
  PROVE  [Abstract!Next]_(Abstract!vars)
<1>1. CASE \E d \in Stb!MessagesUpTo(Stb!Bytes, MaxMsg) : Stb!Write(d)
  <2>1. PICK d \in MessagesUpTo(Digit, MaxMsg) : Stb!Write(d)
    BY <1>1 DEF Stb!MessagesUpTo, MessagesUpTo, Stb!Bytes, Digit
  <2>2. d \in Seq(Digit)
    BY DigestsAssumption, MessagesAre
  <2>3. msg' = msg \o d /\ UNCHANGED <<size, tag>> /\ msg \in Seq(Digit)
    BY <2>1 DEF Stb!Write, StbI, Layout
  <2> QED
    BY <2>2, <2>3, AbstractWrite
<1>2. CASE Stb!Fill \/ Stb!FullBlock \/ Stb!Remainder
  <2>1. UNCHANGED <<size, msg, tag>>
    BY <1>2 DEF Stb!Fill, Stb!FullBlock, Stb!Remainder
  <2> QED
    BY <2>1, AbstractStutter
<1>3. CASE Stb!Sum
  <2>1. stage = "idle" /\ tag' = Stb!Finalized /\ UNCHANGED <<size, msg>>
    BY <1>3 DEF Stb!Sum
  <2>2. tag' = Current
    BY <2>1 DEF Current
  <2>3. tag' = DigestOf(<<alg, size>>, msg)
    BY <2>1, <2>2, CurrentIs
  <2> QED
    BY <2>1, <2>3, AbstractSum
<1>4. CASE Stb!Reset
  <2>1. msg' = <<>> /\ UNCHANGED <<size, tag>>
    BY <1>4 DEF Stb!Reset
  <2> QED
    BY <2>1, AbstractReset
<1> QED
  BY <1>1, <1>2, <1>3, <1>4 DEF Stb!Next

\* What each action of GOST R 34.11-94 does on the interface.
LEMMA R94Refines ==
  ASSUME R94I, DigestsI, alg = "gostr341194", R94!Next, UNCHANGED <<alg, size>>
  PROVE  [Abstract!Next]_(Abstract!vars)
<1>1. CASE \E d \in R94!MessagesUpTo(R94!Bytes, MaxMsg) : R94!Write(d)
  <2>1. PICK d \in MessagesUpTo(Digit, MaxMsg) : R94!Write(d)
    BY <1>1 DEF R94!MessagesUpTo, MessagesUpTo, R94!Bytes, Digit
  <2>2. d \in Seq(Digit)
    BY DigestsAssumption, MessagesAre
  <2>3. msg' = msg \o d /\ UNCHANGED tag /\ msg \in Seq(Digit)
    BY <2>1 DEF R94!Write, R94I, Layout
  <2> QED
    BY <2>2, <2>3, AbstractWrite
<1>2. CASE R94!Fill \/ R94!FullBlock \/ R94!Remainder
  <2>1. UNCHANGED <<msg, tag>>
    BY <1>2 DEF R94!Fill, R94!FullBlock, R94!Remainder
  <2> QED
    BY <2>1, AbstractStutter
<1>3. CASE R94!Sum
  <2>1. stage = "idle" /\ tag' = R94!Finalized /\ UNCHANGED msg
    BY <1>3 DEF R94!Sum
  <2>2. tag' = Current
    BY <2>1 DEF Current
  <2>3. tag' = DigestOf(<<alg, size>>, msg)
    BY <2>1, <2>2, CurrentIs
  <2> QED
    BY <2>1, <2>3, AbstractSum
<1>4. CASE R94!Reset
  <2>1. msg' = <<>> /\ UNCHANGED tag
    BY <1>4 DEF R94!Reset
  <2> QED
    BY <2>1, AbstractReset
<1> QED
  BY <1>1, <1>2, <1>3, <1>4 DEF R94!Next

\* Every digest implements Digest: however the Writes cut the message, and whatever Sums
\* lie between them, Sum returns the digest of what was written since the last Reset, and
\* nothing of an earlier message is left after it (omac.go:144-213, modes.go:126,
\* streebog.go:377-482, gostr341194.go:301-385).
THEOREM Refinement == Spec => RefinesDigest
<1>1. Init => Abstract!Init
  BY DEF Init, OMAC!Init, Stb!Init, R94!Init, OMAC!NoTag, Stb!NoTag, R94!NoTag, Abstract!Init
<1>2. ASSUME IInv, [Next]_vars PROVE [Abstract!Next]_(Abstract!vars)
  <2>1. DigestsI
    BY <1>2, IInvIs
  <2>2. CASE alg = "omac" /\ OMAC!Next /\ UNCHANGED <<alg, size>>
    BY <2>1, <2>2, OmacRefines DEF DigestsI
  <2>3. CASE alg = "streebog" /\ Stb!Next /\ UNCHANGED alg
    BY <2>1, <2>3, StbRefines DEF DigestsI
  <2>4. CASE alg = "gostr341194" /\ R94!Next /\ UNCHANGED <<alg, size>>
    BY <2>1, <2>4, R94Refines DEF DigestsI
  <2>5. CASE UNCHANGED vars
    BY <2>5, AbstractStutter DEF vars
  <2> QED
    BY <1>2, <2>2, <2>3, <2>4, <2>5 DEF Next
<1> QED
  BY <1>1, <1>2, InductiveInvariant, PTL DEF Spec, RefinesDigest, Abstract!Spec
=============================================================================
