----------------------------- MODULE GostCurve -----------------------------
(***************************************************************************)
(* gost3410curves: point arithmetic over GF(P), the reference version of   *)
(* curves.go and the constant-time one of ctfield.go, ctpoint.go and       *)
(* ctscalar.go, in the arithmetic of the code.                             *)
(*                                                                         *)
(* Data abstraction.  A curve is a record of its parameters.  A vector of  *)
(* limbs is the integer it encodes: chains of bits.Add64 and bits.Sub64    *)
(* are additions modulo R, and the carries that the code keeps are         *)
(* kept.  Masks that select one of two values are IF expressions.          *)
(***************************************************************************)
EXTENDS Integers, Sequences

CONSTANTS
  LimbBits,    \* limbBits, 64 in the code
  Limbs,       \* ctLimbs, 4 and 8 in the code
  Window,      \* ctWindow, 4 in the code
  Curves       \* curves tried: [p, a, b, q, x, y, cofactor]

ASSUME LimbAssumption ==
  LimbBits \in Nat \ {0} /\ Limbs \in Nat \ {0} /\ Window \in 1..LimbBits /\ LimbBits % Window = 0

Infinity == <<>>

\* Bound: bits of a scalar.  The full order of a curve has at most two more than q.
MaxBits == LimbBits * Limbs + 2

Bit(k, i) == (k \div 2^i) % 2
BitLen(k) == CHOOSE n \in 0..MaxBits : k < 2^n /\ (n = 0 \/ k >= 2^(n - 1))

ModInverse(x, m) == CHOOSE y \in 0..(m - 1) : (x * y) % m = 1

-----------------------------------------------------------------------------
(* curves.go *)

Base(c) == <<c.x, c.y>>

IsOnCurve(c, pt) ==
  \/ pt = Infinity
  \/ /\ pt[1] \in 0..(c.p - 1) /\ pt[2] \in 0..(c.p - 1)
     /\ (pt[2] * pt[2]) % c.p = (((pt[1] * pt[1]) % c.p) * pt[1] + c.a * pt[1] + c.b) % c.p

fromLambda(c, lambda, pt, qt) ==
  LET x3 == (lambda * lambda - pt[1] - qt[1]) % c.p
  IN  <<x3, ((pt[1] - x3) * lambda - pt[2]) % c.p>>

Double(c, pt) ==
  IF pt = Infinity \/ pt[2] = 0 THEN Infinity
  ELSE LET num == (3 * pt[1] * pt[1] + c.a) % c.p
           den == ModInverse((2 * pt[2]) % c.p, c.p)
       IN  fromLambda(c, (num * den) % c.p, pt, pt)

Chord(c, pt, qt) ==
  LET num == (qt[2] - pt[2]) % c.p
      den == ModInverse((qt[1] - pt[1]) % c.p, c.p)
  IN  fromLambda(c, (num * den) % c.p, pt, qt)

\* Mutant: two points with one x are taken for equal.
AddNoInverse(c, pt, qt) ==
  IF pt = Infinity THEN qt
  ELSE IF qt = Infinity THEN pt
  ELSE IF pt[1] = qt[1] THEN Double(c, pt)
  ELSE Chord(c, pt, qt)

Add(c, pt, qt) ==
  IF pt = Infinity THEN qt
  ELSE IF qt = Infinity THEN pt
  ELSE IF pt[1] = qt[1]
       THEN IF (pt[2] + qt[2]) % c.p = 0 THEN Infinity ELSE Double(c, pt)
  ELSE Chord(c, pt, qt)

\* Double-and-add, most significant bit first.
ScalarMult(c, k, pt) ==
  LET n == BitLen(k)
      acc[i \in 0..n] ==
        IF i = 0 THEN Infinity
        ELSE LET d == Double(c, acc[i - 1])
             IN  IF Bit(k, n - i) = 1 THEN Add(c, d, pt) ELSE d
  IN  IF k <= 0 \/ pt = Infinity THEN Infinity ELSE acc[n]

-----------------------------------------------------------------------------
(* ctfield.go: Montgomery arithmetic on Limbs words. *)

W == 2^LimbBits
R == 2^(LimbBits * Limbs)

\* -p^-1 modulo W, from the low limb of p.
n0(p) == W - ModInverse(p % W, W)

\* Mutant: the bit above the limbs is dropped.
condSubPNoExtra(p, r, extra) == IF r < p THEN r ELSE (r - p) % R

\* r - p if extra is set or the subtraction does not borrow.
condSubP(p, r, extra) == IF extra % 2 = 0 /\ r < p THEN r ELSE (r - p) % R

feAdd(p, a, b) == condSubP(p, (a + b) % R, (a + b) \div R)

feSub(p, a, b) == LET d == (a - b) % R IN IF a < b THEN (d + p) % R ELSE d

\* CIOS: one row per limb of b, then one limb is reduced away.  The accumulator
\* has Limbs + 1 words between rows and one more within a row.
feMul(p, a, b) ==
  LET t[i \in 0..Limbs] ==
        IF i = 0 THEN 0
        ELSE LET bi == (b \div 2^(LimbBits * (i - 1))) % W
                 s  == (t[i - 1] + a * bi) % (R * W * W)
                 m  == ((s % W) * n0(p)) % W
             IN  ((s + m * p) \div W) % (R * W)
  IN  condSubP(p, t[Limbs] % R, t[Limbs] \div R)

toMont(p, a) == feMul(p, a, (R * R) % p)
fromMont(p, a) == feMul(p, a, 1)
One(p) == R % p

\* a^(p-2), square-and-multiply over the bits of the exponent.
feInv(p, a) ==
  LET n == BitLen(p - 2)
      acc[i \in 0..n] ==
        IF i = 0 THEN One(p)
        ELSE LET s == feMul(p, acc[i - 1], acc[i - 1])
             IN  IF Bit(p - 2, n - i) = 1 THEN feMul(p, s, a) ELSE s
  IN  acc[n]

-----------------------------------------------------------------------------
(* ctpoint.go: complete projective formulas; x, y, z in the Montgomery domain. *)

\* newCTCurve.
ctA(c)  == toMont(c.p, c.a % c.p)
ctB3(c) == toMont(c.p, (3 * c.b) % c.p)

identity(c) == <<0, One(c.p), 0>>

fromAffine(c, pt) ==
  IF pt = Infinity THEN identity(c)
  ELSE <<toMont(c.p, pt[1] % c.p), toMont(c.p, pt[2] % c.p), One(c.p)>>

toAffine(c, P) ==
  IF P[3] = 0 THEN Infinity
  ELSE LET zinv == feInv(c.p, P[3])
       IN  <<fromMont(c.p, feMul(c.p, P[1], zinv)), fromMont(c.p, feMul(c.p, P[2], zinv))>>

\* The products xx, yy, zz of the coordinates and the cross terms xy, xz, yz
\* determine the sum.
ctSum(c, xx, yy, zz, xy, xz, yz) ==
  LET x(u, v) == feMul(c.p, u, v)
      s(u, v) == feAdd(c.p, u, v)
      d(u, v) == feSub(c.p, u, v)
      out(lo, hi, u, v) ==
        <<d(x(xy, lo), x(yz, v)), s(x(lo, hi), x(u, v)), s(x(yz, hi), x(xy, u))>>
      with(e, azz) ==
        out(d(yy, e), s(yy, e), s(s(s(xx, xx), xx), azz),
            s(x(ctB3(c), xz), x(ctA(c), d(xx, azz))))
  IN  with(s(x(ctB3(c), zz), x(ctA(c), xz)), x(ctA(c), zz))

ctAdd(c, P, Q) ==
  LET x(i) == feMul(c.p, P[i], Q[i])
      cross(i, j, u, v) ==
        feSub(c.p, feMul(c.p, feAdd(c.p, P[i], P[j]), feAdd(c.p, Q[i], Q[j])), feAdd(c.p, u, v))
      from(xx, yy, zz) ==
        ctSum(c, xx, yy, zz, cross(1, 2, xx, yy), cross(1, 3, xx, zz), cross(2, 3, yy, zz))
  IN  from(x(1), x(2), x(3))

ctTwice(c, xx, yy, zz, xy, xz, yz) ==
  LET x(u, v) == feMul(c.p, u, v)
      s(u, v) == feAdd(c.p, u, v)
      d(u, v) == feSub(c.p, u, v)
      two(u) == s(u, u)
      out(lo, hi, u, v) ==
        <<d(x(xy, lo), x(yz, v)), s(x(lo, hi), x(u, v)), two(two(x(yz, yy)))>>
      with(e, azz) ==
        out(d(yy, e), s(yy, e), s(s(two(xx), xx), azz), s(x(ctA(c), d(xx, azz)), x(ctB3(c), xz)))
  IN  with(s(x(ctA(c), xz), x(ctB3(c), zz)), x(ctA(c), zz))

ctDouble(c, P) ==
  LET sq(i) == feMul(c.p, P[i], P[i])
      dbl(u) == feAdd(c.p, u, u)
      cross(i, j) == dbl(feMul(c.p, P[i], P[j]))
  IN  ctTwice(c, sq(1), sq(2), sq(3), cross(1, 2), cross(1, 3), cross(2, 3))

-----------------------------------------------------------------------------
(* ctscalar.go *)

\* Mutant: the bits above the last whole window are dropped.
nWinFloor(c) == BitLen(c.q) \div Window

nWin(c) == (BitLen(c.q) + Window - 1) \div Window

\* The first multiples of P.
windowTable(c, P) ==
  LET tbl[i \in 0..(2^Window - 1)] ==
        IF i = 0 THEN identity(c) ELSE IF i = 1 THEN P ELSE ctAdd(c, tbl[i - 1], P)
  IN  tbl

\* Window doublings.
shifted(c, Q) ==
  LET sh[i \in 0..Window] == IF i = 0 THEN Q ELSE ctDouble(c, sh[i - 1]) IN sh[Window]

digit(k, wi) == (k \div 2^(wi * Window)) % 2^Window
=============================================================================
