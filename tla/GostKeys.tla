----------------------------- MODULE GostKeys ------------------------------
(***************************************************************************)
(* gost3410sign (sign, verify, public key), the signing loop of exports.go *)
(* and vko (key agreement), and the scalar multiplication below them.      *)
(*                                                                         *)
(* Raw keys, digests, nonces and signatures are sequences of bytes, in the *)
(* byte orders of the code.  The calls keep no state: a behaviour is one   *)
(* call.  The loop of the constant-time multiplication is a call of its    *)
(* own; the calls above it take what MultExact shows of it.  The hash that *)
(* kek applies to the agreement point is left out.                         *)
(***************************************************************************)
EXTENDS GostCurve

CONSTANTS
  ByteBits,    \* 8 in the code
  PointSize,   \* c.PointSize(), 32 or 64 in the code
  Attempts,    \* signNonceAttempts
  Keys,        \* raw private keys tried
  Digests,     \* digests tried
  Pubs(_),     \* raw public keys tried on a curve
  Sigs,        \* raw signatures tried
  UKMs         \* raw UKMs tried

ByteVals == 0..(2^ByteBits - 1)

ASSUME KeysAssumption ==
  /\ ByteBits \in Nat \ {0} /\ PointSize \in Nat \ {0} /\ ByteBits * PointSize = LimbBits * Limbs
  /\ Attempts \in Nat
  /\ Keys \cup Digests \cup Sigs \cup UKMs \cup UNION {Pubs(c) : c \in Curves} \subseteq Seq(ByteVals)
  /\ \A c \in Curves : c.p < R /\ c.q < R /\ IsOnCurve(c, Base(c))

\* p is an odd prime and q a prime: residues other than zero have inverses.
ASSUME CurveAssumption ==
  \A c \in Curves :
    /\ c.p \in Nat \ {0, 1} /\ c.p % 2 = 1 /\ c.q \in Nat \ {0, 1}
    /\ c.a \in Nat /\ c.b \in Nat /\ c.cofactor \in Nat \ {0}
    /\ \A x \in 1..(c.p - 1) : \E y \in 0..(c.p - 1) : (x * y) % c.p = 1
    /\ \A x \in 1..(c.q - 1) : \E y \in 0..(c.q - 1) : (x * y) % c.q = 1

\* Powers of two, as far as scalars reach.
ASSUME PowerAssumption ==
  2^0 = 1 /\ \A n \in 0..MaxBits : 2^n \in Nat \ {0} /\ 2^(n + 1) = 2 * 2^n

VARIABLES
  curve,       \* the curve
  ct,          \* its ConstantTime flag
  job,         \* the call: [op, ...arguments], [op |-> "none"] before it
  attempts,    \* nonces drawn by the signing loop
  loop,        \* scalarMultLimbs: [tbl, acc, left], <<>> outside of it
  result       \* <<"none">> while the call runs, then what it returned: <<error or "ok", value>>

vars == <<curve, ct, job, attempts, loop, result>>

-----------------------------------------------------------------------------
(* Byte helpers *)

reverse(b) == [i \in 1..Len(b) |-> b[Len(b) + 1 - i]]

\* big.Int.SetBytes: big-endian.
SetBytes(b) ==
  LET v[i \in 0..Len(b)] == IF i = 0 THEN 0 ELSE v[i - 1] * 2^ByteBits + b[i] IN v[Len(b)]

fillBE(n) == [i \in 1..PointSize |-> (n \div 2^(ByteBits * (PointSize - i))) % 2^ByteBits]

putLE(n) == reverse(fillBE(n))

First(b) == SubSeq(b, 1, PointSize)
Second(b) == SubSeq(b, PointSize + 1, 2 * PointSize)

-----------------------------------------------------------------------------
(* The group, by repeated addition *)

Points(c) == {Infinity} \cup {pt \in (0..(c.p - 1)) \X (0..(c.p - 1)) : IsOnCurve(c, pt)}

Multiples(c, pt) ==
  LET m[k \in 0..(c.q - 1)] == IF k = 0 THEN Infinity ELSE Add(c, m[k - 1], pt) IN m

\* Multiples of the base point, computed once.
BaseMultiples == [c \in Curves |-> Multiples(c, Base(c))]

InSubgroup(c, pt) == \E k \in 0..(c.q - 1) : BaseMultiples[c][k] = pt

\* What the calls of vko may see: k * pt, but the constant-time version may
\* miss it for points outside the subgroup of order q.
ScalarMultSecret(c, constantTime, k, pt) ==
  {ScalarMult(c, k, pt)} \cup IF constantTime /\ ~InSubgroup(c, pt) THEN {Infinity} ELSE {}

-----------------------------------------------------------------------------
(* gost3410sign.go.  The point is the base point, where both multiplications *)
(* agree.                                                                    *)


Nil == <<"nil">>

\* The integer e of a digest, never 0.
DigestInt(c, digest) ==
  LET e == SetBytes(digest) % c.q IN IF e = 0 THEN 1 ELSE e

pointLE(pt) == putLE(pt[1]) \o putLE(pt[2])

PublicKeyRaw(c, prv) ==
  LET d == SetBytes(reverse(prv)) % c.q
      encode(pub) == IF pub = Infinity THEN Nil ELSE pointLE(pub)
  IN  IF d = 0 THEN Nil ELSE encode(ScalarMult(c, d, Base(c)))

\* Mutant: r is written before s.
signatureRS(r, s) == IF s = 0 THEN Nil ELSE fillBE(r) \o fillBE(s)

\* s comes first.
signature(r, s) == IF s = 0 THEN Nil ELSE fillBE(s) \o fillBE(r)

SignDigest(c, prv, digest, k) ==
  LET d  == SetBytes(reverse(prv)) % c.q
      kk == SetBytes(k) % c.q
      withR(r) == IF r = 0 THEN Nil ELSE signature(r, (r * d + kk * DigestInt(c, digest)) % c.q)
      withPoint(pt) == IF pt = Infinity THEN Nil ELSE withR(pt[1] % c.q)
  IN  IF d = 0 \/ kk = 0 THEN Nil ELSE withPoint(ScalarMult(c, kk, Base(c)))

\* Mutant: only zero is out of range.
InRangeLoose(x, q) == x > 0

InRange(x, q) == x > 0 /\ x < q

VerifyDigest(c, pubRaw, digest, sig) ==
  /\ Len(sig) = 2 * PointSize /\ Len(pubRaw) = 2 * PointSize
  /\ LET s   == SetBytes(First(sig))
         r   == SetBytes(Second(sig))
         pub == <<SetBytes(reverse(First(pubRaw))), SetBytes(reverse(Second(pubRaw)))>>
         v   == ModInverse(DigestInt(c, digest), c.q)
         z1  == (s * v) % c.q
         z2  == (c.q - ((r * v) % c.q)) % c.q
         pt  == Add(c, ScalarMult(c, z1, Base(c)), ScalarMult(c, z2, pub))
     IN  /\ InRange(r, c.q) /\ InRange(s, c.q)
         /\ IsOnCurve(c, pub)
         /\ pt # Infinity /\ pt[1] % c.q = r

-----------------------------------------------------------------------------
(* vko.go *)

leBytes2big(raw) == SetBytes(reverse(raw))

\* Mutant: the scalar is read big-endian.
loadPrivateBE(c, raw) ==
  LET d == SetBytes(raw) % c.q
  IN  <<IF Len(raw) # PointSize THEN "badPrivLen" ELSE IF d = 0 THEN "zeroPrivate" ELSE "ok", d>>

loadPrivateLE(c, raw) ==
  LET d == leBytes2big(raw) % c.q
  IN  <<IF Len(raw) # PointSize THEN "badPrivLen" ELSE IF d = 0 THEN "zeroPrivate" ELSE "ok", d>>

loadPublicLE(c, raw) ==
  IF Len(raw) # 2 * PointSize THEN <<"badPubLen", Infinity>>
  ELSE LET pt == <<leBytes2big(First(raw)), leBytes2big(Second(raw))>>
       IN  <<IF IsOnCurve(c, pt) THEN "ok" ELSE "pubNotOn", pt>>

\* Mutant: the cofactor does not enter the modulus.
fullOrderQ(c) == c.q

fullOrder(c) == c.cofactor * c.q

\* K = (UKM * cofactor) * k1, encoded, where k1 is d * pub.
agreementRaw(c, k1, ukm) ==
  LET u == (ukm * c.cofactor) % fullOrder(c)
      encode(k) == IF k = Infinity THEN <<"identity", Nil>> ELSE <<"ok", pointLE(k)>>
  IN  IF ukm = 0 THEN <<"zeroUKM", Nil>>
      ELSE IF k1 = Infinity THEN <<"identity", Nil>>
      ELSE IF c.cofactor \notin {1, 4} THEN <<"unsupportedCofactor", Nil>>
      ELSE IF u = 0 THEN <<"identity", Nil>>
      ELSE encode(IF u = 1 THEN k1 ELSE ScalarMult(c, u, k1))

\* The outcomes of a call.
kek(c, flag, prv, pubRaw, ukm) ==
  LET d == loadPrivateLE(c, prv)
      q == loadPublicLE(c, pubRaw)
  IN  IF d[1] # "ok" THEN {<<d[1], Nil>>}
      ELSE IF q[1] # "ok" THEN {<<q[1], Nil>>}
      ELSE {agreementRaw(c, k1, leBytes2big(ukm)) : k1 \in ScalarMultSecret(c, flag, d[2], q[2])}

-----------------------------------------------------------------------------
(* The calls *)

Init ==
  /\ curve \in Curves
  /\ ct \in BOOLEAN
  /\ job = [op |-> "none"]
  /\ attempts = 0
  /\ loop = <<>>
  /\ result = <<"none">>

Idle == job.op = "none"

\* A call that returns in one step.
Call(j, r) ==
  /\ job' = j
  /\ result' = r
  /\ UNCHANGED <<curve, ct, attempts, loop>>

PublicKeyRawFromPrivate == Idle /\ \E prv \in Keys :
  LET pub == PublicKeyRaw(curve, prv)
  IN  Call([op |-> "public", prv |-> prv], <<IF pub = Nil THEN "degenerate" ELSE "ok", pub>>)

\* Verification does not read the flag.
VerifyDigestOnCurve == Idle /\ ~ct /\ \E pub \in Pubs(curve), digest \in Digests, sig \in Sigs :
  Call([op |-> "verify", pub |-> pub, digest |-> digest, sig |-> sig],
       <<"ok", VerifyDigest(curve, pub, digest, sig)>>)

\* raw is what the reader delivers, a short read an error; the scalar is
\* reduced before it is compared with zero.
GenerateEphemeralKey == Idle /\ ~ct /\ \E raw \in Keys :
  LET d   == leBytes2big(First(raw)) % curve.q
      prv == putLE(d)
  IN  Call([op |-> "generate", raw |-> raw],
           IF Len(raw) < PointSize THEN <<"randError", Nil>>
           ELSE IF d = 0 \/ PublicKeyRaw(curve, prv) = Nil THEN <<"zeroPrivate", Nil>>
           ELSE <<"ok", prv \o PublicKeyRaw(curve, prv)>>)

KEK == Idle /\ \E prv \in Keys, pub \in Pubs(curve), ukm \in UKMs :
  \E r \in kek(curve, ct, prv, pub, ukm) :
    Call([op |-> "agree", prv |-> prv, pub |-> pub, ukm |-> ukm], r)

Multiplies(k, pt) == [op |-> "multiply", k |-> k, pt |-> pt]

\* ScalarMultSecret without the flag, or with nothing to multiply.
Multiply == Idle /\ \E k \in 0..(curve.q - 1), pt \in Points(curve) :
  /\ ct => k = 0 \/ pt = Infinity
  /\ Call(Multiplies(k, pt), <<"ok", ScalarMult(curve, k, pt)>>)

\* ScalarMultCT enters its loop.
MultiplyCT == Idle /\ ct /\ \E k \in 1..(curve.q - 1), pt \in Points(curve) \ {Infinity} :
  /\ job' = Multiplies(k, pt)
  /\ loop' = [tbl |-> windowTable(curve, fromAffine(curve, pt)), acc |-> identity(curve), left |-> nWin(curve)]
  /\ UNCHANGED <<curve, ct, attempts, result>>

FoldWindow ==
  /\ loop # <<>> /\ loop.left > 0
  /\ LET wi == loop.left - 1
     IN  loop' = [loop EXCEPT !.left = wi,
                              !.acc = ctAdd(curve, shifted(curve, @), loop.tbl[digit(job.k, wi)])]
  /\ UNCHANGED <<curve, ct, job, attempts, result>>

MultiplyDone ==
  /\ loop # <<>> /\ loop.left = 0
  /\ result' = <<"ok", toAffine(curve, loop.acc)>>
  /\ loop' = <<>>
  /\ UNCHANGED <<curve, ct, job, attempts>>

SignDigestOnCurve == Idle /\ \E prv \in Keys, digest \in Digests :
  Call([op |-> "sign", prv |-> prv, digest |-> digest], <<"none">>)

Signing == job.op = "sign" /\ result = <<"none">>

\* One turn of the loop.  k is what rand.Int draws; it is written little-endian
\* and read big-endian.
SignAttempt == Signing /\ attempts < Attempts /\ \E k \in 0..(curve.q - 1) :
  LET sig == IF k = 0 THEN Nil ELSE SignDigest(curve, job.prv, job.digest, putLE(k))
  IN  /\ attempts' = attempts + 1
      /\ result' = IF sig = Nil THEN result ELSE <<"ok", sig>>
      /\ UNCHANGED <<curve, ct, job, loop>>

\* rand.Int fails.
NonceError ==
  /\ Signing /\ attempts < Attempts
  /\ result' = <<"randError", Nil>>
  /\ UNCHANGED <<curve, ct, job, attempts, loop>>

ExhaustedAttempts ==
  /\ Signing /\ attempts = Attempts
  /\ result' = <<"exhausted", Nil>>
  /\ UNCHANGED <<curve, ct, job, attempts, loop>>

Next ==
  \/ PublicKeyRawFromPrivate \/ GenerateEphemeralKey \/ VerifyDigestOnCurve \/ KEK
  \/ Multiply \/ MultiplyCT \/ FoldWindow \/ MultiplyDone
  \/ SignDigestOnCurve \/ SignAttempt \/ NonceError \/ ExhaustedAttempts

Spec == Init /\ [][Next]_vars
-----------------------------------------------------------------------------
(* Properties *)

PointOf(raw) == <<leBytes2big(First(raw)), leBytes2big(Second(raw))>>

\* What the signing loop returns verifies under the public key of the signer,
\* whichever nonces were skipped before: zero, r = 0 and s = 0 (exports.go:181-215),
\* with the signature's halves and byte orders read back (gost3410sign.go:123-188).
SignatureVerifies ==
  job.op = "sign" /\ result[1] = "ok" =>
    VerifyDigest(curve, PublicKeyRaw(curve, job.prv), job.digest, result[2])

\* Verification accepts exactly the signatures some nonce produces for the
\* private key behind the public one, and no second encoding of one
\* (gost3410sign.go:136-141).
VerifyExact ==
  job.op = "verify" =>
    \A d \in 1..(curve.q - 1) :
      Len(job.pub) = 2 * PointSize /\ PointOf(job.pub) = BaseMultiples[curve][d] =>
        (result[2] <=>
           \E k \in 1..(curve.q - 1) :
             LET r == BaseMultiples[curve][k][1] % curve.q
                 s == (r * d + k * DigestInt(curve, job.digest)) % curve.q
             IN  r # 0 /\ s # 0 /\ job.sig = fillBE(s) \o fillBE(r))

\* The point that VKO returns for private keys d and e is (cofactor * UKM * d * e) * P,
\* which is the same for both sides, whichever multiplication each of them uses, and the
\* only other outcomes are the errors for zero inputs.  For every other public key on
\* the curve, torsion components included, a point that is returned lies in the subgroup
\* of order q and is not the identity: the cofactor survives the reduction of the UKM.  A
\* generated key pair is a scalar and its multiple, never zero, whatever bytes the
\* reader delivers (vko.go:161-245, modes.go:276-311).
AgreementExact ==
  /\ job.op = "agree" /\ Len(job.prv) = PointSize /\ curve.cofactor \in {1, 4} =>
       \A e \in 1..(curve.q - 1) :
         Len(job.pub) = 2 * PointSize /\ PointOf(job.pub) = BaseMultiples[curve][e] =>
           LET d   == leBytes2big(job.prv) % curve.q
               ukm == leBytes2big(job.ukm)
               k   == BaseMultiples[curve][(curve.cofactor * ukm * d * e) % curve.q]
           IN  result = IF d = 0 THEN <<"zeroPrivate", Nil>>
                        ELSE IF ukm = 0 THEN <<"zeroUKM", Nil>>
                        ELSE IF k = Infinity THEN <<"identity", Nil>>
                        ELSE <<"ok", pointLE(k)>>
  /\ job.op = "agree" /\ result[1] = "ok" =>
       PointOf(result[2]) # Infinity /\ InSubgroup(curve, PointOf(result[2]))
  /\ job.op = "generate" /\ result[1] = "ok" =>
       LET d == leBytes2big(First(result[2]))
       IN  d \in 1..(curve.q - 1) /\ PointOf(SubSeq(result[2], PointSize + 1, 3 * PointSize)) = BaseMultiples[curve][d]

\* Both multiplications are repeated addition, for every scalar below q: the reference one on
\* every point of the curve, the constant-time one on the points of the subgroup, and
\* elsewhere it is that or the identity (curves.go:445-460, ctscalar.go:65-94).
MultExact ==
  job.op = "multiply" /\ result # <<"none">> =>
    \/ result[2] = Multiples(curve, job.pt)[job.k]
    \/ result[2] = Infinity /\ ct /\ ~InSubgroup(curve, job.pt)

\* Add is the operation of a commutative group.
GroupLaw(c) ==
  \A s, t \in Points(c) :
    /\ Add(c, s, t) \in Points(c)
    /\ Add(c, s, t) = Add(c, t, s)
    /\ \E u \in Points(c) : Add(c, s, u) = Infinity
    /\ \A u \in Points(c) : Add(c, Add(c, s, t), u) = Add(c, s, Add(c, t, u))

\* The base point has order q, and the cofactor is that of its subgroup.
OrderLaw(c) ==
  /\ Add(c, BaseMultiples[c][c.q - 1], Base(c)) = Infinity
  /\ \A pt \in Points(c) : InSubgroup(c, ScalarMult(c, c.cofactor, pt))

\* The projective coordinates of a point, and the entries of the window tables.
Projective(c, pt) ==
  LET scaled(z, u) == feMul(c.p, z, toMont(c.p, u))
  IN  IF pt = Infinity THEN {<<0, y, 0>> : y \in 1..(c.p - 1)}
      ELSE {<<scaled(z, pt[1]), scaled(z, pt[2]), z>> : z \in 1..(c.p - 1)}
Entries(c) == UNION {{windowTable(c, fromAffine(c, pt))[d] : d \in 0..(2^Window - 1)} : pt \in Points(c)}

\* What the complete formulas may compute for s + t.  The coordinates Lost stand for
\* no point; they appear for some pairs outside the subgroup, and stay.
Lost == <<0, 0, 0>>
Sums(c, s, t) ==
  Projective(c, Add(c, s, t)) \cup IF InSubgroup(c, s) /\ InSubgroup(c, t) THEN {} ELSE {Lost}

\* The complete formulas add points.
FormulaLaw(c) ==
  LET entries == Entries(c)
  IN  \A s, t \in Points(c) :
        LET sums == Sums(c, s, t)
        IN  \A P \in Projective(c, s) :
              /\ s = t => ctDouble(c, P) \in sums
              /\ \A Q \in entries \cap Projective(c, t) : ctAdd(c, P, Q) \in sums

\* A point goes to projective coordinates and back, and what is lost stays lost.
CoordinateLaw(c) ==
  /\ \A s \in Points(c) :
       /\ fromAffine(c, s) \in Projective(c, s)
       /\ \A P \in Projective(c, s) : toAffine(c, P) = s /\ ctAdd(c, P, Lost) = Lost
  /\ \A Q \in Entries(c) \cup {Lost} : ctAdd(c, Lost, Q) = Lost
  /\ ctDouble(c, Lost) = Lost

\* Montgomery arithmetic on limbs is arithmetic modulo p.
FieldLaw(p) ==
  \A a, b \in 0..(p - 1) :
    /\ feAdd(p, a, b) = (a + b) % p
    /\ feSub(p, a, b) = (a - b) % p
    /\ fromMont(p, feMul(p, toMont(p, a), toMont(p, b))) = (a * b) % p
    /\ a # 0 => (a * fromMont(p, feInv(p, toMont(p, a)))) % p = 1

\* Add is the operation of a group on all points of the curve, its special
\* cases (identity, inverse, doubling, order two) included; q and the cofactor are
\* those of the group; the complete formulas compute that operation, or lose a point
\* outside the subgroup; and Montgomery arithmetic on limbs is arithmetic modulo p,
\* with p so close to R that sums overflow it (curves.go:361-426,
\* ctpoint.go:57-185, ctfield.go:138-273).
ArithmeticExact ==
  /\ job.op = "none" /\ ~ct => GroupLaw(curve) /\ OrderLaw(curve) /\ FormulaLaw(curve) /\ CoordinateLaw(curve)
  /\ job.op = "none" /\ ct => FieldLaw(curve.p)

\* ctscalar.go:173-175: ScalarMultCT "is the constant-time counterpart of
\* ScalarMult" and "returns k*p", without a condition on p (here on the cofactors
\* of the registered curves).
CtIsReference ==
  job.op = "multiply" /\ curve.cofactor \in {1, 4} /\ result # <<"none">> => result[2] = ScalarMult(curve, job.k, job.pt)
=============================================================================
