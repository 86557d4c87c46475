----------------------------- MODULE MCGostKeys -----------------------------
(* GostKeys on curves small enough to try every point.  A field element is   *)
(* two limbs of two bits, and all primes have the top bit set, as the        *)
(* primes of the registered curves do.                                       *)
EXTENDS GostKeys

Curve(p, a, b, q, x, y, cofactor) ==
  [p |-> p, a |-> a, b |-> b, q |-> q, x |-> x, y |-> y, cofactor |-> cofactor]

\* q above p; base point with x = 0, as CryptoPro-C has it; q below p;
\* cofactor 4 as tc26-256-A; a cofactor that vko refuses.
MCCurves == {
  Curve(11, 1, 6, 13, 2, 4, 1), Curve(13, 7, 3, 13, 0, 4, 1), Curve(13, 7, 6, 11, 1, 1, 1),
  Curve(13, 7, 5, 5, 2, 1, 4), Curve(11, 2, 6, 7, 1, 3, 2)}

Encoded(n) == {[i \in 1..n |-> (v \div 4^(i - 1)) % 4] : v \in 0..(4^n - 1)}

\* All of the right width, one too short, one too long.
MCKeys == Encoded(2) \cup {<<1>>, <<1, 0, 2>>}

\* 0, 5 (q of one curve), 27.
MCDigests == {<<0, 0>>, <<1, 1>>, <<1, 2, 3>>}

\* Every point, one off the curve or out of range, one of the wrong width.
MCPubs(c) == {pointLE(pt) : pt \in Points(c) \ {Infinity}}
               \cup {putLE(c.x) \o putLE(c.y + 1), putLE(15) \o putLE(c.y), <<1, 1>>}

MCSigs == Encoded(4) \cup {<<1, 1>>}

\* 0, 1, 5, 11, 13, 16.
MCUKMs == {<<0>>, <<1>>, <<1, 1>>, <<3, 2>>, <<1, 3>>, <<0, 0, 1>>}
=============================================================================
