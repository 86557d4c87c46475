------------------------------- MODULE Blocks -------------------------------
(* Cutting a message into blocks, shared by the reference definitions of    *)
(* the MAC and the hash functions.                                          *)
EXTENDS Sequences, Integers

\* Block number i (from 1) of size n of the message m.
Block(m, n, i) == SubSeq(m, (i - 1) * n + 1, i * n)

\* The first k blocks of size n, and what is left after them.
BlocksOf(m, n, k) == [i \in 1..k |-> Block(m, n, i)]
TailOf(m, n, k)   == SubSeq(m, k * n + 1, Len(m))

\* s filled up to n bytes with z.
PadTo(s, n, z) == [i \in 1..n |-> IF i <= Len(s) THEN s[i] ELSE z]

\* m is x bytes, then the first l bytes of b, then r.
Cut(m, x, b, l, r) ==
  /\ Len(m) = x + l + Len(r)
  /\ \A i \in 1..l : b[i] = m[x + i]
  /\ \A i \in 1..Len(r) : r[i] = m[x + l + i]

\* The sum of k numbers.
Total(nums, k) ==
  LET s[i \in 0..k] == IF i = 0 THEN 0 ELSE s[i - 1] + nums[i]
  IN  s[k]

\* n bytes as the little-endian number they encode to the base base.
NumberOf(b, n, base) == Total([i \in 1..n |-> b[i] * base^(i - 1)], n)

\* All messages over B of at most k bytes.
MessagesUpTo(B, k) == UNION {[1..n -> B] : n \in 0..k}
=============================================================================
