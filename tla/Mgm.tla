-------------------------------- MODULE Mgm --------------------------------
(***************************************************************************)
(* mgm/mgm.go: Seal and Open of the MGM AEAD on one MGM value, whose       *)
(* scratch buffers live on from call to call.                              *)
(*                                                                         *)
(* Data abstraction.  A nonce is <<top bit, rest>>.  E_K is left open: the *)
(* seeds Y_1 and Z_1 are named by the block that was encrypted, a counter  *)
(* by its seed and the number of increments of one half, hence modulo      *)
(* 2^(n/2).  A byte is the xor of a value and a set of keystream bytes.    *)
(* The GF sum is the set of its terms H_i * block, without the zero ones,  *)
(* and stands for the tag, whose cut to tagSize bytes is left out.         *)
(***************************************************************************)
EXTENDS MgmLengths, Sequences

CONSTANTS
  BlockSize,   \* blockSize in bytes
  UintBits,    \* bits.UintSize
  Values,      \* byte values of the messages tried
  Nonces,      \* nonces tried: <<len, top, rest>>
  Messages     \* plaintexts and additional data tried, sequences over Values

HalfBits == (BlockSize * BitsPerByte) \div 2
CtrMod == 2^HalfBits

ASSUME MgmAssumption ==
  /\ BlockSize \in Nat \ {0} /\ BlockSize % 2 = 0
  /\ WordBits >= HalfBits /\ UintBits \in 2..WordBits
  /\ 0 \in Values /\ Values \subseteq 0..(2^BitsPerByte - 1) /\ Messages \subseteq Seq(Values)

\* The value v xored with the keystream bytes of the set ks.
Byte(v, ks) == [v |-> v, ks |-> ks]
Plain(s) == [i \in DOMAIN s |-> Byte(s[i], {})]
Zero == Byte(0, {})

VARIABLES
  pc,          \* "idle", or what the call does next: "crypt", "ad", "ct", "len", "compare"
  op,          \* "seal" or "open", "none" after a call that was turned down
  icn,         \* scratch: nonce copy
  yi, zi,      \* scratch: counters <<seed, increments>>
  sum,         \* scratch: GF accumulator
  pad,         \* scratch: padding buffer
  in, ad,      \* arguments: plaintext or ciphertext without tag, additional data
  recv,        \* argument of Open: the received tag
  done,        \* bytes of the pass in progress that were handled
  out,         \* what was written to dst
  tag,         \* the tag computed
  result,      \* how the last call ended: "none", "panic", "ok" or "error"
  sealed,      \* history: the last message sealed, [nonce, ad, pt, ct, tag]
  seeds        \* history: <<nonce, seed of Y>> of every message encrypted

vars == <<pc, op, icn, yi, zi, sum, pad, in, ad, recv, done, out, tag, result, sealed, seeds>>

-----------------------------------------------------------------------------
(* Guards *)

\* Mutant: the top bit is not looked at.
ValidNonceAnyTop(n) == n[1] = BlockSize

ValidNonce(n) == n[1] = BlockSize /\ n[2] = 0

ValidLengths(a, p) == ValidLens(HalfBits, UintBits, a, p)

-----------------------------------------------------------------------------
Init ==
  /\ pc = "idle" /\ op = "none" /\ icn = <<0, 0>> /\ yi = <<icn, 0>> /\ zi = <<icn, 0>>
  /\ sum = {} /\ pad = [i \in 1..BlockSize |-> Zero]
  /\ in = <<>> /\ ad = <<>> /\ recv = {} /\ done = 0 /\ out = <<>> /\ tag = {}
  /\ result = "none" /\ sealed = <<>> /\ seeds = {}

\* A call that ends before it touches the scratch or dst.
Reject(r) ==
  /\ result' = r /\ op' = "none" /\ out' = <<>>
  /\ UNCHANGED <<pc, icn, yi, zi, sum, pad, in, ad, recv, done, tag, sealed, seeds>>

\* Both passes start from the encrypted nonce under their own top bit.
StartCrypt(n) == yi' = <<<<0, n[2]>>, 0>> /\ seeds' = seeds \cup {<<n, <<0, n[2]>>>>}
StartAuth(n) == zi' = <<<<1, n[2]>>, 0>> /\ sum' = {}

Seal(n, pt, a) ==
  /\ pc = "idle"
  /\ IF ~ValidNonce(n) \/ ~ValidLengths(Len(a), Len(pt))
     THEN Reject("panic")
     ELSE /\ pc' = "crypt" /\ op' = "seal" /\ icn' = <<n[2], n[3]>>
          /\ in' = Plain(pt) /\ ad' = Plain(a) /\ done' = 0 /\ out' = <<>> /\ result' = "none"
          /\ StartCrypt(<<n[2], n[3]>>)
          /\ recv' = {} /\ tag' = {}
          /\ UNCHANGED <<zi, sum, pad, sealed>>

\* A ciphertext argument that is shorter than a tag.
OpenShort(n) ==
  /\ pc = "idle"
  /\ Reject(IF ValidNonce(n) THEN "error" ELSE "panic")

\* ct and t are the two parts of the ciphertext argument.
Open(n, ct, t, a) ==
  /\ pc = "idle"
  /\ IF ~ValidNonce(n) THEN Reject("panic")
     ELSE IF ~ValidLengths(Len(a), Len(ct)) THEN Reject("error")
     ELSE /\ pc' = "ad" /\ op' = "open" /\ icn' = <<n[2], n[3]>>
          /\ in' = ct /\ ad' = Plain(a) /\ recv' = t
          /\ done' = 0 /\ out' = <<>> /\ result' = "none"
          /\ StartAuth(<<n[2], n[3]>>)
          /\ tag' = {}
          /\ UNCHANGED <<yi, pad, sealed, seeds>>

Room(s) == IF Len(s) - done < BlockSize THEN Len(s) - done ELSE BlockSize

Incr(c) == <<c[1], (c[2] + 1) % CtrMod>>
incrR(c) == Incr(c)
incrL(c) == Incr(c)

Xor(A, B) == (A \cup B) \ (A \cap B)

\* One turn of the loop of crypt.
CryptBlock ==
  /\ pc = "crypt" /\ done < Len(in)
  /\ LET n == Room(in)
     IN  /\ out' = out \o [i \in 1..n |->
                     Byte(in[done + i].v, Xor(in[done + i].ks, {<<yi, i>>}))]
         /\ done' = done + n
  /\ yi' = incrR(yi)
  /\ UNCHANGED <<pc, op, icn, zi, sum, pad, in, ad, recv, tag, result, sealed, seeds>>

\* crypt returns: Seal goes on with auth over the ciphertext, Open is finished.
CryptDone ==
  /\ pc = "crypt" /\ done = Len(in)
  /\ IF op = "seal"
     THEN pc' = "ad" /\ done' = 0 /\ StartAuth(icn) /\ UNCHANGED result
     ELSE pc' = "idle" /\ result' = "ok" /\ UNCHANGED <<done, zi, sum>>
  /\ UNCHANGED <<op, icn, yi, pad, in, ad, recv, out, tag, sealed, seeds>>

IsZero(b) == \A i \in DOMAIN b : b[i] = Zero

\* sum ^= E_K(Z_i) * b.
Accumulate(b) == sum' = IF IsZero(b) THEN sum ELSE Xor(sum, {<<zi, b>>})

\* Mutant: Open, too, authenticates what it wrote.
CtOfOut == out

\* The ciphertext that auth covers.
CtOf == IF op = "seal" THEN out ELSE in
Data == IF pc = "ad" THEN ad ELSE CtOf

\* Mutant: the rest of the padding buffer is not cleared.
PaddedStale(d) == [i \in 1..BlockSize |-> IF i <= Len(d) THEN d[i] ELSE pad[i]]

Padded(d) == [i \in 1..BlockSize |-> IF i <= Len(d) THEN d[i] ELSE Zero]

\* One turn of the loop of process, over ad and then over the ciphertext.
AuthBlock ==
  /\ pc \in {"ad", "ct"} /\ done < Len(Data)
  /\ LET d == SubSeq(Data, done + 1, done + Room(Data))
     IN  /\ pad' = IF Len(d) < BlockSize THEN Padded(d) ELSE pad
         /\ Accumulate(IF Len(d) < BlockSize THEN pad' ELSE d)
         /\ done' = done + Len(d)
  /\ zi' = incrL(zi)
  /\ UNCHANGED <<pc, op, icn, yi, in, ad, recv, out, tag, result, sealed, seeds>>

AuthDone ==
  /\ pc \in {"ad", "ct"} /\ done = Len(Data)
  /\ pc' = IF pc = "ad" THEN "ct" ELSE "len"
  /\ done' = 0
  /\ UNCHANGED <<op, icn, yi, zi, sum, pad, in, ad, recv, out, tag, result, sealed, seeds>>

\* len * 8 as big-endian bytes of half a block, truncated to its width.
LenBytes(len) ==
  LET bits == LenField(HalfBits, len)
      half == BlockSize \div 2
  IN  [i \in 1..half |-> Byte((bits \div 2^(BitsPerByte * (half - i))) % 2^BitsPerByte, {})]

\* Mutant: one length for both.
lenBTotal(a, c) == LenBytes(a + c) \o LenBytes(a + c)

lenB(a, c) == LenBytes(a) \o LenBytes(c)

\* The last term, then T = MSB_S(E_K(sum)); Seal returns.
Tagged ==
  /\ pc = "len"
  /\ Accumulate(lenB(Len(ad), Len(CtOf)))
  /\ tag' = sum'
  /\ IF op = "seal"
     THEN /\ pc' = "idle" /\ result' = "ok"
          /\ sealed' = [nonce |-> icn, ad |-> ad, pt |-> in, ct |-> out, tag |-> sum']
     ELSE pc' = "compare" /\ UNCHANGED <<result, sealed>>
  /\ UNCHANGED <<op, icn, yi, zi, pad, in, ad, recv, done, out, seeds>>

\* Mutant: the ciphertext is in dst before the tag is checked.
CompareCopiesFirst ==
  /\ pc = "compare"
  /\ IF tag = recv
     THEN pc' = "crypt" /\ StartCrypt(icn) /\ UNCHANGED <<result, out>>
     ELSE pc' = "idle" /\ result' = "error" /\ out' = in /\ UNCHANGED <<yi, seeds>>
  /\ UNCHANGED <<op, icn, zi, sum, pad, in, ad, recv, done, tag, sealed>>

\* Open compares before it decrypts anything.
Compare ==
  /\ pc = "compare"
  /\ IF tag = recv
     THEN pc' = "crypt" /\ StartCrypt(icn) /\ UNCHANGED result
     ELSE pc' = "idle" /\ result' = "error" /\ UNCHANGED <<yi, seeds>>
  /\ UNCHANGED <<op, icn, zi, sum, pad, in, ad, recv, done, out, tag, sealed>>

\* Ciphertexts that exist: the last one sealed, whole, cut, extended or altered.
Received ==
  IF sealed = <<>> THEN {<<>>}
  ELSE {sealed.ct, Append(sealed.ct, Zero), SubSeq(sealed.ct, 1, Len(sealed.ct) - 1)}
       \cup {[sealed.ct EXCEPT ![i].v = (@ + 1) % 2] : i \in DOMAIN sealed.ct}

Next ==
  \/ \E n \in Nonces, pt, a \in Messages : Seal(n, pt, a)
  \/ \E n \in Nonces, a \in Messages : \E c \in Received :
       Open(n, c, IF sealed = <<>> THEN {} ELSE sealed.tag, a)
  \/ \E n \in Nonces : OpenShort(n)
  \/ CryptBlock \/ CryptDone \/ AuthBlock \/ AuthDone \/ Tagged \/ Compare

Spec == Init /\ [][Next]_vars

-----------------------------------------------------------------------------
(* Properties *)

\* RFC 9058 with no state: byte i of the ciphertext, block j of the data
\* authenticated, and the terms of the tag.
RefCt(n, pt) ==
  [i \in 1..Len(pt) |->
     Byte(pt[i].v, Xor(pt[i].ks, {<<<<<<0, n[2]>>, (i - 1) \div BlockSize>>, ((i - 1) % BlockSize) + 1>>}))]

BlocksOf(len) == (len + BlockSize - 1) \div BlockSize

RefBlocks(s) ==
  [j \in 1..BlocksOf(Len(s)) |->
     [i \in 1..BlockSize |-> LET k == (j - 1) * BlockSize + i IN IF k <= Len(s) THEN s[k] ELSE Zero]]

AllBlocks(a, c) == RefBlocks(a) \o RefBlocks(c) \o <<lenB(Len(a), Len(c))>>

\* The terms of the first k blocks.
Terms(n, all, k) == {<<<<<<1, n[2]>>, j - 1>>, all[j]>> : j \in {i \in 1..k : ~IsZero(all[i])}}

RefTag(n, a, c) == LET all == AllBlocks(a, c) IN Terms(n, all, Len(all))

\* Whatever earlier calls, failed ones included, left in the scratch buffers, a
\* Seal returns the ciphertext and tag of RFC 9058 for its arguments alone
\* (mgm.go:135-162, 330-432).
SealIsRFC ==
  pc = "idle" /\ op = "seal" /\ result = "ok" =>
    out = RefCt(icn, in) /\ tag = RefTag(icn, ad, out)

\* Open inverts Seal and nothing else: it succeeds exactly when the tag is that
\* of the nonce, the additional data and the ciphertext, and then returns the
\* plaintext that Seal would turn into this ciphertext (mgm.go:167-205).
OpenInvertsSeal ==
  pc = "idle" /\ op = "open" =>
    /\ result = "ok" <=> recv = RefTag(icn, ad, in)
    /\ result = "ok" => RefCt(icn, out) = in
    /\ result = "ok" /\ icn = sealed.nonce /\ ad = sealed.ad =>
         in = sealed.ct /\ out = sealed.pt

\* Zero padding carries no marker: only the length block keeps additional data
\* and ciphertext of one nonce apart.  No two pairs that Seal accepts get the
\* same tag (mgm.go:366-427).
TagSeparates ==
  sealed # <<>> =>
    \A a, c \in Messages :
      /\ ValidLengths(Len(a), Len(c))
      /\ RefTag(sealed.nonce, Plain(a), Plain(c)) = RefTag(sealed.nonce, sealed.ad, sealed.pt)
      => Plain(a) = sealed.ad /\ Plain(c) = sealed.pt

\* A failed Open has written nothing to dst (mgm.go:196-203).
NothingReleased == result \in {"error", "panic"} => out = <<>>

\* Two nonces never share a keystream: the bit that tells Y from Z is not part
\* of the nonce (mgm.go:434-442).
NoncesSeparate == \A s, t \in seeds : s[2] = t[2] => s[1] = t[1]

\* The guards admit exactly the lengths of RFC 9058, though products and sums
\* wrap in 64 bits, 2^(n/2) itself may not fit a word, and int may be narrower
\* than the limit (mgm.go:218-254).  half and uint are n/2 and the width of int.
LimitIsRFC ==
  op = "none" /\ result = "none" =>
    \A half \in ShiftAdj..WordBits, uint \in 2..WordBits : \A a, p \in Lengths(uint) :
      ValidLens(half, uint, a, p) <=> RFCLens(half, a, p)

-----------------------------------------------------------------------------
(* The inductive invariant *)

Rests == {n[3] : n \in Nonces}
Pads == (({0} \X Rests) \X (0..(CtrMod - 1))) \X (1..BlockSize)
Bytes == [v : Nat, ks : SUBSET Pads]

TypeOK ==
  /\ pc \in {"idle", "crypt", "ad", "ct", "len", "compare"} /\ op \in {"none", "seal", "open"}
  /\ in \in Seq(Bytes) /\ ad \in Seq(Bytes) /\ out \in Seq(Bytes) /\ done \in Nat

\* A call got past its guards; Open was given the tag of the last message sealed.
CallInv ==
  pc # "idle" \/ op # "none" =>
    /\ icn \in {0} \X Rests /\ ValidLengths(Len(ad), Len(in)) /\ op \in {"seal", "open"}
    /\ pc # "idle" => result = "none"
    /\ op = "open" => recv = IF sealed = <<>> THEN {} ELSE sealed.tag

\* A pass stops at block boundaries.
Boundary(s) == done <= Len(s) /\ (done % BlockSize = 0 \/ done = Len(s))

\* crypt has written the bytes before done, and counted their blocks.
CryptInv ==
  pc = "crypt" =>
    /\ Boundary(in) /\ yi = <<<<0, icn[2]>>, BlocksOf(done)>>
    /\ Len(out) = done /\ \A i \in 1..done : out[i] = RefCt(icn, in)[i]
    /\ op = "open" => recv = RefTag(icn, ad, in)

\* The blocks auth has handled.
Handled == CASE pc = "ad" -> BlocksOf(done)
             [] pc = "ct" -> BlocksOf(Len(ad)) + BlocksOf(done)
             [] pc = "len" -> BlocksOf(Len(ad)) + BlocksOf(Len(CtOf))

\* auth has added their terms, and counted them.
AuthInv ==
  pc \in {"ad", "ct", "len"} =>
    /\ out = IF op = "seal" THEN RefCt(icn, in) ELSE <<>>
    /\ IF pc = "len" THEN done = 0 ELSE Boundary(Data)
    /\ zi = <<<<1, icn[2]>>, Handled>> /\ sum = Terms(icn, AllBlocks(ad, CtOf), Handled)

CompareInv ==
  pc = "compare" => op = "open" /\ out = <<>> /\ done = 0 /\ tag = RefTag(icn, ad, in)

\* What the last call returned.
IdleInv ==
  pc = "idle" =>
    /\ op = "none" => result # "ok" /\ out = <<>>
    /\ op = "seal" => result = "ok" /\ out = RefCt(icn, in) /\ tag = RefTag(icn, ad, out)
    /\ op = "open" => IF recv = RefTag(icn, ad, in) THEN result = "ok" /\ out = RefCt(icn, in)
                      ELSE result = "error" /\ out = <<>>

SealedInv ==
  sealed # <<>> =>
    /\ sealed.nonce \in {0} \X Rests /\ sealed.ad \in Seq(Bytes) /\ sealed.pt \in Seq(Bytes)
    /\ ValidLengths(Len(sealed.ad), Len(sealed.pt))
    /\ sealed.ct = RefCt(sealed.nonce, sealed.pt)
    /\ sealed.tag = RefTag(sealed.nonce, sealed.ad, sealed.ct)

SeedInv == \A s \in seeds : \E r \in Rests : s = <<<<0, r>>, <<0, r>>>>

IInv ==
  TypeOK /\ CallInv /\ CryptInv /\ AuthInv /\ CompareInv /\ IdleInv /\ SealedInv /\ SeedInv
=============================================================================
