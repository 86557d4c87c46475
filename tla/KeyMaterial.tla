---------------------------- MODULE KeyMaterial ----------------------------
(***************************************************************************)
(* kdftree/, tlstree/, keg/ and kexp15/, with the facade's entry points in *)
(* modes.go: what keys are derived from, and how a key is exported.  A     *)
(* behaviour is one call.                                                  *)
(*                                                                         *)
(* HMAC, OMAC, VKO and the block ciphers are symbols: an output byte says  *)
(* what it was computed from, so two outputs are equal exactly when their  *)
(* inputs are.  A byte has ByteBits bits and a digest HashSize bytes; as   *)
(* in the code (32 * 8 = 2^8) a digest has Radix bits.                     *)
(***************************************************************************)
EXTENDS Words, Calls, FiniteSets

CONSTANTS
  HashSize,      \* hashSize, KeySize: 32
  IntBytes,      \* bytes of a uint64 in memory: 8
  KdfKeys, KdfLabels, KdfSeeds, CounterWidths, OutLens,
  Suites,        \* Suites[s][i]: low bits cleared by mask C_i of suite s
  SeqNums,       \* record sequence numbers
  Masters,       \* master keys, one of the wrong length
  UkmLen,        \* ukmLen: 16
  SeedEnd,       \* kdfSeedEnd: 24
  UkmSourceLen,  \* ukmSourceLen: 32
  UkmSources,    \* UKM material, some of it too short
  Curves,        \* curves of 256 bits, with DefaultCurve (TC26 256-bit A)
  WideCurve,     \* a curve of 512 bits
  NilCurve, DefaultCurve,
  Parties,       \* owners of a key pair
  Variants,      \* Variants[v]: block, ivLen and macLen of a KExp15 variant
  NoVariant,     \* a value of KexpVariant that names none
  SharedKeys, ExportKeys, ExportIVs

ASSUME KeyMaterialAssumption ==
  /\ HashSize * ByteBits = Radix
  /\ UkmLen < SeedEnd /\ SeedEnd < UkmSourceLen
  /\ \A v \in DOMAIN Variants : Variants[v].block = 2 * Variants[v].ivLen
  /\ \A u \in DOMAIN Suites : Suites[u][1] > Suites[u][2] /\ Suites[u][2] > Suites[u][3]

-----------------------------------------------------------------------------
(* KDF_TREE. *)

\* External: HMAC over Streebog-256, for keys of one length.
Hmac(key, msg) == Tuple([j \in 1..HashSize |-> <<key, msg, j>>], HashSize)

PutUint64(v) == Tuple([i \in 1..IntBytes |-> ByteAt(v, IntBytes + 1 - i)], IntBytes)

counterBytes(v, r) == SubSeq(PutUint64(v), IntBytes - r + 1, IntBytes)

encodeNoLeadingZeros(v) ==
  LET full == PutUint64(v)
      i == CHOOSE i \in 1..IntBytes : /\ \A j \in 1..(i - 1) : full[j] = 0
                                      /\ i = IntBytes \/ full[i] # 0
  IN  SubSeq(full, i, IntBytes)

\* Mutant: the separator after the label is forgotten.
KdfMessageUnseparated(i, r, label, seed, outLen) ==
  counterBytes(i, r) \o label \o seed \o encodeNoLeadingZeros(outLen * ByteBits)

KdfMessage(i, r, label, seed, outLen) ==
  counterBytes(i, r) \o label \o <<0>> \o seed \o encodeNoLeadingZeros(outLen * ByteBits)

KDFTree256(key, label, seed, r, outLen) ==
  LET iters == (outLen + HashSize - 1) \div HashSize
  IN  IF r \notin 1..4 \/ outLen <= 0 \/ iters > Radix^r - 1 THEN Panicked
      ELSE SubSeq(Loop(LAMBDA out, i : out \o Hmac(key, KdfMessage(i, r, label, seed, outLen)), <<>>, iters),
                  1, outLen)

KDFTree2012_256(key, label, seed, outLen) ==
  IF outLen <= 0 \/ outLen % HashSize # 0 \/ outLen > (Radix^2 - 1) \div ByteBits THEN Panicked
  ELSE KDFTree256(key, label, seed, 1, outLen)

-----------------------------------------------------------------------------
(* TLSTREE. *)

\* The ASCII of "levelN" as one byte that is not zero.
levelLabel(n) == <<n>>

kdf(key, label, seed) == Hmac(key, <<1>> \o label \o <<0>> \o seed \o <<1, 0>>)

\* Mutant: the third level is seeded as the second.
LevelSeedShallow(suite, n, seqNum) ==
  LET c == Suites[suite][IF n = 3 THEN 2 ELSE n] IN PutUint64(seqNum - (seqNum % 2^c))

\* seqNum & C_n, big-endian.
LevelSeed(suite, n, seqNum) == PutUint64(seqNum - (seqNum % 2^Suites[suite][n]))

Derive(suite, root, seqNum) ==
  Loop(LAMBDA key, n : kdf(key, levelLabel(n), LevelSeed(suite, n, seqNum)), root, 3)

\* newTree panics on a master key of another length.
TreeKey(suite, master, seqNum) ==
  IF Len(master) # HashSize THEN Panicked ELSE Derive(suite, master, seqNum)

-----------------------------------------------------------------------------
(* KEG. *)

\* The little-endian integer vko makes of the UKM.
UkmInteger(ukm) == Loop(LAMBDA n, i : n * Radix + ukm[Len(ukm) + 1 - i], 0, Len(ukm))

\* External: the VKO agreement (module GostKeys) is the same for both parties.
\* It refuses a UKM of zero and a public key that is not on the curve.
KEK2012256(curve, prv, pub, ukm) ==
  IF UkmInteger(ukm) = 0 \/ pub.curve # curve THEN Failed
  ELSE Tuple([j \in 1..HashSize |-> <<curve, {prv, pub.owner}, UkmInteger(ukm), j>>], HashSize)

\* Mutant: no special case for zeros.
realUKMPlain(src) == Reversed(SubSeq(src, 1, UkmLen))

realUKM(src) ==
  IF \A i \in 1..UkmLen : src[i] = 0 THEN Zeros(UkmLen - 1) \o <<1>>
  ELSE Reversed(SubSeq(src, 1, UkmLen))

kdfLabel == <<7, 3>>

KEG2012_256(curve, pub, prv, ukmSource) ==
  LET used == IF curve = NilCurve THEN DefaultCurve ELSE curve
      key  == KEK2012256(used, prv, pub, realUKM(ukmSource))
  IN  IF Len(ukmSource) # UkmSourceLen \/ curve = WideCurve \/ key = Failed THEN Failed
      ELSE KDFTree256(key, kdfLabel, SubSeq(ukmSource, UkmLen + 1, SeedEnd), 1, 2 * HashSize)

-----------------------------------------------------------------------------
(* KExp15. *)

\* Mutant: the counter is incremented from its first byte on.
incCounterFront(ctr) ==
  LET n == CHOOSE n \in 1..Len(ctr) : (\A j \in 1..(n - 1) : ctr[j] = Radix - 1)
                                      /\ (n = Len(ctr) \/ ctr[n] # Radix - 1)
  IN  Tuple([j \in 1..Len(ctr) |-> IF j <= n THEN (ctr[j] + 1) % Radix ELSE ctr[j]], Len(ctr))

\* Bytes are incremented from the last to the first that does not become zero.
incCounter(ctr) ==
  LET n == CHOOSE n \in 1..Len(ctr) : (\A j \in (n + 1)..Len(ctr) : ctr[j] = Radix - 1)
                                      /\ (n = 1 \/ ctr[n] # Radix - 1)
  IN  Tuple([j \in 1..Len(ctr) |-> IF j >= n THEN (ctr[j] + 1) % Radix ELSE ctr[j]], Len(ctr))

\* External: the tag of OMAC (module Omac), and a block under a cipher key.
OmacTag(macKey, msg, size) == Tuple([j \in 1..size |-> <<macKey, msg, j>>], size)
GammaBlock(cipherKey, ctr) == Tuple([j \in 1..Len(ctr) |-> <<cipherKey, ctr, j>>], Len(ctr))

\* One key stream over S || tag; a byte is the pair of what was encrypted and
\* the gamma byte it was XORed with.
Kexp15(v, shared, cipherKey, macKey, iv) ==
  LET p     == Variants[v]
      plain == shared \o OmacTag(macKey, iv \o shared, p.macLen)
      gamma == Loop(LAMBDA g, i : [out |-> g.out \o GammaBlock(cipherKey, g.ctr), ctr |-> incCounter(g.ctr)],
                    [out |-> <<>>, ctr |-> iv \o Zeros(p.block - p.ivLen)],
                    (Len(plain) + p.block - 1) \div p.block).out
  IN  IF v = NoVariant \/ Len(shared) < 1 THEN Failed
      ELSE IF Len(cipherKey) # HashSize \/ Len(macKey) # HashSize \/ Len(iv) # p.ivLen THEN Failed
      ELSE Tuple([i \in 1..Len(plain) |-> [plain |-> plain[i], gamma |-> gamma[i]]], Len(plain))

-----------------------------------------------------------------------------
(* The calls. *)

KdfCall(key, label, seed, r, outLen) ==
  Made([op |-> "KDFTree256", key |-> key, label |-> label, seed |-> seed, r |-> r, outLen |-> outLen],
       KDFTree256(key, label, seed, r, outLen))

FacadeKdfCall(key, label, seed, outLen) ==
  Made([op |-> "KDFTree2012_256", key |-> key, label |-> label, seed |-> seed, outLen |-> outLen],
       KDFTree2012_256(key, label, seed, outLen))

DeriveCall(suite, master, seqNum) ==
  Made([op |-> "Derive", suite |-> suite, master |-> master, seqNum |-> seqNum],
       TreeKey(suite, master, seqNum))

KegCall(curve, pub, prv, ukmSource) ==
  Made([op |-> "KEG", curve |-> curve, pub |-> pub, prv |-> prv, ukm |-> ukmSource],
       KEG2012_256(curve, pub, prv, ukmSource))

ExportCall(v, shared, cipherKey, macKey, iv) ==
  Made([op |-> "Kexp15", v |-> v, shared |-> shared, cipher |-> cipherKey, mac |-> macKey, iv |-> iv],
       Kexp15(v, shared, cipherKey, macKey, iv))

PublicKeys == [owner : Parties, curve : Curves \cup {WideCurve}]

MaterialNext ==
  /\ Idle
  /\ \/ \E key \in KdfKeys, label \in KdfLabels, seed \in KdfSeeds, outLen \in OutLens :
          \/ FacadeKdfCall(key, label, seed, outLen)
          \/ \E r \in CounterWidths : KdfCall(key, label, seed, r, outLen)
     \/ \E suite \in DOMAIN Suites, master \in Masters, seqNum \in SeqNums : DeriveCall(suite, master, seqNum)
     \/ \E curve \in Curves \cup {WideCurve, NilCurve}, pub \in PublicKeys, prv \in Parties, u \in UkmSources :
          KegCall(curve, pub, prv, u)
     \/ \E v \in DOMAIN Variants \cup {NoVariant}, shared \in SharedKeys, iv \in ExportIVs,
           cipherKey, macKey \in ExportKeys : ExportCall(v, shared, cipherKey, macKey, iv)

-----------------------------------------------------------------------------
(* Properties *)

Bytes(s) == {s[i] : i \in 1..Len(s)}

\* A derivation is refused exactly when its length is not positive, the facade
\* finds it no multiple of a digest, or its blocks cannot be numbered by the
\* counter, so the facade's bound on the length field is the bound of the one
\* byte counter; no byte of a derivation is repeated, as the counter never
\* wraps; and two derivations of the facade under labels without zeros share no
\* byte unless key, label, seed and length are all the same
\* (kdftree.go:42-114, modes.go:138-148).
KdfSeparates ==
  LET counter == IF call.op = "KDFTree256" THEN call.r ELSE 1
      facade  == call.op = "KDFTree2012_256"
  IN  call.op \in {"KDFTree256", "KDFTree2012_256"} =>
        /\ result = Panicked <=>
             \/ call.outLen <= 0 \/ counter \notin 1..4
             \/ facade /\ call.outLen % HashSize # 0
             \/ call.outLen > HashSize * (Radix^counter - 1)
        /\ result # Panicked =>
             /\ Len(result) = call.outLen
             /\ Cardinality(Bytes(result)) = Len(result)
             /\ facade => \A key \in KdfKeys, label \in KdfLabels, seed \in KdfSeeds, outLen \in OutLens :
                  LET other == KDFTree2012_256(key, label, seed, outLen)
                  IN  \/ other = Panicked
                      \/ <<key, label, seed, outLen>> = <<call.key, call.label, call.seed, call.outLen>>
                      \/ Bytes(other) \cap Bytes(result) = {}

\* Two records have the same key exactly when they are in one window of the
\* finest mask, as each coarser mask covers the finer one; and the key is the
\* chain of three derivations of KDF_TREE, though kdf writes the counter and the
\* length of its message by hand (tlstree.go:45-56, 102-160).
TreeWindows ==
  call.op = "Derive" =>
    IF Len(call.master) # HashSize THEN result = Panicked
    ELSE /\ \A n \in SeqNums :
              LET window == 2^Suites[call.suite][3]
              IN  TreeKey(call.suite, call.master, n) = result <=> n \div window = call.seqNum \div window
         /\ result = Loop(LAMBDA key, n :
                            LET w == 2^Suites[call.suite][n]
                            IN  KDFTree256(key, levelLabel(n), PutUint64((call.seqNum \div w) * w), 1, HashSize),
                          call.master, 3)

\* The two ends agree, each with its own private key; two exchanges give the
\* same keys exactly when the bytes of the UKM material that count are the same,
\* zeros standing for one and zeros; and only a length, a curve of 512 bits or a
\* key of another curve is an error, never the UKM itself
\* (keg.go:89-142, modes.go:187-197).
KegSeparates ==
  call.op = "KEG" =>
    LET used == IF call.curve = NilCurve THEN DefaultCurve ELSE call.curve
        Counting(u) ==
          IF \A i \in 1..UkmLen : u[i] = 0 THEN <<1>> \o Zeros(UkmLen - 1) \o SubSeq(u, UkmLen + 1, SeedEnd)
          ELSE SubSeq(u, 1, SeedEnd)
    IN  /\ result = Failed <=>
             Len(call.ukm) # UkmSourceLen \/ call.curve = WideCurve \/ call.pub.curve # used
        /\ result # Failed =>
             /\ result = KEG2012_256(call.curve, [owner |-> call.prv, curve |-> used], call.pub.owner, call.ukm)
             /\ \A u \in UkmSources : Len(u) = UkmSourceLen =>
                  (KEG2012_256(call.curve, call.pub, call.prv, u) = result <=> Counting(u) = Counting(call.ukm))

\* The receiver, who counts blocks from the IV taken as a number, opens the
\* export and finds the key and the tag over IV and key; as long as its blocks fit
\* the half of the counter below the IV, no gamma byte is used twice, in one export or
\* under two IVs (kexp15.go:100-152, ctracpkm.go:333-340).
ExportOpens ==
  call.op = "Kexp15" /\ result # Failed =>
    LET p == Variants[call.v]
        Number(b) == Loop(LAMBDA n, i : n * Radix + b[i], 0, Len(b))
        Counter(i) ==
          LET n == Number(call.iv) * Radix^(p.block - p.ivLen) + ((i - 1) \div p.block)
          IN  Tuple([j \in 1..p.block |-> (n \div Radix^(p.block - j)) % Radix], p.block)
        Gamma(iv) ==
          LET out == Kexp15(call.v, call.shared, call.cipher, call.mac, iv) IN {out[i].gamma : i \in 1..Len(out)}
    IN  /\ \A i \in 1..Len(result) : result[i].gamma = <<call.cipher, Counter(i), ((i - 1) % p.block) + 1>>
        /\ [i \in 1..Len(call.shared) |-> result[i].plain] = call.shared
        /\ [j \in 1..p.macLen |-> result[Len(call.shared) + j].plain] =
             OmacTag(call.mac, call.iv \o call.shared, p.macLen)
        /\ Len(result) = Len(call.shared) + p.macLen
        /\ Len(result) <= p.block * Radix^(p.block - p.ivLen) =>
             /\ Cardinality(Gamma(call.iv)) = Len(result)
             /\ \A iv \in ExportIVs \ {call.iv} : Len(iv) = p.ivLen => Gamma(iv) \cap Gamma(call.iv) = {}
=============================================================================
