# gostcrypto in TLA+

Models, model-checking runs and machine-checked proofs for gostcrypto, the
pure-Go library of GOST primitives. Paths and line numbers refer to the
repository's root (`ctracpkm/ctracpkm.go:212`); `PROJECT.json` maps every
definition to the lines it models, and lists runs, mutants, hazards, findings
and theorems.

The library computes functions whose values are pinned by test vectors. What
test vectors hardly reach is its *control*: a stream that callers cut at any
byte while keys change underneath, buffers that live from one call to the next,
tables that the first of several goroutines builds, a search with backtracking
through certificates, strings at the edge of a grammar, arithmetic that carries
once in a million words. The models keep that control in full and abstract the
data in one of two ways: the output of a cipher is the *name* of what was
encrypted, so that two bytes of a model are equal exactly when they are equal for
every cipher; or, where the arithmetic itself is the hazard, words are *scaled*
(bytes of 2 or 4 bits, words of 2 bytes) and computed bit by bit.

## 1. Inventory

| Component | State | Operations | What is hard | What makes it correct |
|---|---|---|---|---|
| `ctracpkm` | key, counter, gamma and offset, bytes since re-keying | `NewCTR`, `NewCTRACPKM`, `XORKeyStream` | a call may end anywhere; three code paths (fused batch, buffered batch, bytes); batches clipped to sections; lazy re-keying; counter wrap | one stream whatever the cuts; no keystream byte twice; calls return |
| `gost28147cnt` | counter words, gamma, byte count, cipher | `NewCNT`, `XORKeyStream` | two words with different carries; meshing every 1024 bytes re-encrypts the counter | the same |
| `omac`, `streebog`, `gostr341194` | chaining value, length, checksum, buffer | `Write`, `Sum`, `Reset` | the last block is known only at `Sum`; wrapping checksums, padding, empty message, stale buffer | value of the message alone; `Sum` does not disturb the state; messages told apart |
| `mgm` | scratch buffers shared by all calls | `Seal`, `Open` | stale scratch after failures, length limits at the width of a word, compare before decrypt | RFC 9058 for the arguments alone; `Open` inverts `Seal`; nothing released on failure |
| `x509gost` verify | recursion over pools of certificates | `Verify` | cross-signing, circles, backtracking, mixed GOST / non-GOST pools, constraints of every CA above | accepted chains are valid; a failed search had nothing to find; it ends |
| `x509gost` names | none | name constraints, mailbox parser | leading dots, malformed constraints among good ones, quoting | subtrees of names; an error never lets a name pass |
| `x509gost` parse | none | `ParseCertificate` | two encodings of a key that may look alike | the key its issuer encoded |
| `gost3410curves` | contexts built on first use | `Add`, `Double`, `ScalarMult`, `ScalarMultCT` | special cases of the group law, limb carries, windows, torsion; several goroutines | both multiplications are repeated addition; a context is seen whole |
| `gost3410sign`, facade signing | none | `SignDigest`, `VerifyDigest`, `PublicKeyRaw`, nonce loop, `GenerateEphemeralKey` | three byte orders, rejected nonces, ranges | accepts exactly what some nonce signs |
| `vko` | none | `KEK2001`, `KEK2012256`, `KEK2012512` | cofactor, reduction of the UKM, points of a peer | both sides agree, in the subgroup |
| `kuznyechik`, `internal` | round keys; tables built on first use | `NewCipher`, `NewCipherCT`, `Encrypt`, `Decrypt`, `EncryptBlocks`, `CTRXORBlocks` | three implementations of one round; carries between lanes; batches on overlapping memory | one cipher, that of RFC 7801; output of the input as it was before the call |
| `magma`, `gost28147` | subkeys | `Encrypt`, `Decrypt` | opposite byte orders on one core | RFC 8891; decryption is the inverse |
| `gost28147imit`, `keywrap` | none across calls | `GOST28147_IMIT`, `SeqMACBlock`, `KeyWrapCryptoPro` | meshing under a deferred block; a key encrypted in place under itself | the chain of all blocks; the receiver recovers the key |
| `kdftree`, `tlstree`, `keg`, `kexp15` | none | derivation, export | counter and length bounds, ambiguous concatenation, masks, zero UKM, counter and IV in one block | separate inputs give separate keys; the receiver opens the export |

Interaction is by calls. A mode holds a `cipher.Block` and, for CTR-ACPKM, a
factory for the next one; `vko` and the signer call the curve; `kek` ends in a
hash; `keg` is `vko` and `kdftree`, `kexp15` is `omac` and `ctracpkm`;
`x509gost` verifies with the signer; the facade wraps everything. No message is
sent and nothing is stored. Stateful objects (streams, hashes, MGM) are
documented as owned by one goroutine. What goroutines do share is built on
first use under `sync.Once`: the lookup tables and bit columns of
`kuznyechik`, and the two constant-time contexts of a curve (module `LazyInit`).

## 2. Modules

| Module | Models |
|---|---|
| `KeyStream` | abstract: what a `cipher.Stream` promises |
| `Digest` | abstract: what a `hash.Hash` promises |
| `Blocks`, `Words`, `Calls` | cutting a message into blocks; scaled words and counted loops; a caller that makes one call |
| `CtrAcpkm`, `CtrAcpkm_proofs` | `ctracpkm/ctracpkm.go`; implements `KeyStream` |
| `Cnt`, `Cnt_proofs` | `gost28147cnt/cnt.go`; implements `KeyStream` |
| `Omac`, `Streebog`, `GostR341194`, `Digests`, `Digests_proofs` | `omac`, `streebog`, `gostr341194`; `Digests` composes them behind one interface, which implements `Digest` |
| `MgmLengths`, `Mgm`, `Mgm_proofs` | `mgm/mgm.go`: length guards; `Seal` and `Open` |
| `GostChain` | `x509gost/verify.go` and its use of `constraints.go` |
| `CertNames`; `CertParse` | `x509gost/constraints.go`; `x509gost/parse.go` |
| `X509Gost_proofs` | proofs about `GostChain` and `CertParse` |
| `GostCurve`, `GostKeys`, `GostKeys_proofs` | `gost3410curves`; signing, verification, VKO, ephemeral keys, scalar multiplication |
| `KuznyechikRounds`, `Kuznyechik` | `kuznyechik`: round transforms three times over; cipher, key schedule, SIMD batches on memory (`internal/alias`) |
| `Gost28147` | `gost28147`, `magma`, `gost28147imit`, `keywrap` with the facade's guards |
| `KeyMaterial` | `kdftree`, `tlstree`, `keg`, `kexp15` with the facade's guards |
| `LazyInit`, `LazyInit_proofs` | what is built on first use in `kuznyechik` and `gost3410curves`, with several goroutines |
| `NaturalLemmas` | for the proofs: `\div` and `%`, the least natural number with a property, induction and recursion, powers modulo a prime and Fermat's little theorem |
| `MC...` | the constants of the runs; `MCCalls` also chooses between the calls of the five modules of functions without state |

How state and actions correspond to the code:

- **CtrAcpkm.** The variables are the fields of `CTR`, plus `todo` (what is left of
  the call) and the history `pos`, `out`. `XORKeyStream` starts a call; each
  turn of its loop is one of `rekeyACPKM`, `bulkXOR`, `NextGamma`, `XORByte`, with
  the guards in the order of the code; `Return` ends it. A key is the number of
  re-keyings behind it, a byte is (key, counter, offset).
- **Cnt.** The same for `CNT`. `StepLo` and `StepHi` are the additions modulo 2^32 and
  2^32 - 1 with the code's carries, in words of 3 bits.
- **Omac, Streebog, GostR341194.** A `Write` goes through the phases of the code
  (top up, whole blocks, remainder) as separate steps. Checksums and lengths are
  numbers of the width of a block that wrap; the compression function is a term.
  `Digests` constructs one of the three and uses the variables of all.
- **Mgm.** The scratch buffers are variables that no call resets unless the code does.
  `Seal` and `Open` go through `crypt` and `auth` block by block; a ciphertext byte is
  a value with the set of keystream bytes on it, a tag the set of products in its sum,
  zero blocks left out because their product vanishes.
- **GostChain.** `path` and `at` are the stack of `buildGOSTChainRec`: the child of each
  pending call and its position in the pool loops. Each turn is one of `SkipNonGOST`,
  `SkipNotSigner`, `RootFound`, `Bridge`, `Descend`, `TooDeep`, `Backtrack`; `Validate`
  is `validateGOSTChainConstraints`. A signature is the key it verifies under, a name
  constraint a set of names; that matching computes such sets is `NamesExact`.
- **CertNames, CertParse.** A string is a sequence over one character of each class that
  the code tells apart (letters in two cases, dot, at-sign, quote, backslash, the
  space, and a control character that not even a quoted string admits). A certificate
  is what the ASN.1 decoder hands over. A behaviour is one call.
- **GostKeys.** A behaviour is one call on one curve. Raw keys, digests, nonces and
  signatures are byte sequences in the code's byte orders. The signing loop draws one
  nonce per step. The windowed multiplication is stepped window by window on projective
  coordinates in Montgomery form; the calls above it use what `MultExact` shows:
  the multiple, or, in constant-time mode and outside the subgroup, possibly the identity.
  `MaxBits`, two more than the bits of the limbs, bounds the scalars: `vko` multiplies by the
  cofactor, which is at most 4.
- **KuznyechikRounds, Kuznyechik.** A block is 4 bytes of 4 bits in two words; S-box,
  coefficients, round count and batch size are parameters. The tables, the SWAR scan,
  the masked columns and the byte-sliced registers are computed as in the code. Memory is
  a sequence of bytes, a buffer an address and a length, so that source and destination may
  overlap in every way; `CTRXORBlocks`, which checks nothing, is called through the guards of
  `ctracpkm`'s `XORKeyStream`.
- **Gost28147.** The same scale: as many subkeys and UKM bytes as bits in a byte, meshing
  every 12 bytes instead of 1024. Loops over blocks that overwrite their input do so here.
- **KeyMaterial.** HMAC, OMAC, VKO and the cipher are symbols; counters, lengths, masks,
  UKM and IV are bytes. A digest has as many bits as a byte has values, as in the code, where
  32 * 8 = 2^8: the two bounds of `KDFTree2012_256` meet at the same place.
- **LazyInit.** For every `sync.Once` its flag and its mutex; a goroutine is at one of the
  points between the call and the last read. A table is the set of its positions assigned so
  far, a curve's context a single part or, for a wider prime, none.

## 3. Runs

| Run | Bounds | Shows |
|---|---|---|
| `ctr_stream` | blocks of 2 bytes, 4 counter values starting before the wrap, batches of 2-3 blocks, sections rejected / none / 1, 3, 5 blocks, calls of 0..13 bytes, 26 bytes | `StreamIsOneShot`, `NoReuse`, `IInv`, refinement of `KeyStream`, `CallReturns` |
| `cnt_stream` | 3-bit words, all IVs, 2 S-boxes, meshing every 3 blocks, 26 bytes: four generations | no reuse before the cipher repeats, refinement of `KeyStream` |
| `digests` | blocks of 2 bytes, all messages of two byte values up to 5 bytes, all cuts, both Streebog sizes | `Separates`, refinement of `Digest` |
| `mgm` | blocks of 4 bytes of 2 bits, partial and multiple blocks, lengths up to one past the limit; the length guards by themselves with 6-bit words, every half block and int width in them and every pair of lengths | `SealIsRFC`, `OpenInvertsSeal`, `TagSeparates`, `NothingReleased`, `NoncesSeparate`, `LimitIsRFC` |
| `chain_search` | 17 certificates, thousands of requests, pools of up to 3 in every order, depth 3 | `ChainSound`, `DepthBounded`, `SearchComplete`, `MixedChainExplained`, `Terminates` |
| `chain_anchor_doc`, `chain_depth_doc`, `chain_twice_doc` | parts of that PKI | findings, section 6 |
| `keys` | five curves over GF(11) and GF(13), 2 limbs of 2 bits, windows of 2 bits, every point, scalar, key and signature | `ArithmeticExact`, `MultExact`, `SignatureVerifies`, `VerifyExact`, `AgreementExact` |
| `keys_torsion_doc` | the same | finding, section 6 |
| `calls`, ciphers and keys | bytes of 4 bits, words of 2 bytes; 256 blocks; buffers of up to 3 blocks at every pair of addresses in 18 bytes, batches of 2; counters before and at the wrap; messages of 0..29 bytes over two meshings; UKM bytes that choose all, some and none of the subkeys; two keys and derivations up to one block past the counter; sequence numbers on both sides of every mask; exports that fill the counter half and longer ones | `CipherExact`, `BlocksExact`, `FeistelExact`, `ImitExact`, `WrapExact`, `KdfSeparates`, `TreeWindows`, `KegSeparates`, `ExportOpens` |
| `calls`, certificates | all strings of 5 characters for mailboxes, domains of up to 3 and chosen longer ones against each other as constraints, two names and two constraints at once, addresses of one and two parts; keys of 2 and 4 bytes in all bit strings of up to 6 | `NamesExact`, `MailboxExact`, `ParsedExact` |
| `lazy` | two goroutines, tables of two positions, primes of 256, 257, 512 and 513 bits, any number of calls | `ReadsComplete`, `NoRace`, `CallsReturn` |

Why the bounds are enough: every number of the code is compared with few others
(block with section, batch with section, counter with its period, length with
limit, order with window), and each run contains all orders of them, the equal
case included. Streams are longer than two sections and one counter period,
messages longer than two blocks and two meshing periods, searches one deeper than the
limit, batches one block shorter, equal and longer. The curves
have q above p, q below p, a base point with x = 0 (as CryptoPro-C, where nonces
with r = 0 exist), cofactor 4 (as tc26-256-A), and a cofactor that `vko`
refuses; all primes have their top bit set, as the registered ones do, so that sums
overflow the limbs. A lane, a nibble and a byte remain different widths, so that a carry
can cross each of them. Two goroutines are enough to meet at every point of a
`sync.Once`; the proof is for any number.

Exports are tried up to and beyond the counter half under the IV (2^32 blocks in the code for Magma):
`ExportOpens` opens all of them, and claims separate key stream for those that fit.

`CHECK_DEADLOCK FALSE` is set where behaviours end by nature: streams at the
bound `MaxStream`; `GostKeys` and `MCCalls` after their one call.

Every property has a mutant in `PROJECT.json`: a definition changed as a plausible
bug would change it, under which TLC finds the property violated. They are the
operators marked *Mutant* in the modules. Some properties have several.

## 4. Fairness

`CallReturns` and `Terminates` assume weak fairness of the steps inside a call: Go
runs a called function until it returns, and no step waits for another party.
`CallsReturn` assumes weak fairness of every goroutine that is within a call: the Go
scheduler runs each goroutine that can run. A goroutine that waits for the mutex of a
`sync.Once` cannot run, and gets its turn because every owner is done after finitely many
assignments and, the flag once set, nobody takes the mutex again except those already
waiting. Nothing is assumed about callers.

## 5. Proofs

The modules `..._proofs` and `NaturalLemmas` are checked by TLAPS for all values of the
constants, under the named assumptions of the modules. TLC checked each inductive invariant
below on the run of its module before it was proved.

**Streams.** `StreamIsOneShot` (the emitted bytes are those of the stateless
definition `ByteAt`) is not inductive: it says nothing of the fields the next byte
is made from. `IInv` adds that the fields are a function of the position: the section
key is the number of sections before the position, the counter is the start value plus
the blocks begun, `num` is the offset in the block, the gamma buffer belongs to the
block in progress, and blocks never straddle sections because sections are multiples of
the block. Each action preserves it; the batch needs that clipping keeps it in one
section. From `IInv` follow `TypeCorrectness`, `OneShot`, `NeverReused` (equal bytes are a
multiple of the counter period apart and in one section) and `Refinement` of
`KeyStream`.

**CNT.** The position is a generation (meshings before it), a block of the generation and an
offset. `IInv` of `Cnt` says that the counter is the start value of the generation after as
many steps of both words as blocks were begun, that the gamma is its encryption, and that
`count` and `num` agree with it; `Start` is defined by recursion over the generations, so that
the proof unfolds it one meshing at a time. `NeverReused` needs that the lower word does not return
between two meshings: `CntPeriodAssumption` says so, and holds in the code because `c2` is odd
modulo 2^32 and a generation has 128 blocks. The end-around carry of the upper word needs no
assumption.

**Digests.** Of a running digest one must know which part of the message is where. `IInv` says
that the message is the blocks absorbed, then the first `nbuf` bytes of the buffer, then what
is left of the Write in progress (`Cut`); that the terms in the chaining value are those of
the blocks, in order; that counter, bit length and checksum are those of the blocks absorbed,
reduced as in the code; that OMAC has chained a block only when more follows; and that nothing
is left of the Write where the code has returned, or continues with a partial block. It does not
mention the bytes above `nbuf`, so a proof that uses them fails. From it `Refinement` shows
that `Sum` computes the reference definition of the whole message, and `Separation` that this
definition is injective: the message is rebuilt from the blocks (their numbers determine their
digits), the padded tail, and, where the padding carries no marker, the length. `MaxMsg` is any
number, so both hold for messages of every length. The bit length of GOST R 34.11-94 is a
natural number in the model, a `uint64` in the code: its part of the theorems is for messages
of fewer than 2^64 bits. Streebog's counter wraps in the model as in the code.

**MGM.** `LimitsAreRFC` treats the guards by themselves: for every half block and every width
of `int` that a word holds, the test with its shifts, subtractions and early returns admits the
lengths whose bits fit the field, although the sum of the two may wrap. `IInv` follows a call
through its passes: each stops at block boundaries, has written (`CryptInv`) or added
(`AuthInv`) what RFC 9058 says of the bytes before `done`, and has stepped its counter once per
block. The padding buffer does not occur in it, and counters and accumulator only within the
pass that has set them: whatever an earlier call left in the scratch buffers is overwritten before
it is used, and this is what `SealsAreRFC` and `OpenInverts` need. `TagsSeparate`
rests on an injectivity lemma: equal sums of products have equal blocks, except for blocks of
zeros, and the length block decides how many of those there are. `NothingIsReleased` and
`NoncesAreSeparate` follow from `IdleInv` and `SeedInv`.

**Keys.** `GostKeys_proofs` is about every curve, of any size, and every width of limbs,
bytes and windows. It has two levels.

Below the curve nothing is assumed but that p is an odd prime (residues other than zero have
inverses) that the limbs hold. `FieldExact` shows that addition, subtraction, Montgomery
multiplication and inversion on limbs are those modulo p. A row of `feMul` adds a multiple of p
that makes the low limb zero, which needs `n0` to be the negated inverse of p modulo the limb
(lifted bit by bit, for p is odd); the accumulator stays below 2p between rows, so the
truncation to one word above the limbs loses nothing and one conditional subtraction at the
end is enough, provided it looks at the carry above the limbs; R cancels because it is
coprime to p. `feInv` computes the power by p - 2, bit by bit from the top, and that
this is the inverse is Fermat's little theorem, proved in `NaturalLemmas` from the permutation of
the residues by a factor. `CoordinatesExact` shows that a point goes to projective coordinates
and back whichever of its p - 1 triples the formulas end with, and that the triple (0, 0, 0),
which stands for no point, stays.

Above the curve the theorems have hypotheses, the laws that `ArithmeticExact` checks on the
curves of the `keys` run: `GroupLaw` (`Add` is the operation of a commutative group),
`OrderLaw` (the base point has order q, the cofactor leads into its subgroup), and, for
`MultiplicationExact`, `FormulaLaw` (the complete formulas compute the sum, or (0, 0, 0) for
points outside the subgroup). They are theorems of algebra about elliptic curves, not facts about
the code: associativity is a polynomial identity of hundreds of terms that none of these provers finds.
Everything else is derived from them.

- `SignaturesVerify`: with s = r d + k e modulo q, the two products of verification add up to
  k P, so the x-coordinate comes out as r; the byte strings are those of the code, whose orders
  differ for key, digest and signature (`SetBytes`, `fillBE`, `putLE` are shown inverse).
- `VerificationExact`: conversely, what verification accepts determines a nonce
  k = e^-1 (s - r d), and signing with it yields the same bytes. The range checks exclude r = 0 and s = 0
  and a second encoding of either half.
- `AgreementsExact`: multiples of multiples are products, the reduction of cofactor * UKM modulo
  cofactor * q (not q) keeps the multiple on every point of the curve, and what the cofactor has
  multiplied is in the subgroup; a point of small order gives the error of both multiplications.
- `MultiplicationExact`: the windows cover every bit of a scalar below q at any window width that
  divides the limb, also where the top window is partial.

`CallsInv` says of each call what its arguments are and that its result is what the operators
compute for them; it is inductive, and the work is in the operators. The multiplication has a
loop of its own: `MultExact` says nothing while it runs, and `LoopInv` adds that the table is that
of the point and that the accumulator holds (`Held`) the multiple by the bits of the scalar above
the windows left (`Reached`), or is lost, which happens outside the subgroup only.

**Parsing.** A behaviour is one call, so `ParsesExactly` is a theorem about operators. Its heart is
that at most one of the two readings of the bits (bare, or an OCTET STRING) has the
length of the curve's keys, and that the code finds it, also when a bare key reads as an OCTET
STRING by accident.

**Chains.** `IInv` says that the pending calls spell a path in which each certificate
is signed by the next and none is longer than the depth allows; it gives `TypeCorrectness`,
`Soundness` and `Depth`. For `Completeness`, `CInv` adds that a candidate
before the index of a pending call leads nowhere within the depth that was left.
The code skips a candidate equal to the child, and so does not explore every path; the
proof takes a shortest path, in which no certificate follows itself, so that skipping
loses nothing. `MixedExplained` comes from the same invariant.

**First use.** For any set of goroutines, any number of table positions and any widths,
`LazyInvariant` says that only the owner of a mutex is between taking and releasing it
(`Held`), that an initialiser has assigned exactly the parts before its next one
(`Progress`), that the flag means all parts are assigned and nobody builds (`Flagged`),
and that a goroutine past the call looks at a value whose flag is set, of the width of
its curve (`Where`). `RaceFree` needs the flag and the mutex together: one who builds has
found the flag unset, one who reads has found it set. `ReadersComplete` follows as values
never shrink.

**Assumptions.** Block sizes, periods and bases are positive, sections and meshing periods
multiples of the block, as the constructors enforce or the code's constants say.
`CntPeriodAssumption` is above. `PowerAssumption` of `MgmLengths` and `Digests` says that powers
are positive and follow their recursion, which the provers do not know of `^`. `ParseAssumption`
says that no registered curve has empty keys, that the model's mark for a missing OID is
not an OID, and what a decoded certificate consists of. `LimbAssumption` and `KeysAssumption` say
that windows divide limbs, that points have as many bytes as the limbs hold, that p and q fit and
the base point is on the curve; `CurveAssumption` that p is an odd prime and q a
prime, in the form that residues other than zero have inverses; `PowerAssumption` of `GostKeys`
is the recursion of powers of two up to `MaxBits`. TLC evaluates all of them on the runs.

**Induction.** The induction theorems of the library take an operator as a parameter, which
these provers cannot instantiate. `NaturalLemmas` states induction for a *set* of numbers instead
(`LeastNatural`, `InductionUpTo`), and existence and unfolding of a recursive function
(`RecursionUpTo`, `RecursionNat`); the sums, generations, products and multiples above are proved
with these.

**Only model-checked.**

- Liveness (`CallReturns`, `Terminates`, `CallsReturn`): out of the prover's reach.
- `CipherExact`, `BlocksExact` (`Kuznyechik`), `FeistelExact`, `ImitExact`, `WrapExact`
  (`Gost28147`) and `KdfSeparates`, `TreeWindows`, `KegSeparates`, `ExportOpens` (`KeyMaterial`):
  these modules are built on `Words`, with bitwise operations and counted loops that the prover
  does not support. What they say of the S-boxes and tables is also finite for the code's
  widths only.
- `NamesExact`, `MailboxExact` (`CertNames`): the matcher and the mailbox parser are `RECURSIVE`
  operators on strings, and what they compute for every string needs induction over data.
- `ArithmeticExact` as a whole: its field and coordinate parts are `FieldExact` and
  `CoordinatesExact`; the group, order and formula laws stay with TLC, see *Keys*.

## 6. Findings

The code and a comment of it disagree in four places that runs show. None accepts a chain
that is not signed and constrained as it should be (`ChainSound`), or a wrong signature.

- `x509gost/verify.go:118-120` promises a one-element chain for a leaf that is a
  root. The search runs all the same and wants a signer: a certificate that is the only root and
  was signed by a CA in no pool is rejected with the no-chain error (`chain_anchor_doc`). Where
  the pools do hold a signer, for a self-signed root itself, it is appended.
- `verify.go:122-123` says that at most `maxGOSTChainDepth` certificates, leaf included, are
  traversed and that deeper hierarchies do not verify. The bound counts calls, one per certificate
  below the root, and a chain with one certificate more is returned (`chain_depth_doc`). What
  does hold is the comment of `buildGOSTChainRec`, at most that many links: `DepthBounded`.
- `verify.go:409-410` says an intermediate must not re-appear. The guard compares with
  the child alone, and two cross-signed certificates may alternate
  (`chain_twice_doc`).
- `gost3410curves/ctscalar.go:173-175` says `ScalarMultCT` returns k·p. On a curve with
  cofactor 4 it returns the identity for a point of order 2, where the addition
  formulas are not complete (`keys_torsion_doc`). In the subgroup it is exact, and
  `vko` returns the same error with either multiplication.

Observations without a run of their own:

- The comments at `gost28147cnt/cnt.go:115` and `:136` say that meshing does not reset
  `count`; the code sets it to zero. The next line reduces it modulo 1024 in any case, so
  the stream is the same.
- The repository's `README.md:65` lists KImp15 with `kexp15`; only the export exists.
  `ExportOpens` therefore states what an importer would find.
- `Seal` and `Open` of `mgm` and `XORKeyStream` of `gost28147cnt` do not check their buffers for
  inexact overlap, as `ctracpkm` and `kuznyechik` do; their callers must.
- `ParseCertificate` takes the family from the key's OID and the size from the curve, and
  does not compare the two.

## 7. Not modelled

- Streebog's `g`, the step function `chi` of GOST R 34.11-94, `gfMul` of MGM and the doubling
  of OMAC's subkeys are terms or names. They are straight-line computations
  without a rare case: one wrong byte in them fails every test vector, and the properties of
  the modes above hold whatever they compute.
- Constant time: a property of machine code.
- ASN.1 decoding, `net/url` and `net` parsing, `crypto/hmac`, `math/big`, `sync.Once`: the Go
  library's, modelled by what the code uses of them. The crypto/x509 branch for non-GOST
  leaves is one result.
- Registered curve parameters and S-boxes: constants of the modules.
- The Montgomery ladder and `DeriveQLE`, which only tests call, and `Diversify`, an exported
  wrapper of the step that `WrapExact` covers.
- Facade constructors that only forward their arguments.
- Several goroutines on one stream, hash or MGM value: excluded by the documentation.
- A second chain when the first one found fails its constraints (`verify.go:292`): the code
  does not look for one, and nothing in the repository says it should.

## 8. Plan

1. *Done.* Streams and digests with their abstract specifications, MGM, chain building,
   curves and keys; proofs for the CTR stream and the chain search.
2. *Done.* The block ciphers, IMIT, key wrap, derivations and exports; name constraints and
   parsing; memory with overlapping buffers; values built on first use by several
   goroutines, with proofs; the digests behind one interface.
3. *Done.* Proofs for `Cnt`, the three digests, `Mgm` with its length limits, and parsing.
4. *Done.* Proofs for `GostKeys`: field arithmetic and coordinates outright; signing, verification,
   agreement and both multiplications from the laws of the group.
5. *Open.* Name constraints, if their recursion is rewritten as functions; the group law
   itself, with a prover that decides polynomial identities.
