----------------------------- MODULE Gost28147 -----------------------------
(***************************************************************************)
(* gost28147/, magma/, gost28147imit/ and keywrap/: the two Feistel block  *)
(* ciphers, the IMIT MAC with CryptoPro key meshing, and the CryptoPro key *)
(* wrap, with the guards of the facade.  A behaviour is one call.          *)
(*                                                                         *)
(* Scaling.  A nibble has half the bits of a byte, a word Lanes bytes, a   *)
(* block two words; there are as many subkeys, S-box rows and UKM bytes as *)
(* bits in a byte (8 of each in the code).  The arithmetic is the code's.  *)
(***************************************************************************)
EXTENDS Words, Calls

CONSTANTS
  Sbox,          \* Sbox[i][n]: row i of the S-box
  Rotation,      \* rotBits: 11 of 32 bits
  MeshPeriod,    \* meshPeriod in bytes: 1024
  MeshingKey,    \* cryptoProKeyMeshingKey
  FeistelKeys,   \* keys, some of the wrong length
  FeistelBlocks, \* blocks, some too short
  Messages,      \* messages of IMIT
  UKMs           \* user keying material

SubkeyCount == ByteBits
GostBlock   == 2 * Lanes
GostKeySize == SubkeyCount * Lanes
Nibble      == 2^(ByteBits \div 2)
TagSize     == GostBlock \div 2

ASSUME FeistelAssumption ==
  /\ Sbox \in [1..(2 * Lanes) -> [0..(Nibble - 1) -> 0..(Nibble - 1)]]
  /\ Len(MeshingKey) = GostKeySize /\ GostKeySize % GostBlock = 0 /\ MeshPeriod % GostBlock = 0

feistelVars == <<call, result>>

-----------------------------------------------------------------------------
(* The ciphers. *)

\* t and f as tables: every nibble through its row, then the rotation.
t == [x \in Word |-> Loop(LAMBDA out, i : out + Sbox[i][(x \div Nibble^(i - 1)) % Nibble] * Nibble^(i - 1),
                          0, 2 * Lanes)]
f == [x \in Word |-> ((t[x] * 2^Rotation) % WordMod) + ((t[x] * 2^Rotation) \div WordMod)]

Subkeys(key)  == Tuple([i \in 1..SubkeyCount |-> LittleEndian(key, (i - 1) * Lanes + 1)], SubkeyCount)
keyBytes(x)   == Loop(LAMBDA b, i : b \o PutLittleEndian(x[i]), <<>>, SubkeyCount)

seqEncrypt == Tuple([i \in 1..(4 * SubkeyCount) |->
                IF i <= 3 * SubkeyCount THEN ((i - 1) % SubkeyCount) + 1
                ELSE 4 * SubkeyCount + 1 - i], 4 * SubkeyCount)
seqDecrypt == Tuple([i \in 1..(4 * SubkeyCount) |->
                IF i <= SubkeyCount THEN i ELSE SubkeyCount - ((i - 1) % SubkeyCount)], 4 * SubkeyCount)

Round(n, k)     == <<XorT[f[(n[1] + k) % WordMod]][n[2]], n[1]>>
xcrypt(x, seq, n) == Loop(LAMBDA v, i : Round(v, x[seq[i]]), n, Len(seq))

\* The halves are written back swapped.
Crypt28147(x, seq, src) ==
  LET n == xcrypt(x, seq, <<LittleEndian(src, 1), LittleEndian(src, Lanes + 1)>>)
  IN  PutLittleEndian(n[2]) \o PutLittleEndian(n[1])

\* Mutant: the subkeys are read little-endian, as those of GOST 28147-89.
MagmaSubkeysLE(key) == Subkeys(key)

MagmaSubkeys(key) == Tuple([i \in 1..SubkeyCount |-> BigEndian(key, (i - 1) * Lanes + 1)], SubkeyCount)

\* The block is reversed on the way in and out.
CryptMagma(x, seq, src) == Reversed(Crypt28147(x, seq, Reversed(src)))

-----------------------------------------------------------------------------
(* IMIT. *)

\* Two forward passes, written back in natural order.
macBlock(x, state, block) ==
  LET b == XorSeq(state, block)
      n == Loop(LAMBDA v, i : Round(v, x[((i - 1) % SubkeyCount) + 1]),
                <<LittleEndian(b, 1), LittleEndian(b, Lanes + 1)>>, 2 * SubkeyCount)
  IN  PutLittleEndian(n[1]) \o PutLittleEndian(n[2])

BlockNo(b, i) == SubSeq(b, (i - 1) * GostBlock + 1, i * GostBlock)

\* ECB decryption of the constant under the current key.
mesh(x) ==
  Subkeys(Loop(LAMBDA key, i : key \o Crypt28147(Subkeys(keyBytes(x)), seqDecrypt, BlockNo(MeshingKey, i)),
               <<>>, GostKeySize \div GostBlock))

\* Mutant: the counter is reset by the mesh and meshes one block late.
processLate(c, block) ==
  LET x == IF c.count > MeshPeriod THEN mesh(c.x) ELSE c.x
  IN  [x |-> x, state |-> macBlock(x, c.state, block),
       count |-> IF c.count > MeshPeriod THEN GostBlock ELSE c.count + GostBlock]

process(c, block) ==
  LET x == IF c.count = MeshPeriod THEN mesh(c.x) ELSE c.x
  IN  [x |-> x, state |-> macBlock(x, c.state, block), count |-> (c.count % MeshPeriod) + GostBlock]

\* Whole blocks while more than one is left, the padded rest, and a block of
\* zeros if the rest was all there was.
imit(key, msg) ==
  LET full == (Len(msg) - 1) \div GostBlock
      rest == SubSeq(msg, full * GostBlock + 1, Len(msg))
      head == Loop(LAMBDA c, i : process(c, BlockNo(msg, i)),
                   [x |-> Subkeys(key), state |-> Zeros(GostBlock), count |-> 0], full)
      data == process(head, rest \o Zeros(GostBlock - Len(rest)))
  IN  (IF head.count = 0 THEN process(data, Zeros(GostBlock)) ELSE data).state

-----------------------------------------------------------------------------
(* Key wrap. *)

\* Mutant: the cipher follows the key that is being overwritten.
cfbEncryptLive(cipherKey, iv, src) ==
  LET Turn(v, i) ==
        LET c == XorSeq(BlockNo(v.out, i), Crypt28147(Subkeys(v.out), seqEncrypt, v.feedback))
        IN  [out |-> SubSeq(v.out, 1, (i - 1) * GostBlock) \o c \o SubSeq(v.out, i * GostBlock + 1, Len(src)),
             feedback |-> c]
  IN  Loop(Turn, [out |-> src, feedback |-> iv], Len(src) \div GostBlock).out

\* src is overwritten block by block; the subkeys were read before that.
cfbEncrypt(cipherKey, iv, src) ==
  LET x == Subkeys(cipherKey)
      Turn(v, i) ==
        LET c == XorSeq(BlockNo(v.out, i), Crypt28147(x, seqEncrypt, v.feedback))
        IN  [out |-> SubSeq(v.out, 1, (i - 1) * GostBlock) \o c \o SubSeq(v.out, i * GostBlock + 1, Len(src)),
             feedback |-> c]
  IN  Loop(Turn, [out |-> src, feedback |-> iv], Len(src) \div GostBlock).out

\* The words of the key go to one of two sums, by the bits of a UKM byte.
diversify(kek, ukm) ==
  LET Bit(b, j)  == (b \div 2^(j - 1)) % 2
      Sum(x, i, bit) == Loop(LAMBDA sum, j : IF Bit(ukm[i], j) = bit THEN (sum + x[j]) % WordMod ELSE sum,
                             0, SubkeyCount)
      Turn(key, i) ==
        cfbEncrypt(key, PutLittleEndian(Sum(Subkeys(key), i, 1)) \o PutLittleEndian(Sum(Subkeys(key), i, 0)), key)
  IN  Loop(Turn, kek, GostBlock)

macStep(x, state) ==
  LET n == Loop(LAMBDA v, i : Round(v, x[((i - 1) % SubkeyCount) + 1]),
                <<LittleEndian(state, 1), LittleEndian(state, Lanes + 1)>>, 2 * SubkeyCount)
  IN  PutLittleEndian(n[1]) \o PutLittleEndian(n[2])

imit4(macKey, iv, msg) ==
  SubSeq(Loop(LAMBDA state, i : macStep(Subkeys(macKey), XorSeq(state, BlockNo(msg, i))),
              iv, Len(msg) \div GostBlock),
         1, TagSize)

WrappedKey(kek, ukm, sessionKey) ==
  LET kekUKM == diversify(kek, ukm)
      enc    == Loop(LAMBDA out, i : out \o Crypt28147(Subkeys(kekUKM), seqEncrypt, BlockNo(sessionKey, i)),
                     <<>>, GostKeySize \div GostBlock)
  IN  ukm \o enc \o imit4(kekUKM, ukm, sessionKey)

-----------------------------------------------------------------------------
(* The calls. *)

\* GOST2814789Encrypt, MagmaDecrypt, ...: the block is looked at before the key.
BlockCall(cipher, dir, key, src) ==
  Made([op |-> "block", cipher |-> cipher, dir |-> dir, key |-> key, src |-> src],
       IF Len(src) # GostBlock THEN Failed
       ELSE IF Len(key) # GostKeySize THEN Panicked
       ELSE LET seq == IF dir = "Encrypt" THEN seqEncrypt ELSE seqDecrypt
            IN  IF cipher = "Magma" THEN CryptMagma(MagmaSubkeys(key), seq, src)
                ELSE Crypt28147(Subkeys(key), seq, src))

GOST28147_IMIT(key, msg) ==
  Made([op |-> "IMIT", key |-> key, msg |-> msg],
       IF Len(key) # GostKeySize \/ Len(msg) = 0 THEN Failed ELSE SubSeq(imit(key, msg), 1, TagSize))

SeqMACBlock(key, block) ==
  Made([op |-> "SeqMACBlock", key |-> key, block |-> block],
       IF Len(key) # GostKeySize \/ Len(block) # GostBlock THEN Panicked
       ELSE macBlock(Subkeys(key), Zeros(GostBlock), block))

KeyWrapCryptoPro(kek, ukm, sessionKey) ==
  Made([op |-> "KeyWrap", kek |-> kek, ukm |-> ukm, cek |-> sessionKey],
       IF Len(kek) # GostKeySize \/ Len(ukm) # GostBlock \/ Len(sessionKey) # GostKeySize THEN Failed
       ELSE WrappedKey(kek, ukm, sessionKey))

FeistelNext ==
  Idle /\ \E key \in FeistelKeys :
    \/ \E cipher \in {"GOST28147", "Magma"}, dir \in {"Encrypt", "Decrypt"}, b \in FeistelBlocks :
         BlockCall(cipher, dir, key, b)
    \/ \E msg \in Messages : GOST28147_IMIT(key, msg)
    \/ \E b \in FeistelBlocks : SeqMACBlock(key, b)
    \/ \E ukm \in UKMs, cek \in FeistelKeys : KeyWrapCryptoPro(key, ukm, cek)

-----------------------------------------------------------------------------
(* Properties *)

Returned == result \notin {Panicked, Failed}

\* Magma as RFC 8891 writes it: the block is the big-endian pair a1, a0, the
\* round keys are big-endian words, and the last round does not swap.
RefMagma(key, src) ==
  LET x == Tuple([i \in 1..SubkeyCount |-> BigEndian(key, (i - 1) * Lanes + 1)], SubkeyCount)
      G(a, i) == <<a[2], XorT[f[(a[2] + x[seqEncrypt[i]]) % WordMod]][a[1]]>>
      a == Loop(G, <<BigEndian(src, 1), BigEndian(src, Lanes + 1)>>, 4 * SubkeyCount)
  IN  PutBigEndian(a[2]) \o PutBigEndian(a[1])

\* Decrypting is the inverse of encrypting, and Magma is the cipher of RFC 8891
\* though it runs on the little-endian core with blocks reversed and subkeys
\* read the other way round (gost28147.go:62-162, magma.go:58-176).
FeistelExact ==
  call.op = "block" /\ Returned =>
    IF call.cipher = "Magma"
    THEN IF call.dir = "Encrypt" THEN result = RefMagma(call.key, call.src)
         ELSE RefMagma(call.key, result) = call.src
    ELSE LET other == IF call.dir = "Encrypt" THEN seqDecrypt ELSE seqEncrypt
         IN  Crypt28147(Subkeys(call.key), other, result) = call.src

\* IMIT is the chain of all blocks of the message, the last one padded with
\* zeros and a single one followed by a block of zeros, block number b under
\* the key meshed once for each full period before it, wherever the message
\* ends; an empty message and a key of another length are refused.  The MAC of
\* the key wrap is the same chain (imit.go:116-210, keywrap.go:199-252).
ImitExact ==
  /\ call.op = "IMIT" =>
       LET m == call.msg
           blocks == LET k == (Len(m) + GostBlock - 1) \div GostBlock IN IF k = 1 THEN 2 ELSE k
           At(p) == IF p <= Len(m) THEN m[p] ELSE 0
           MeshedKey(n) == Loop(LAMBDA x, i : mesh(x), Subkeys(call.key), n)
           Chain(state, b) ==
             LET blk == Tuple([i \in 1..GostBlock |-> At((b - 1) * GostBlock + i)], GostBlock)
             IN  macBlock(MeshedKey(((b - 1) * GostBlock) \div MeshPeriod), state, blk)
       IN  IF Len(call.key) # GostKeySize \/ m = <<>> THEN result = Failed
           ELSE /\ result = SubSeq(Loop(Chain, Zeros(GostBlock), blocks), 1, TagSize)
                /\ Len(m) \in {2 * GostBlock, MeshPeriod} =>
                     result = imit4(call.key, Zeros(GostBlock), m)
  /\ call.op = "SeqMACBlock" /\ Returned =>
       macStep(Subkeys(call.key), call.block) = result

\* RFC 4357 6.5, one key after another: K[i + 1] = CFB under K[i] of K[i].
RefDiversify(kek, ukm) ==
  LET Words(k) == [j \in 1..SubkeyCount |-> LittleEndian(k, (j - 1) * Lanes + 1)]
      SumOf(k, S) == Loop(LAMBDA sum, j : IF j \in S THEN sum + Words(k)[j] ELSE sum, 0, SubkeyCount) % WordMod
      Ones(b) == {j \in 1..SubkeyCount : (b \div 2^(j - 1)) % 2 = 1}
      Next(k, i) ==
        LET iv == PutLittleEndian(SumOf(k, Ones(ukm[i]))) \o
                  PutLittleEndian(SumOf(k, (1..SubkeyCount) \ Ones(ukm[i])))
            C(out, b) == out \o XorSeq(BlockNo(k, b), Crypt28147(Subkeys(k), seqEncrypt,
                                         IF b = 1 THEN iv ELSE BlockNo(out, b - 1)))
        IN  Loop(C, <<>>, GostKeySize \div GostBlock)
  IN  Loop(Next, kek, GostBlock)

\* The receiver of RFC 4357 6.4, who diversifies the KEK with the UKM of the
\* blob and decrypts, gets the session key back, and the MAC fits: the wrap is
\* made with the key each round of diversification started from, though that
\* key is overwritten in place (keywrap.go:85-265).
WrapExact ==
  call.op = "KeyWrap" =>
    IF Returned
    THEN LET ukm == SubSeq(result, 1, GostBlock)
             k   == RefDiversify(call.kek, ukm)
             enc == SubSeq(result, GostBlock + 1, GostBlock + GostKeySize)
             cek == Loop(LAMBDA out, i : out \o Crypt28147(Subkeys(k), seqDecrypt, BlockNo(enc, i)),
                         <<>>, GostKeySize \div GostBlock)
         IN  /\ ukm = call.ukm /\ cek = call.cek
             /\ SubSeq(result, GostBlock + GostKeySize + 1, Len(result)) = imit4(k, ukm, cek)
             /\ Len(result) = GostBlock + GostKeySize + TagSize
    ELSE Len(call.kek) # GostKeySize \/ Len(call.cek) # GostKeySize \/ Len(call.ukm) # GostBlock
=============================================================================
