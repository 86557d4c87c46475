-------------------------------- MODULE Cnt --------------------------------
(***************************************************************************)
(* gost28147cnt/cnt.go: the GOST 28147-89 counter mode with CryptoPro key  *)
(* meshing.                                                                *)
(*                                                                         *)
(* Data abstraction.  A cipher is its S-box and the number of meshings its *)
(* key went through.  A block is the pair (lo, hi) of words modulo Word;   *)
(* Encrypt is the block cipher on such pairs, left open.  A keystream byte *)
(* names the cipher, the counter block encrypted, and the offset in it.    *)
(***************************************************************************)
EXTENDS Integers

CONSTANTS
  BlockSize,      \* gost28147.BlockSize, 8 in the code
  Mesh,           \* meshThreshold, 1024 in the code
  Word,           \* number of values of a uint32
  C1, C2,         \* c1, c2
  Encrypt(_, _),  \* Encrypt(cipher, block)
  SBoxes,         \* S-boxes
  IVs,            \* initial counter blocks tried
  IvLens,         \* the len(iv) tried by the caller
  CallLens,       \* the len(src) of XORKeyStream calls
  MaxStream       \* bound: bytes of one stream a run looks at

Words == 0..(Word - 1)
Pairs == Words \X Words
Ciphers == SBoxes \X Nat

ASSUME CntSizeAssumption ==
  BlockSize \in Nat \ {0} /\ Mesh \in Nat \ {0} /\ Mesh % BlockSize = 0
ASSUME CntWordAssumption == Word \in Nat \ {0, 1} /\ {C1, C2} \subseteq 1..(Word - 1)
ASSUME CntPeriodAssumption ==   \* c2 is odd and a key is used for fewer than 2^32 blocks
  \A n \in 1..(Mesh \div BlockSize - 1) : (n * C2) % Word # 0
ASSUME CntInputAssumption ==
  IVs \subseteq Pairs /\ IvLens \subseteq Nat /\ CallLens \subseteq Nat /\ MaxStream \in Nat
ASSUME CntCipherAssumption ==
  \A s \in SBoxes, g \in 0..(MaxStream \div Mesh), b \in Pairs : Encrypt(<<s, g>>, b) \in Pairs

VARIABLES
  st,             \* "new", "idle", "busy" (in XORKeyStream) or "panic"
  c,              \* the cipher in use
  sbox,           \* the S-box meshing builds ciphers with
  iv,             \* counter block
  gamma,          \* <<cipher, counter>> whose encryption the gamma buffer holds
  num,            \* gamma bytes already consumed
  count,          \* keystream bytes since the last meshing
  first,          \* no gamma block was generated yet
  todo,           \* bytes left of the call in progress
  opened,         \* history: <<S-box, IV>> the stream was constructed with
  pos, out        \* history: the emitted bytes, indexed 0 .. pos-1

vars == <<st, c, sbox, iv, gamma, num, count, first, todo, opened, pos, out>>

Byte(k, b, o) == [cipher |-> k, ctr |-> b, off |-> o]

\* Mutant: no end-around carry of the upper word.
StepHiNoCarry(hi) == (hi + C1) % Word

\* lo += c2 modulo 2^32; hi += c1 with an end-around carry.
StepLo(lo) == (lo + C2) % Word
StepHi(hi) == LET s == (hi + C1) % Word
              IN  IF hi > s THEN (s + 1) % Word ELSE s

-----------------------------------------------------------------------------
Init ==
  /\ st = "new" /\ num = 0 /\ count = 0 /\ first = TRUE /\ todo = 0
  /\ opened \in SBoxes \X IVs
  /\ c = <<opened[1], 0>> /\ sbox = opened[1] /\ iv = <<0, 0>> /\ gamma = <<c, iv>>
  /\ pos = 0 /\ out = [p \in {} |-> Byte(c, iv, 0)]

NewCNT(ivLen) ==
  /\ st = "new"
  /\ IF ivLen = BlockSize
     THEN st' = "idle" /\ sbox' = c[1] /\ iv' = opened[2] /\ first' = TRUE
     ELSE st' = "panic" /\ UNCHANGED <<sbox, iv, first>>
  /\ UNCHANGED <<c, gamma, num, count, todo, opened, pos, out>>

XORKeyStream(n) ==
  /\ st = "idle" /\ pos + n <= MaxStream
  /\ st' = "busy" /\ todo' = n
  /\ UNCHANGED <<c, sbox, iv, gamma, num, count, first, opened, pos, out>>

\* len(dst) < len(src): the panic comes before the stream is touched.
XORKeyStreamPanics == st = "idle" /\ UNCHANGED vars

\* dst[i] = src[i] ^ gamma[num], then num = (num + 1) % BlockSize.
XORByte(g) ==
  /\ out' = [p \in 0..pos |-> IF p < pos THEN out[p] ELSE Byte(g[1], g[2], num)]
  /\ pos' = pos + 1
  /\ num' = (num + 1) % BlockSize
  /\ todo' = todo - 1
  /\ UNCHANGED <<st, sbox, opened>>

\* Mutants: the new key is dropped; the counter is not encrypted again.
meshKeepsKey == <<c, Encrypt(c, iv)>>
meshKeepsCounter == <<<<sbox, c[2] + 1>>, iv>>

\* The cipher and the counter after meshKey: a new key for the same S-box, and
\* the running counter encrypted under it.
meshKey == LET k == <<sbox, c[2] + 1>> IN <<k, Encrypt(k, iv)>>

\* num = 0: nextGamma, then the first byte of the new block.
nextGamma ==
  /\ st = "busy" /\ todo > 0 /\ num = 0
  /\ LET mesh == count = Mesh
         k    == IF mesh THEN meshKey[1] ELSE c
         v    == IF mesh THEN meshKey[2] ELSE iv
         b    == IF first THEN Encrypt(k, v) ELSE v
         ctr  == <<StepLo(b[1]), StepHi(b[2])>>
     IN  /\ c' = k /\ iv' = ctr /\ gamma' = <<k, ctr>>
         /\ count' = ((IF mesh THEN 0 ELSE count) % Mesh) + BlockSize
         /\ XORByte(<<k, ctr>>)
  /\ first' = FALSE

GammaByte ==
  /\ st = "busy" /\ todo > 0 /\ num # 0
  /\ XORByte(gamma)
  /\ UNCHANGED <<c, iv, gamma, count, first>>

Return ==
  /\ st = "busy" /\ todo = 0
  /\ st' = "idle"
  /\ UNCHANGED <<c, sbox, iv, gamma, num, count, first, todo, opened, pos, out>>

Next ==
  \/ \E l \in IvLens : NewCNT(l)
  \/ \E n \in CallLens : XORKeyStream(n)
  \/ XORKeyStreamPanics
  \/ nextGamma \/ GammaByte \/ Return

Spec == Init /\ [][Next]_vars

-----------------------------------------------------------------------------
(* Properties *)

\* The counter n >= 1 steps after b in closed form: lo modulo Word, hi modulo
\* Word - 1 with Word - 1, never 0, as the representative of zero.
After(b, n) ==
  <<(b[1] + n * C2) % Word, ((b[2] + n * C1 - 1) % (Word - 1)) + 1>>

\* The blocks a key is used for.
GenBlocks == Mesh \div BlockSize

\* The block that generation g of the stream of cfg = <<S-box, IV>> starts from.
Start(cfg, g) ==
  LET start[i \in 0..g] ==
        Encrypt(<<cfg[1], i>>, IF i = 0 THEN cfg[2] ELSE After(start[i - 1], GenBlocks))
  IN  start[g]

\* Byte p of the stream of cfg with no state: the generation of its key, and the
\* steps from the block that generation starts from.
ByteAt(cfg, p) ==
  LET g == p \div Mesh
  IN  Byte(<<cfg[1], g>>, After(Start(cfg, g), (p % Mesh) \div BlockSize + 1), p % BlockSize)

TypeOK ==
  /\ st \in {"new", "idle", "busy", "panic"} /\ opened \in SBoxes \X IVs /\ sbox = opened[1]
  /\ num \in 0..(BlockSize - 1) /\ todo \in Nat /\ pos \in 0..MaxStream
  /\ st = "busy" => pos + todo <= MaxStream

\* The stream before its first block.
Fresh ==
  /\ first /\ c = <<opened[1], 0>> /\ num = 0 /\ count = 0
  /\ st \in {"idle", "busy"} => iv = opened[2]

\* The key, the counter and the counts are those of the last byte emitted.
Running ==
  LET g == (pos - 1) \div Mesh
      m == ((pos - 1) % Mesh) \div BlockSize + 1
  IN  /\ ~first /\ st \in {"idle", "busy"}
      /\ c = <<opened[1], g>> /\ iv = After(Start(opened, g), m) /\ gamma = <<c, iv>>
      /\ count = m * BlockSize /\ num = pos % BlockSize

\* The inductive invariant: the bytes emitted are those of the one stream, and
\* the state is that of its last byte.
IInv ==
  /\ TypeOK
  /\ IF pos = 0 THEN Fresh ELSE Running
  /\ out = [p \in 0..(pos - 1) |-> ByteAt(opened, p)]

\* No keystream byte is emitted twice, however the encrypted counters of two
\* generations collide (cnt.go:112-130).
NoReuse == \A q \in 0..(pos - 1) : \A p \in 0..(q - 1) : out[p] # out[q]

Abstract == INSTANCE KeyStream WITH
  cfg <- IF st \in {"new", "panic"} THEN <<>> ELSE opened,
  Configs <- SBoxes \X Pairs, Closed <- <<>>

\* The promise of KeyStream, with the S-box and the IV as the configuration:
\* XORKeyStream appends bytes that depend on their position only (cnt.go:97-110).
RefinesKeyStream == Abstract!Spec
=============================================================================
