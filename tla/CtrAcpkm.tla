------------------------------ MODULE CtrAcpkm ------------------------------
(***************************************************************************)
(* ctracpkm/ctracpkm.go: the GOST CTR / CTR-ACPKM keystream generator.     *)
(*                                                                         *)
(* Data abstraction.  A section key is the number of ACPKM transformations *)
(* that separate it from the master key, a counter block is the integer it *)
(* encodes, and a keystream byte is the triple (section key, counter block *)
(* that was encrypted, offset in the encrypted block).  Two bytes of the   *)
(* program are equal for every cipher exactly when their triples are.      *)
(*                                                                         *)
(* Control is kept in full: the constructor guards, the panic paths, lazy  *)
(* re-keying, the two batched paths with their clipping, the byte loop and *)
(* the gamma carried from one XORKeyStream call to the next.               *)
(***************************************************************************)
EXTENDS Integers

CONSTANTS
  BlockSize,    \* block size n of the cipher, in bytes
  KeySize,      \* acpkmKeySize
  CtrMod,       \* number of counter blocks, 2^(8 n)
  IV0,          \* the counter handed to the constructor
  MinBulk,      \* minBulkBlocks
  MaxBulk,      \* maxBulkBlocks
  KeyLens,      \* the len(key) tried by the caller
  IvLens,       \* the len(iv) tried by the caller
  Sections,     \* the section sizes tried by the caller
  CallLens,     \* the len(src) of XORKeyStream calls
  MaxStream     \* bound: bytes of one stream a run looks at

ASSUME BlockSizeAssumption == BlockSize \in Nat \ {0}
ASSUME CounterAssumption   == CtrMod \in Nat \ {0} /\ IV0 \in 0..(CtrMod - 1)
ASSUME BulkAssumption      == MinBulk \in Nat \ {0} /\ MaxBulk \in Nat /\ MaxBulk >= MinBulk
ASSUME InputAssumption     ==
  /\ KeySize \in Nat /\ KeyLens \subseteq Nat /\ IvLens \subseteq Nat
  /\ Sections \subseteq Int /\ CallLens \subseteq Nat /\ MaxStream \in Nat

VARIABLES
  st,           \* "new", "idle", "busy" (in XORKeyStream) or "panic"
  factory,      \* newBlock # nil
  kind,         \* what the cipher implements: see Kinds
  sectionSize,  \* ACPKM section N in bytes, 0 for plain CTR
  key,          \* the current section key
  iv,           \* running counter
  gamma,        \* <<key, counter>> whose encryption the gamma buffer holds
  num,          \* gamma bytes already consumed
  sinceRekey,   \* keystream bytes under the current key
  todo,         \* len(src) - i of the call in progress
  pos,          \* history: bytes emitted
  out           \* history: the emitted bytes, indexed 0 .. pos-1

params == <<factory, kind, sectionSize>>
vars == <<st, factory, kind, sectionSize, key, iv, gamma, num, sinceRekey, todo, pos, out>>

\* cipher.Block only; with EncryptBlocks; with EncryptBlocks and CTRXORBlocks.
Kinds == {"block", "bulk", "fused"}

Byte(k, c, o) == [key |-> k, ctr |-> c, off |-> o]

incCounter(c, by) == (c + by) % CtrMod

-----------------------------------------------------------------------------
(* Construction *)

Init ==
  /\ st = "new" /\ factory = FALSE /\ kind = "block" /\ sectionSize = 0
  /\ key = 0 /\ iv = 0 /\ gamma = <<0, 0>> /\ num = 0 /\ sinceRekey = 0
  /\ todo = 0 /\ pos = 0 /\ out = [p \in {} |-> Byte(0, 0, 0)]

\* The common tail of both constructors: num = bs forces a fresh gamma block.
MakeStream(k, s, f) ==
  /\ st' = "idle" /\ kind' = k /\ sectionSize' = s /\ factory' = f
  /\ iv' = IV0 /\ num' = BlockSize
  /\ UNCHANGED <<key, gamma, sinceRekey, todo, pos, out>>

Panic ==
  /\ st' = "panic"
  /\ UNCHANGED <<params, key, iv, gamma, num, sinceRekey, todo, pos, out>>

NewCTR(k, ivLen) ==
  /\ st = "new"
  /\ IF ivLen = BlockSize THEN MakeStream(k, 0, FALSE) ELSE Panic

ValidACPKM(keyLen, ivLen, s) ==
  /\ s >= 0
  /\ keyLen = KeySize
  /\ KeySize % BlockSize = 0
  /\ ivLen = BlockSize
  /\ s % BlockSize = 0

NewCTRACPKM(k, keyLen, ivLen, s) ==
  /\ st = "new"
  /\ IF ValidACPKM(keyLen, ivLen, s) THEN MakeStream(k, s, TRUE) ELSE Panic

-----------------------------------------------------------------------------
(* XORKeyStream *)

\* Entry with well-formed buffers.
XORKeyStream(n) ==
  /\ st = "idle" /\ pos + n <= MaxStream
  /\ st' = "busy" /\ todo' = n
  /\ UNCHANGED <<params, key, iv, gamma, num, sinceRekey, pos, out>>

\* len(dst) < len(src), or dst overlaps src inexactly: the call panics before
\* it has touched the stream, which a caller that recovers may go on using.
XORKeyStreamPanics ==
  /\ st = "idle"
  /\ UNCHANGED vars

AtBoundary == st = "busy" /\ todo > 0 /\ num = BlockSize

\* Mutant: the section boundary is off by one.
RekeyDueLate == sectionSize > 0 /\ sinceRekey > sectionSize

RekeyDue == sectionSize > 0 /\ sinceRekey >= sectionSize

\* Mutant: the re-keyed cipher is built and then dropped.
rekeyKeepsKey ==
  /\ AtBoundary /\ RekeyDue
  /\ sinceRekey' = 0
  /\ UNCHANGED <<st, params, key, iv, gamma, num, todo, pos, out>>

\* rekeyACPKM and the reset that follows it; the counter keeps running.
rekeyACPKM ==
  /\ AtBoundary /\ RekeyDue
  /\ key' = IF factory THEN key + 1 ELSE key
  /\ sinceRekey' = 0
  /\ UNCHANGED <<st, params, iv, gamma, num, todo, pos, out>>

\* Mutant: a batch may run one block into the next section.
UntilRekeyPastEnd == (sectionSize - sinceRekey) \div BlockSize + 1

\* The run of whole blocks bulkXOR may take: bounded by the data left, by the
\* end of the section and, without the fused path, by the scratch buffers.
UntilRekey == (sectionSize - sinceRekey) \div BlockSize
Clipped == LET blocks == todo \div BlockSize
           IN  IF sectionSize > 0 /\ blocks > UntilRekey THEN UntilRekey ELSE blocks
BulkBlocks == IF kind = "bulk" /\ Clipped > MaxBulk THEN MaxBulk ELSE Clipped
\* Mutant: a batch of no blocks counts as progress.
TakesBulkAlways == kind # "block"

TakesBulk == kind # "block" /\ Clipped >= MinBulk

Emitted(n, B(_)) ==
  [p \in 0..(pos + n - 1) |-> IF p < pos THEN out[p] ELSE B(p - pos)]

\* gamma and num are left alone: the batch starts and ends on a boundary.
bulkXOR ==
  /\ AtBoundary /\ ~RekeyDue /\ TakesBulk
  /\ LET n == BulkBlocks * BlockSize
         B(j) == Byte(key, incCounter(iv, j \div BlockSize), j % BlockSize)
     IN  /\ out' = Emitted(n, B)
         /\ pos' = pos + n
         /\ sinceRekey' = sinceRekey + n
         /\ todo' = todo - n
  /\ iv' = incCounter(iv, BulkBlocks)
  /\ UNCHANGED <<st, params, key, gamma, num>>

\* Mutant: the counter is incremented before it is encrypted.
NextGammaIncFirst ==
  /\ AtBoundary /\ ~RekeyDue /\ ~TakesBulk
  /\ gamma' = <<key, incCounter(iv, 1)>>
  /\ iv' = incCounter(iv, 1)
  /\ num' = 0
  /\ UNCHANGED <<st, params, key, sinceRekey, todo, pos, out>>

NextGamma ==
  /\ AtBoundary /\ ~RekeyDue /\ ~TakesBulk
  /\ gamma' = <<key, iv>>
  /\ iv' = incCounter(iv, 1)
  /\ num' = 0
  /\ UNCHANGED <<st, params, key, sinceRekey, todo, pos, out>>

XORByte ==
  /\ st = "busy" /\ todo > 0 /\ num < BlockSize
  /\ LET B(j) == Byte(gamma[1], gamma[2], num)
     IN  out' = Emitted(1, B)
  /\ pos' = pos + 1
  /\ num' = num + 1
  /\ sinceRekey' = sinceRekey + 1
  /\ todo' = todo - 1
  /\ UNCHANGED <<st, params, key, iv, gamma>>

Return ==
  /\ st = "busy" /\ todo = 0
  /\ st' = "idle"
  /\ UNCHANGED <<params, key, iv, gamma, num, sinceRekey, todo, pos, out>>

-----------------------------------------------------------------------------
Loop == rekeyACPKM \/ bulkXOR \/ NextGamma \/ XORByte \/ Return

Next ==
  \/ \E k \in Kinds, l \in IvLens : NewCTR(k, l)
  \/ \E k \in Kinds, kl \in KeyLens, l \in IvLens, s \in Sections : NewCTRACPKM(k, kl, l, s)
  \/ \E n \in CallLens : XORKeyStream(n)
  \/ XORKeyStreamPanics
  \/ Loop

Spec == Init /\ [][Next]_vars

\* The body of XORKeyStream is sequential code: once entered it keeps running.
FairSpec == Spec /\ WF_vars(Loop)

-----------------------------------------------------------------------------
(* Properties *)

\* The fields keep their Go types: the counter wraps at the block size, and the
\* gamma index never runs past its block (ctracpkm.go:93-106, 333-340).
TypeOK ==
  /\ st \in {"new", "idle", "busy", "panic"}
  /\ factory \in BOOLEAN /\ kind \in Kinds /\ sectionSize \in Nat
  /\ key \in Nat /\ iv \in 0..(CtrMod - 1) /\ gamma \in Nat \X (0..(CtrMod - 1))
  /\ num \in 0..BlockSize /\ sinceRekey \in Nat /\ todo \in Nat /\ pos \in Nat
  /\ out \in [0..(pos - 1) -> [key : Nat, ctr : 0..(CtrMod - 1), off : 0..(BlockSize - 1)]]

\* Byte p of the stream as the standard defines it, with no state at all: the
\* section that p lies in, the counter of its block (never reset), its offset.
ByteAt(s, p) ==
  Byte(IF s = 0 THEN 0 ELSE p \div s, (IV0 + p \div BlockSize) % CtrMod, p % BlockSize)

\* The stream does not depend on how it was produced: whatever the cuts into
\* XORKeyStream calls, the cipher's batch capabilities and the clipping of the
\* batches, the bytes emitted so far are a prefix of the one-shot stream
\* (ctracpkm.go:90-92 for the cuts, 22-25 for the batches, 141-143 for N = 0).
StreamIsOneShot == \A p \in 0..(pos - 1) : out[p] = ByteAt(sectionSize, p)

Whole(x) == x % BlockSize = 0

Aligned ==
  /\ Whole(pos + BlockSize - num) /\ Whole(sinceRekey + BlockSize - num)
  /\ Whole(sectionSize)

CounterInv ==
  /\ iv = (IV0 + (pos + BlockSize - num) \div BlockSize) % CtrMod
  /\ num < BlockSize => gamma = <<key, (IV0 + pos \div BlockSize) % CtrMod>>

SectionInv ==
  /\ sectionSize = 0 => key = 0
  /\ sectionSize > 0 =>
       /\ factory
       /\ pos = key * sectionSize + sinceRekey
       /\ sinceRekey <= sectionSize
       /\ num < BlockSize => sinceRekey + (BlockSize - num) <= sectionSize

Unopened == pos = 0 /\ key = 0 /\ sinceRekey = 0 /\ todo = 0 /\ sectionSize = 0

\* The strengthening of StreamIsOneShot that every step preserves: the fields
\* a call leaves behind are a function of the position, so the next call goes
\* on where a one-shot call would (ctracpkm.go:202-247).  A batch relies on the
\* alignment and the section, a byte taken from a gamma block of an earlier
\* call on the counter and the room left in the section.
IInv ==
  /\ TypeOK
  /\ StreamIsOneShot
  /\ st \in {"new", "panic"} => Unopened
  /\ st \in {"idle", "busy"} => Aligned /\ CounterInv /\ SectionInv

\* No keystream byte is emitted twice: within one period of the counter never,
\* and under ACPKM with sections no longer than that period never at all, the
\* counter that is not reset by rekeyACPKM notwithstanding
\* (ctracpkm.go:217-221, 311-327).
NoReuse ==
  \A q \in 0..(pos - 1) : \A p \in 0..(q - 1) :
    \/ q - p < CtrMod * BlockSize
    \/ sectionSize > 0 /\ sectionSize <= CtrMod * BlockSize
    => out[p] # out[q]

\* XORKeyStream returns: a batch that covers no byte never makes the loop spin
\* (ctracpkm.go:226-232, 256-305).
CallReturns == st = "busy" ~> st = "idle"

Abstract == INSTANCE KeyStream WITH
  cfg <- IF st \in {"new", "panic"} THEN -1 ELSE sectionSize,
  Configs <- Nat, Closed <- -1

\* The promise of KeyStream, with the section size as the configuration: every
\* step of XORKeyStream appends bytes that depend on their position only, and
\* no failed call changes the stream (ctracpkm.go:202-247).
RefinesKeyStream == Abstract!Spec
=============================================================================
