----------------------------- MODULE KeyStream -----------------------------
(***************************************************************************)
(* What a stream generator of the library promises (cipher.Stream): after  *)
(* it has been opened with a configuration, the bytes it emits are the     *)
(* bytes ByteAt(cfg, 0), ByteAt(cfg, 1), ... of ONE fixed stream, in order *)
(* and without a gap, however the caller cuts its data into XORKeyStream   *)
(* calls and whichever code path produces them.  It says nothing of calls, *)
(* block boundaries, batches, re-keying or buffered gamma.                 *)
(***************************************************************************)
EXTENDS Integers

CONSTANTS
  ByteAt(_, _),  \* ByteAt(cfg, p): byte number p of the stream of cfg
  Configs,       \* the configurations a stream can be opened with
  Closed         \* the value of cfg before a stream exists

VARIABLES
  cfg,           \* the stream's configuration, or Closed
  pos,           \* how many bytes were emitted
  out            \* the emitted bytes, indexed 0 .. pos-1

vars == <<cfg, pos, out>>

Prefix(c, n) == [p \in 0..(n - 1) |-> ByteAt(c, p)]

Init ==
  /\ cfg = Closed
  /\ pos = 0
  /\ DOMAIN out = {}

Open ==
  /\ cfg = Closed
  /\ cfg' \in Configs
  /\ UNCHANGED <<pos, out>>

Emit ==
  /\ cfg # Closed
  /\ pos' > pos
  /\ out' = Prefix(cfg, pos')
  /\ UNCHANGED cfg

Next == Open \/ Emit

Spec == Init /\ [][Next]_vars
=============================================================================
