------------------------------- MODULE Digest -------------------------------
(***************************************************************************)
(* What a streaming hash or MAC of the library promises (hash.Hash): the   *)
(* value Sum returns is a function of the message alone, the concatenation *)
(* of everything written since construction or the last Reset.  How Write  *)
(* calls cut the message, and Sum calls in between, do not matter.         *)
(***************************************************************************)
EXTENDS Sequences, Integers

CONSTANTS
  DigestOf(_, _),  \* DigestOf(cfg, m): the digest of message m
  NoTag            \* value of tag before the first Sum

VARIABLES
  cfg,           \* what the object was constructed for; never changes
  msg,           \* the bytes written since the last Reset
  tag            \* the result of the last Sum

vars == <<cfg, msg, tag>>

Init == msg = <<>> /\ tag = NoTag

Write ==
  /\ Len(msg') > Len(msg) /\ SubSeq(msg', 1, Len(msg)) = msg
  /\ UNCHANGED <<cfg, tag>>

Sum == tag' = DigestOf(cfg, msg) /\ UNCHANGED <<cfg, msg>>

Reset == msg' = <<>> /\ UNCHANGED <<cfg, tag>>

Next == Write \/ Sum \/ Reset

Spec == Init /\ [][Next]_vars
=============================================================================
