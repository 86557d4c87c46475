-------------------------------- MODULE Calls --------------------------------
(* A caller that makes one call of a function without state of its own: what  *)
(* it called, with the arguments, and what it got.                            *)

VARIABLES
  call,        \* [op |-> ...] with the arguments, NoCall before it
  result       \* what was returned; Panicked, Failed if the call panicked or returned an error

NoCall   == [op |-> "none"]
Panicked == <<"panic">>
Failed   == <<"error">>

CallInit == call = NoCall /\ result = <<>>

Idle == call = NoCall

Made(c, r) == call' = c /\ result' = r
=============================================================================
