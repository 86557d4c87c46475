------------------------------ MODULE LazyInit ------------------------------
(***************************************************************************)
(* The values of the library that are built on first use, under a          *)
(* sync.Once, by whichever goroutine comes first: the lookup tables of     *)
(* kuznyechik (NewCipher), the bit columns of its constant-time path       *)
(* (NewCipherCT), and the two Montgomery contexts of a curve (ctCurve and  *)
(* ctCurve8, read by ScalarMultCT).  sync.Once itself is the Go library's, *)
(* modelled by its flag, its mutex and the second look at the flag.        *)
(*                                                                         *)
(* Data abstraction.  A value is the set of its parts that were assigned:  *)
(* the tables are filled position by position, a context is assigned as a  *)
(* whole.  After the call that asked for it, a goroutine reads the value   *)
(* as long as it likes.                                                    *)
(***************************************************************************)
EXTENDS Integers

CONSTANTS
  Goroutines,  \* goroutines that share the library
  NoOne,       \* owner of a free mutex, and what a goroutine looks at outside a call
  Positions,   \* positions of the tables, filled from 1: BlockSize in the code
  Widths       \* bit lengths of P, of the curves tried

Tables   == {"tableOnce", "ctColumnsOnce"}
Contexts == {"ctOnce", "ctOnce8"}
Onces    == Tables \cup Contexts

ASSUME LazyAssumption ==
  NoOne \notin Goroutines \cup Onces /\ Positions \in Nat \ {0} /\ Widths \subseteq Nat

VARIABLES
  bits,        \* c.P.BitLen() of the curve
  done, owner, \* of every sync.Once: its flag and the holder of its mutex
  built,       \* parts of every value assigned so far
  pc,          \* where a goroutine is
  at,          \* the sync.Once its call looks at
  next         \* the part its initialiser assigns next

lazyVars == <<bits, done, owner, built, pc, at, next>>

Parts(o) == 1..(IF o \in Tables THEN Positions ELSE 1)

\* What the initialiser assigns for a curve of b bits: nothing leaves the value nil.
Assigned(o, b) ==
  IF \/ o \in Tables
     \/ o = "ctOnce" /\ b <= 256
     \/ o = "ctOnce8" /\ b > 256 /\ b <= 512
  THEN Parts(o) ELSE {}

\* What a call asks for first: NewCipher, NewCipherCT, ScalarMultCT.
Asked == {"tableOnce", "ctColumnsOnce", "ctOnce"}

\* ScalarMultCT asks for the wider context when the narrow one is nil, and then
\* falls back to ScalarMult, which uses none.
Otherwise(o) == IF o = "ctOnce" THEN "ctOnce8" ELSE NoOne

LazyInit ==
  /\ bits \in Widths
  /\ done = [o \in Onces |-> FALSE] /\ owner = [o \in Onces |-> NoOne]
  /\ built = [o \in Onces |-> {}]
  /\ pc = [g \in Goroutines |-> "idle"]
  /\ at = [g \in Goroutines |-> NoOne]
  /\ next = [g \in Goroutines |-> 1]

Goto(g, l) == pc' = [pc EXCEPT ![g] = l]

Call(g, o) ==
  /\ pc[g] = "idle"
  /\ at' = [at EXCEPT ![g] = o] /\ Goto(g, "do")
  /\ UNCHANGED <<bits, done, owner, built, next>>

\* Once.Do: nothing to do if the flag is set.
Do(g) ==
  /\ pc[g] = "do"
  /\ Goto(g, IF done[at[g]] THEN "got" ELSE "lock")
  /\ UNCHANGED <<bits, done, owner, built, at, next>>

Lock(g) ==
  /\ pc[g] = "lock" /\ owner[at[g]] = NoOne
  /\ owner' = [owner EXCEPT ![at[g]] = g] /\ Goto(g, "locked")
  /\ UNCHANGED <<bits, done, built, at, next>>

\* Mutant: the flag is not looked at again under the mutex.
SecondLookNever(g) ==
  /\ pc[g] = "locked"
  /\ Goto(g, "init") /\ next' = [next EXCEPT ![g] = 1]
  /\ UNCHANGED <<bits, done, owner, built, at>>

SecondLook(g) ==
  /\ pc[g] = "locked"
  /\ Goto(g, IF done[at[g]] THEN "unlock" ELSE "init")
  /\ next' = [next EXCEPT ![g] = 1]
  /\ UNCHANGED <<bits, done, owner, built, at>>

\* One assignment of buildTables, buildCTColumns, or of the curve's context.
Assign(g) ==
  /\ pc[g] = "init" /\ next[g] \in Assigned(at[g], bits)
  /\ built' = [built EXCEPT ![at[g]] = @ \cup {next[g]}]
  /\ next' = [next EXCEPT ![g] = @ + 1]
  /\ UNCHANGED <<bits, done, owner, pc, at>>

\* Mutant: the flag is set before the initialiser is through.
InitDoneEarly(g) ==
  /\ pc[g] = "init"
  /\ done' = [done EXCEPT ![at[g]] = TRUE] /\ Goto(g, "unlock")
  /\ UNCHANGED <<bits, owner, built, at, next>>

InitDone(g) ==
  /\ pc[g] = "init" /\ next[g] \notin Assigned(at[g], bits)
  /\ done' = [done EXCEPT ![at[g]] = TRUE] /\ Goto(g, "unlock")
  /\ UNCHANGED <<bits, owner, built, at, next>>

\* Mutant: the mutex of the value asked for is kept.
UnlockForgotten(g) ==
  /\ pc[g] = "unlock"
  /\ Goto(g, "got")
  /\ UNCHANGED <<bits, done, owner, built, at, next>>

Unlock(g) ==
  /\ pc[g] = "unlock"
  /\ owner' = [owner EXCEPT ![at[g]] = NoOne] /\ Goto(g, "got")
  /\ UNCHANGED <<bits, done, built, at, next>>

\* The value is nil exactly when nothing was assigned.
Got(g) ==
  /\ pc[g] = "got"
  /\ IF built[at[g]] # {}
     THEN Goto(g, "use") /\ UNCHANGED at
     ELSE /\ at' = [at EXCEPT ![g] = Otherwise(@)]
          /\ Goto(g, IF Otherwise(at[g]) = NoOne THEN "use" ELSE "do")
  /\ UNCHANGED <<bits, done, owner, built, next>>

\* The goroutine has read what it wanted.
Release(g) ==
  /\ pc[g] = "use"
  /\ at' = [at EXCEPT ![g] = NoOne] /\ Goto(g, "idle")
  /\ UNCHANGED <<bits, done, owner, built, next>>

\* What a goroutine does within a call, once it made it.
Step(g) ==
  Do(g) \/ Lock(g) \/ SecondLook(g) \/ Assign(g) \/ InitDone(g) \/ Unlock(g) \/ Got(g) \/ Release(g)

LazyNext == \E g \in Goroutines : Step(g) \/ \E o \in Asked : Call(g, o)

LazySpec == LazyInit /\ [][LazyNext]_lazyVars

\* The Go scheduler runs every goroutine that can run; what an initialiser and
\* a reader do is finite.  Nobody has to call.
FairSpec == LazySpec /\ \A g \in Goroutines : WF_lazyVars(Step(g))

-----------------------------------------------------------------------------
(* Properties *)

Locations == {"idle", "do", "lock", "locked", "init", "unlock", "got", "use"}

LazyTypeOK ==
  /\ bits \in Widths /\ done \in [Onces -> BOOLEAN]
  /\ owner \in [Onces -> Goroutines \cup {NoOne}]
  /\ built \in [Onces -> SUBSET (1..Positions)] /\ next \in [Goroutines -> Nat]
  /\ pc \in [Goroutines -> Locations]
  /\ at \in [Goroutines -> Onces \cup {NoOne}]

\* The value ScalarMultCT must work with for a curve of b bits.
ContextFor(b) ==
  IF b <= 256 THEN "ctOnce" ELSE IF b <= 512 THEN "ctOnce8" ELSE NoOne

\* Whoever uses a value that is built on first use finds all of it, however the
\* calls of several goroutines interleave with the one that builds it, and the
\* context a curve is multiplied with is the one of its width, none for a wider
\* one (kuznyechik.go:285-297, ctkuznyechik.go:39-50, ctscalar.go:149-200).
ReadsComplete ==
  \A g \in Goroutines : pc[g] = "use" =>
    /\ at[g] # NoOne => built[at[g]] = Parts(at[g])
    /\ at[g] \in Tables \cup {ContextFor(bits)}

\* No data race on a value: while a goroutine assigns its parts, nobody else
\* assigns or reads it, so the plain loads of the tables need no lock
\* (kuznyechik.go:219-241, 243-256, ctkuznyechik.go:61-79).
NoRace ==
  \A g, h \in Goroutines :
    g # h /\ pc[g] = "init" /\ pc[h] \in {"init", "got", "use"} =>
      at[g] # at[h]

\* A call returns: the goroutine that builds lets the waiting ones in, and they
\* do not build again (ctscalar.go:151-171).
CallsReturn == \A g \in Goroutines : pc[g] = "do" ~> pc[g] = "idle"

-----------------------------------------------------------------------------
(* The inductive invariant. *)

\* Within an initialiser the parts before next are assigned, and no others.
Progress ==
  \A g \in Goroutines : pc[g] = "init" =>
    /\ next[g] \in 1..(Positions + 1)
    /\ built[at[g]] = {p \in Assigned(at[g], bits) : p < next[g]}

\* Only the holder of the mutex is between Lock and Unlock.
Held ==
  \A g \in Goroutines :
    pc[g] \in {"locked", "init", "unlock"} => owner[at[g]] = g

\* The flag is set exactly when the initialiser ran to its end; until one holds
\* the mutex nothing is assigned.
Flagged ==
  /\ \A o \in Onces : done[o] => built[o] = Assigned(o, bits)
  /\ \A o \in Onces :
       ~done[o] => built[o] = {} \/ \E g \in Goroutines : pc[g] = "init" /\ at[g] = o
  /\ \A g \in Goroutines : pc[g] = "init" => ~done[at[g]]
  /\ \A g \in Goroutines : pc[g] \in {"unlock", "got"} => done[at[g]]

\* Where a goroutine is determines which values it still looks at.
Where ==
  \A g \in Goroutines :
    /\ at[g] = NoOne => pc[g] = "idle" \/ (pc[g] = "use" /\ bits > 512)
    /\ pc[g] = "idle" => at[g] = NoOne
    /\ at[g] = "ctOnce8" => bits > 256
    /\ pc[g] = "use" /\ at[g] # NoOne => done[at[g]] /\ built[at[g]] # {}

LazyInv == LazyTypeOK /\ Progress /\ Held /\ Flagged /\ Where
=============================================================================
