--------------------------- MODULE LazyInit_proofs ---------------------------
(***************************************************************************)
(* Lazy initialisation is safe for any number of goroutines, table         *)
(* positions and curve widths: LazyInv is inductive, and it implies that   *)
(* readers find complete values and that nobody races with an initialiser. *)
(***************************************************************************)
EXTENDS LazyInit, TLAPS

\* An initialiser assigns parts of the value, all of them or none.
LEMMA AssignedParts ==
  ASSUME NEW o \in Onces, NEW b \in Nat
  PROVE  /\ Assigned(o, b) \in {Parts(o), {}} /\ Parts(o) \subseteq 1..Positions
         /\ 1 \in Parts(o)
         /\ Assigned(o, b) = Parts(o) <=>
              \/ o \in Tables
              \/ o = "ctOnce" /\ b <= 256
              \/ o = "ctOnce8" /\ b > 256 /\ b <= 512
  BY LazyAssumption DEF Assigned, Parts, Onces, Tables, Contexts

\* Initially nothing is built and nobody is inside a call (the zero sync.Once).
THEOREM LazyInitInv == LazyInit => LazyInv
  <1> SUFFICES ASSUME LazyInit PROVE LazyInv
    OBVIOUS
  <1> USE LazyAssumption DEF LazyInit
  <1>1. LazyTypeOK
    BY DEF LazyTypeOK, Locations
  <1>2. \A g \in Goroutines : pc[g] = "idle" /\ at[g] = NoOne
    OBVIOUS
  <1>3. Progress /\ Held
    BY <1>2 DEF Progress, Held
  <1>4. Flagged
    BY <1>2 DEF Flagged
  <1>5. Where
    BY <1>2 DEF Where, Onces, Tables, Contexts
  <1> QED BY <1>1, <1>3, <1>4, <1>5 DEF LazyInv

\* The type invariant holds in every step of a goroutine.
LEMMA TypeStep ==
  ASSUME LazyInv, LazyNext
  PROVE  LazyTypeOK'
  <1> USE LazyAssumption DEF LazyInv, LazyTypeOK, Locations, Goto
  <1>1. ASSUME NEW g \in Goroutines, NEW o \in Asked, Call(g, o) PROVE LazyTypeOK'
    BY <1>1 DEF Call, Asked, Onces, Tables, Contexts
  <1>2. ASSUME NEW g \in Goroutines, Do(g) PROVE LazyTypeOK'
    BY <1>2 DEF Do
  <1>3. ASSUME NEW g \in Goroutines, Lock(g) PROVE LazyTypeOK'
    BY <1>3 DEF Lock
  <1>4. ASSUME NEW g \in Goroutines, SecondLook(g) PROVE LazyTypeOK'
    BY <1>4 DEF SecondLook
  <1>5. ASSUME NEW g \in Goroutines, Assign(g) PROVE LazyTypeOK'
    <2>1. at[g] \in Onces
      BY <1>5 DEF Assign, Where
    <2>2. next[g] \in 1..Positions
      BY <1>5, <2>1, AssignedParts DEF Assign
    <2> QED
      BY <1>5, <2>1, <2>2 DEF Assign
  <1>6. ASSUME NEW g \in Goroutines, InitDone(g) PROVE LazyTypeOK'
    BY <1>6 DEF InitDone
  <1>7. ASSUME NEW g \in Goroutines, Unlock(g) PROVE LazyTypeOK'
    BY <1>7 DEF Unlock
  <1>8. ASSUME NEW g \in Goroutines, Got(g) PROVE LazyTypeOK'
    BY <1>8 DEF Got, Otherwise, Onces, Tables, Contexts
  <1>9. ASSUME NEW g \in Goroutines, Release(g) PROVE LazyTypeOK'
    BY <1>9 DEF Release
  <1> QED
    BY <1>1, <1>2, <1>3, <1>4, <1>5, <1>6, <1>7, <1>8, <1>9 DEF LazyNext, Step

\* Two goroutines between Lock and Unlock look at different values.
LEMMA Exclusive ==
  ASSUME LazyInv, NEW g \in Goroutines, NEW h \in Goroutines, g # h,
         pc[g] \in {"locked", "init", "unlock"}, pc[h] \in {"locked", "init", "unlock"}
  PROVE  at[g] # at[h]
  BY DEF LazyInv, Held

\* The parts of the invariant that are about values and mutexes.
LEMMA ValueStep ==
  ASSUME LazyInv, LazyNext
  PROVE  Progress' /\ Held' /\ Flagged'
  <1> USE LazyAssumption DEF LazyInv, LazyTypeOK, Progress, Held, Flagged, Goto
  <1>0. \A g \in Goroutines : pc[g] \notin {"idle", "use"} => at[g] \in Onces
    BY DEF Where
  <1>1. ASSUME NEW g \in Goroutines, NEW o \in Asked, Call(g, o)
        PROVE  Progress' /\ Held' /\ Flagged'
    BY <1>1 DEF Call
  <1>2. ASSUME NEW g \in Goroutines, Do(g) PROVE Progress' /\ Held' /\ Flagged'
    BY <1>2 DEF Do
  <1>3. ASSUME NEW g \in Goroutines, Lock(g) PROVE Progress' /\ Held' /\ Flagged'
    BY <1>0, <1>3 DEF Lock
  <1>4. ASSUME NEW g \in Goroutines, SecondLook(g) PROVE Progress' /\ Held' /\ Flagged'
    <2>1. ~done[at[g]] => built[at[g]] = {}
      BY <1>0, <1>4, Exclusive DEF SecondLook
    <2>2. \A p \in Assigned(at[g], bits) : ~(p < 1)
      BY <1>0, <1>4, AssignedParts DEF SecondLook
    <2>3. Progress'
      BY <1>4, <2>1, <2>2 DEF SecondLook
    <2>4. Held' /\ Flagged'
      BY <1>4, <2>1 DEF SecondLook
    <2> QED BY <2>3, <2>4
  <1>5. ASSUME NEW g \in Goroutines, Assign(g) PROVE Progress' /\ Held' /\ Flagged'
    <2>1. at[g] \in Onces /\ next[g] \in 1..Positions
      BY <1>0, <1>5, AssignedParts DEF Assign
    <2>2. built'[at[g]] = {p \in Assigned(at[g], bits) : p < next[g] + 1}
      <3>1. Assigned(at[g], bits) \subseteq Nat
        BY <2>1, AssignedParts
      <3>2. built[at[g]] = {p \in Assigned(at[g], bits) : p < next[g]}
        BY <1>5 DEF Assign
      <3>3. built'[at[g]] = built[at[g]] \cup {next[g]} /\ next[g] \in Assigned(at[g], bits)
        BY <1>5, <2>1 DEF Assign
      <3>4. \A p \in Nat : p < next[g] + 1 <=> p < next[g] \/ p = next[g]
        BY <2>1
      <3> HIDE DEF LazyInv, LazyTypeOK, Progress, Held, Flagged
      <3> QED BY <3>1, <3>2, <3>3, <3>4
    <2>3. \A h \in Goroutines : h # g /\ pc[h] = "init" => at[h] # at[g]
      BY <1>5, Exclusive DEF Assign
    <2>4. Progress'
      BY <1>5, <2>1, <2>2, <2>3 DEF Assign
    <2>5. Held' /\ Flagged'
      BY <1>5, <2>1 DEF Assign
    <2> QED BY <2>4, <2>5
  <1>6. ASSUME NEW g \in Goroutines, InitDone(g) PROVE Progress' /\ Held' /\ Flagged'
    <2>1. at[g] \in Onces
      BY <1>0, <1>6 DEF InitDone
    <2>2. built[at[g]] = Assigned(at[g], bits)
      <3>1. Assigned(at[g], bits) \in {Parts(at[g]), {}}
        BY <2>1, AssignedParts
      <3>2. next[g] \in 1..(Positions + 1) /\ next[g] \notin Assigned(at[g], bits)
        BY <1>6 DEF InitDone
      <3>3. built[at[g]] = {p \in Assigned(at[g], bits) : p < next[g]}
        BY <1>6 DEF InitDone
      <3>4. \A p \in Assigned(at[g], bits) : p < next[g]
        BY <3>1, <3>2 DEF Parts
      <3> HIDE DEF LazyInv, LazyTypeOK, Progress, Held, Flagged
      <3> QED BY <3>3, <3>4
    <2>3. \A h \in Goroutines : h # g /\ pc[h] = "init" => at[h] # at[g]
      BY <1>6, Exclusive DEF InitDone
    <2> QED BY <1>6, <2>1, <2>2, <2>3 DEF InitDone
  <1>7. ASSUME NEW g \in Goroutines, Unlock(g) PROVE Progress' /\ Held' /\ Flagged'
    BY <1>0, <1>7 DEF Unlock
  <1>8. ASSUME NEW g \in Goroutines, Got(g) PROVE Progress' /\ Held' /\ Flagged'
    BY <1>8 DEF Got
  <1>9. ASSUME NEW g \in Goroutines, Release(g) PROVE Progress' /\ Held' /\ Flagged'
    BY <1>9 DEF Release
  <1> QED
    BY <1>1, <1>2, <1>3, <1>4, <1>5, <1>6, <1>7, <1>8, <1>9 DEF LazyNext, Step

\* The part of the invariant that says where the goroutines are.
LEMMA WhereStep ==
  ASSUME LazyInv, LazyNext
  PROVE  Where'
  <1> USE LazyAssumption DEF LazyInv, LazyTypeOK, Where, Goto
  <1>1. ASSUME NEW g \in Goroutines, NEW o \in Asked, Call(g, o) PROVE Where'
    BY <1>1 DEF Call, Asked, Onces, Tables, Contexts
  <1>2. ASSUME NEW g \in Goroutines, Do(g) PROVE Where'
    BY <1>2 DEF Do
  <1>3. ASSUME NEW g \in Goroutines, Lock(g) PROVE Where'
    BY <1>3 DEF Lock
  <1>4. ASSUME NEW g \in Goroutines, SecondLook(g) PROVE Where'
    BY <1>4 DEF SecondLook
  <1>5. ASSUME NEW g \in Goroutines, Assign(g) PROVE Where'
    <2>1. \A o \in Onces : built[o] # {} => built'[o] # {}
      BY <1>5 DEF Assign
    <2> QED BY <1>5, <2>1 DEF Assign
  <1>6. ASSUME NEW g \in Goroutines, InitDone(g) PROVE Where'
    BY <1>6 DEF InitDone
  <1>7. ASSUME NEW g \in Goroutines, Unlock(g) PROVE Where'
    BY <1>7 DEF Unlock
  <1>8. ASSUME NEW g \in Goroutines, Got(g) PROVE Where'
    <2>1. at[g] \in Onces /\ done[at[g]] /\ built[at[g]] = Assigned(at[g], bits) /\ bits \in Nat
      BY <1>8 DEF Got, Flagged
    <2>2. CASE built[at[g]] # {}
      BY <1>8, <2>1, <2>2 DEF Got
    <2>3. CASE built[at[g]] = {}
      <3>1. \/ at[g] = "ctOnce" /\ bits > 256
            \/ at[g] = "ctOnce8" /\ bits > 512
        <4>1. Assigned(at[g], bits) # Parts(at[g])
          BY <2>1, <2>3, AssignedParts
        <4>2. /\ at[g] \notin Tables
              /\ at[g] = "ctOnce" => ~(bits <= 256)
              /\ at[g] = "ctOnce8" => ~(bits > 256 /\ bits <= 512)
          BY <2>1, <4>1, AssignedParts
        <4>3. at[g] \in {"ctOnce", "ctOnce8"}
          BY <2>1, <4>2 DEF Onces, Contexts
        <4> QED BY <2>1, <4>2, <4>3
      <3>2. CASE at[g] = "ctOnce"
        <4>1. at'[g] = "ctOnce8" /\ pc'[g] = "do" /\ bits > 256
          BY <1>8, <2>3, <3>1, <3>2 DEF Got, Otherwise, Onces, Contexts
        <4> QED BY <1>8, <2>3, <4>1 DEF Got, Onces, Contexts
      <3>3. CASE at[g] = "ctOnce8"
        <4>1. at'[g] = NoOne /\ pc'[g] = "use" /\ bits > 512
          BY <1>8, <2>3, <3>1, <3>3 DEF Got, Otherwise
        <4> QED BY <1>8, <2>3, <4>1 DEF Got, Onces, Contexts
      <3> QED BY <3>1, <3>2, <3>3
    <2> QED BY <2>2, <2>3
  <1>9. ASSUME NEW g \in Goroutines, Release(g) PROVE Where'
    <2>1. at'[g] = NoOne /\ pc'[g] = "idle"
      BY <1>9 DEF Release
    <2>2. UNCHANGED <<bits, done, built>>
      BY <1>9 DEF Release
    <2>3. \A h \in Goroutines : h # g => at'[h] = at[h] /\ pc'[h] = pc[h]
      BY <1>9 DEF Release
    <2>4. NoOne # "ctOnce8"
      BY DEF Onces, Contexts
    <2> QED BY <2>1, <2>2, <2>3, <2>4
  <1> QED
    BY <1>1, <1>2, <1>3, <1>4, <1>5, <1>6, <1>7, <1>8, <1>9 DEF LazyNext, Step

\* LazyInv is inductive: it is kept by every step of every goroutine through
\* Once.Do, the initialisers and the readers.
THEOREM LazyInvariant == LazySpec => []LazyInv
  <1>1. LazyInv /\ [LazyNext]_lazyVars => LazyInv'
    <2> SUFFICES ASSUME LazyInv, [LazyNext]_lazyVars PROVE LazyInv'
      OBVIOUS
    <2>1. CASE LazyNext
      BY <2>1, TypeStep, ValueStep, WhereStep DEF LazyInv
    <2>2. CASE UNCHANGED lazyVars
      BY <2>2 DEF lazyVars, LazyInv, LazyTypeOK, Progress, Held, Flagged, Where
    <2> QED BY <2>1, <2>2
  <1> QED
    BY LazyInitInv, <1>1, PTL DEF LazySpec

\* A reader finds the whole value, and the context of its curve's width
\* (kuznyechik.go:285-297, ctkuznyechik.go:39-50, ctscalar.go:149-200).
THEOREM ReadersComplete == LazySpec => []ReadsComplete
  <1>1. LazyInv => ReadsComplete
    <2> SUFFICES ASSUME LazyInv, NEW g \in Goroutines, pc[g] = "use"
                 PROVE  /\ at[g] # NoOne => built[at[g]] = Parts(at[g])
                        /\ at[g] \in Tables \cup {ContextFor(bits)}
      BY DEF ReadsComplete
    <2> USE LazyAssumption DEF LazyInv, LazyTypeOK
    <2>1. bits \in Nat
      OBVIOUS
    <2>2. CASE at[g] = NoOne
      BY <2>1, <2>2 DEF Where, ContextFor
    <2>3. CASE at[g] # NoOne
      <3>1. at[g] \in Onces /\ built[at[g]] = Assigned(at[g], bits) /\ built[at[g]] # {}
        BY <2>3 DEF Where, Flagged
      <3>2. built[at[g]] = Parts(at[g])
        BY <2>1, <3>1, AssignedParts
      <3>3. \/ at[g] \in Tables
            \/ at[g] = "ctOnce" /\ bits <= 256
            \/ at[g] = "ctOnce8" /\ bits > 256 /\ bits <= 512
        <4>1. Assigned(at[g], bits) = Parts(at[g])
          BY <3>1, <3>2
        <4> HIDE DEF LazyInv, LazyTypeOK
        <4> QED BY <2>1, <3>1, <4>1, AssignedParts
      <3>4. at[g] \in Tables \/ at[g] = ContextFor(bits)
        BY <2>1, <3>3 DEF ContextFor
      <3> QED BY <3>2, <3>4
    <2> QED BY <2>2, <2>3
  <1> QED BY LazyInvariant, <1>1, PTL

\* While a goroutine assigns the parts of a value, no other one assigns or reads
\* it (kuznyechik.go:219-256, ctkuznyechik.go:61-79).
THEOREM RaceFree == LazySpec => []NoRace
  <1>1. LazyInv => NoRace
    <2> SUFFICES ASSUME LazyInv, NEW g \in Goroutines, NEW h \in Goroutines, g # h,
                        pc[g] = "init", pc[h] \in {"init", "got", "use"}
                 PROVE  at[g] # at[h]
      BY DEF NoRace
    <2>1. CASE pc[h] = "init"
      BY <2>1, Exclusive
    <2>2. CASE pc[h] # "init"
      BY <2>2, LazyAssumption DEF LazyInv, LazyTypeOK, Flagged, Where
    <2> QED BY <2>1, <2>2
  <1> QED BY LazyInvariant, <1>1, PTL
=============================================================================
