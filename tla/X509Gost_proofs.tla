-------------------------- MODULE X509Gost_proofs ---------------------------
(***************************************************************************)
(* Proofs about x509gost: the search for a chain and its verdict           *)
(* (GostChain), for every set of certificates, every request and every     *)
(* depth bound, and what ParseCertificate takes for the public key         *)
(* (CertParse), for all curves, OIDs and certificates.                     *)
(***************************************************************************)
EXTENDS GostChain, CertParse, NaturalLemmas, SequenceTheorems, TLAPS

\* The loop of validateGOSTChainConstraints (verify.go:330-369) reports the first
\* offending certificate, so it says ok only when no certificate offends.
LEMMA ValidationOK ==
  ASSUME NEW ch \in Seq(Ids), validateGOSTChainConstraints(ch) = "ok"
  PROVE  \A i \in DOMAIN ch : CertError(ch, i) = "ok"
<1> DEFINE bad == {i \in DOMAIN ch : CertError(ch, i) # "ok"}
<1> SUFFICES ASSUME bad # {} PROVE FALSE
  OBVIOUS
<1>1. bad \subseteq Nat
  BY LenProperties
<1>2. \E i \in bad : \A j \in bad : i <= j
  <2> HIDE DEF bad
  <2> QED BY <1>1, LeastNatural
<1> DEFINE least == CHOOSE i \in bad : \A j \in bad : i <= j
<1>3. least \in bad
  <2> HIDE DEF bad
  <2> QED BY <1>2
<1>4. CertError(ch, least) # "ok"
  BY <1>3
<1>5. validateGOSTChainConstraints(ch) = CertError(ch, least)
  BY ZenonT(30) DEF validateGOSTChainConstraints
<1> QED
  BY <1>4, <1>5

\* Every error is one of the errors of verify.go.
LEMMA ResultTypes ==
  /\ EntryResult \in Results
  /\ \A ch, i : CertError(ch, i) \in Results \ {"pending"}
  /\ \A ch : validateGOSTChainConstraints(ch) \in Results \ {"pending"}
<1>1. EntryResult \in Results
  BY DEF EntryResult, Results
<1>2. \A ch, i : CertError(ch, i) \in Results \ {"pending"}
  BY DEF CertError, Results
<1>3. "ok" \in Results \ {"pending"}
  BY DEF Results
<1> QED
  BY <1>1, <1>2, <1>3 DEF validateGOSTChainConstraints

\* One more signed link on top of a path (chainSoFar in verify.go:376-426).
LEMMA LinksAppend ==
  ASSUME NEW s \in Seq(Ids), Len(s) > 0, Links(s), NEW c \in Ids, signerOf(c, s[Len(s)])
  PROVE  Links(Append(s, c))
<1> DEFINE t == Append(s, c)
<1>1. Len(t) = Len(s) + 1 /\ (\A i \in 1..Len(s) : t[i] = s[i]) /\ t[Len(s) + 1] = c
  BY AppendProperties
<1>2. Len(s) \in Nat
  BY LenProperties
<1> SUFFICES ASSUME NEW i \in 1..(Len(t) - 1) PROVE signerOf(t[i + 1], t[i])
  BY DEF Links
<1> HIDE DEF t
<1>3. CASE i = Len(s)
  BY <1>1, <1>2, <1>3
<1>4. CASE i # Len(s)
  <2>1. i \in 1..(Len(s) - 1) /\ i + 1 \in 1..Len(s) /\ i \in 1..Len(s)
    BY <1>1, <1>2, <1>4
  <2> QED
    BY <1>1, <2>1 DEF Links
<1> QED
  BY <1>3, <1>4

\* How many candidates a call tries.
LEMMA CandidatesLen ==
  ASSUME TypeOK
  PROVE  Roots \in Nat /\ Len(Candidates) \in Nat /\ Len(Candidates) >= Roots
<1> DEFINE rs == req.roots
           is == req.inters
<1>1. rs \in Seq(Ids) /\ is \in Seq(Ids)
  BY DEF TypeOK
<1>2. Candidates = rs \o is /\ Roots = Len(rs)
  BY DEF Candidates, Pool, Roots
<1> HIDE DEF rs, is
<1>3. Len(rs \o is) = Len(rs) + Len(is) /\ Len(rs) \in Nat /\ Len(is) \in Nat
  BY <1>1, ConcatProperties, LenProperties
<1> QED
  BY <1>2, <1>3

\* The candidates of a call: the roots first, the intermediates after them.
LEMMA CandidateFacts ==
  ASSUME TypeOK, NEW j \in 1..Len(Candidates)
  PROVE  /\ Candidates \in Seq(Ids) /\ Candidates[j] \in Ids
         /\ Roots \in Nat /\ Len(Candidates) = Roots + Len(req.inters)
         /\ j <= Roots => Candidates[j] = req.roots[j] /\ Candidates[j] \in Range(req.roots)
         /\ j > Roots => /\ Candidates[j] = req.inters[j - Roots]
                         /\ Candidates[j] \in Range(req.inters)
<1> DEFINE rs == req.roots
           is == req.inters
<1>1. rs \in Seq(Ids) /\ is \in Seq(Ids)
  BY DEF TypeOK
<1> HIDE DEF rs, is
<1>2. /\ rs \o is \in Seq(Ids) /\ Len(rs \o is) = Len(rs) + Len(is)
      /\ \A i \in 1..(Len(rs) + Len(is)) :
           (rs \o is)[i] = IF i <= Len(rs) THEN rs[i] ELSE is[i - Len(rs)]
  BY <1>1, ConcatProperties
<1>3. /\ Len(rs) \in Nat /\ DOMAIN rs = 1..Len(rs)
      /\ Len(is) \in Nat /\ DOMAIN is = 1..Len(is)
  BY <1>1, LenProperties
<1>4. Candidates = rs \o is /\ Roots = Len(rs)
  BY DEF Candidates, Pool, Roots, rs, is
<1>5. j \in 1..(Len(rs) + Len(is)) /\ (rs \o is)[j] \in Ids
  BY <1>2, <1>4, ElementOfSeq
<1>6. j <= Roots => Candidates[j] = rs[j] /\ rs[j] \in Range(rs)
  BY <1>2, <1>3, <1>4, <1>5 DEF Range
<1>7. j > Roots => Candidates[j] = is[j - Roots] /\ is[j - Roots] \in Range(is)
  <2> SUFFICES ASSUME j > Roots PROVE Candidates[j] = is[j - Roots] /\ is[j - Roots] \in Range(is)
    OBVIOUS
  <2>1. j - Roots \in DOMAIN is /\ ~(j <= Len(rs))
    BY <1>3, <1>4, <1>5
  <2> QED
    BY <1>2, <1>4, <1>5, <2>1 DEF Range
<1> QED
  BY <1>2, <1>3, <1>4, <1>5, <1>6, <1>7 DEF rs, is

\* What a pending call knows of itself.
LEMMA FrameFacts ==
  ASSUME TypeOK, Searching
  PROVE  /\ Len(path) \in Nat \ {0} /\ Len(at) = Len(path)
         /\ Child \in Ids /\ Pos \in Nat \ {0}
         /\ Advanced \in Seq(Nat \ {0}) /\ Len(Advanced) = Len(at)
         /\ \A i \in 1..Len(at) : Advanced[i] = IF i = Len(at) THEN at[i] + 1 ELSE at[i]
<1>1. /\ path \in Seq(Ids) /\ at \in Seq(Nat \ {0}) /\ Len(at) = Len(path) /\ Len(path) > 0
      /\ Len(path) \in Nat
  BY LenProperties DEF TypeOK, Searching
<1>2. Len(at) \in 1..Len(at) /\ Len(path) \in 1..Len(path)
  BY <1>1
<1>3. path[Len(path)] \in Ids /\ at[Len(at)] \in Nat \ {0}
  BY <1>1, <1>2, ElementOfSeq
<1>4. at[Len(at)] + 1 \in Nat \ {0}
  BY <1>3
<1>5. Advanced = [at EXCEPT ![Len(at)] = at[Len(at)] + 1]
  BY DEF Advanced
<1>6. /\ Advanced \in Seq(Nat \ {0}) /\ Len(Advanced) = Len(at)
      /\ \A i \in 1..Len(at) : Advanced[i] = IF i = Len(at) THEN at[Len(at)] + 1 ELSE at[i]
  BY <1>1, <1>2, <1>4, <1>5, ExceptSeq
<1> QED
  BY <1>1, <1>3, <1>6 DEF Child, Pos

\* Dropping the last element keeps the others.
LEMMA FrontFacts ==
  ASSUME NEW S, NEW s \in Seq(S), Len(s) > 0
  PROVE  /\ Front(s) \in Seq(S) /\ Len(Front(s)) = Len(s) - 1
         /\ \A i \in 1..(Len(s) - 1) : Front(s)[i] = s[i]
<1>1. Len(s) \in Nat /\ \A i \in 1..Len(s) : s[i] \in S
  BY LenProperties, ElementOfSeq
<1>2. \A i \in 1..(Len(s) - 1) : s[i] \in S
  BY <1>1
<1> DEFINE k == Len(s) - 1
           f == SubSeq(s, 1, k)
<1>3. k \in Nat /\ (\A i \in 1..k : s[i] \in S)
  BY <1>1, <1>2
<1>4. /\ f \in Seq(S) /\ Len(f) = IF 1 <= k THEN k - 1 + 1 ELSE 0
      /\ \A i \in 1..(k - 1 + 1) : f[i] = s[1 + i - 1]
  <2> HIDE DEF k
  <2> QED BY <1>3, SubSeqProperties
<1>5. f \in Seq(S) /\ Len(f) = k /\ \A i \in 1..k : f[i] = s[i]
  <2> HIDE DEF k, f
  <2>1. k - 1 + 1 = k /\ Len(f) = k
    BY <1>3, <1>4
  <2>2. ASSUME NEW i \in 1..k PROVE f[i] = s[i]
    <3>1. 1 + i - 1 = i
      BY <1>3
    <3> QED
      BY <1>4, <2>1, <3>1
  <2> QED
    BY <1>4, <2>1, <2>2
<1> QED
  BY <1>5 DEF Front

-----------------------------------------------------------------------------
(* The inductive invariant *)

\* Verify starts with an empty stack and nothing found.
LEMMA InitIInv == Init => IInv
<1> SUFFICES ASSUME Init PROVE IInv
  OBVIOUS
<1>1. req \in Requests /\ phase = "entry" /\ path = <<>> /\ at = <<>>
      /\ sawNonGOST = FALSE /\ chain = <<>> /\ verdict = "pending"
  BY DEF Init
<1>2. req.leaf \in Ids /\ req.roots \in Seq(Ids) /\ req.inters \in Seq(Ids)
  BY <1>1, RequestAssumption
<1>3. TypeOK
  <2>1. <<>> \in Seq(Ids) /\ <<>> \in Seq(Nat \ {0})
    BY EmptySeq
  <2>2. "pending" \in Results
    BY DEF Results
  <2> QED
    BY <1>1, <1>2, <2>1, <2>2 DEF TypeOK
<1>4. SearchInv
  BY <1>1 DEF SearchInv
<1>5. ChainSound
  BY <1>1 DEF ChainSound
<1>6. ChainBounded
  BY <1>1, DepthAssumption DEF ChainBounded
<1> QED
  BY <1>3, <1>4, <1>5, <1>6 DEF IInv

\* A step that moves a candidate index and nothing else.
LEMMA AdvanceIInv ==
  ASSUME IInv, Searching, at' = Advanced, sawNonGOST' \in BOOLEAN,
         UNCHANGED <<req, phase, path, chain, verdict>>
  PROVE  IInv'
<1>1. Advanced \in Seq(Nat \ {0}) /\ Len(Advanced) = Len(at)
  BY FrameFacts DEF IInv
<1>2. TypeOK'
  BY <1>1 DEF IInv, TypeOK
<1>3. SearchInv'
  BY DEF IInv, SearchInv, PathTo, Links
<1>4. ChainSound'
  BY DEF IInv, ChainSound, PathTo, Links, PathLenOK
<1>5. ChainBounded'
  BY DEF IInv, ChainBounded
<1> QED
  BY <1>2, <1>3, <1>4, <1>5 DEF IInv

\* Every step of Verify preserves the invariant.
LEMMA NextIInv == IInv /\ [Next]_vars => IInv'
<1> SUFFICES ASSUME IInv, [Next]_vars PROVE IInv'
  OBVIOUS
<1> USE DEF Finish
<1>t. /\ TypeOK /\ path \in Seq(Ids) /\ at \in Seq(Nat \ {0}) /\ chain \in Seq(Ids)
      /\ Len(path) \in Nat /\ Len(at) = Len(path) /\ MaxDepth \in Nat \ {0}
  BY LenProperties, DepthAssumption DEF IInv, TypeOK
<1>1. CASE VerifyRejects
  <2>1. /\ phase = "entry" /\ phase' = "done" /\ verdict' = EntryResult /\ verdict' # "pending"
        /\ UNCHANGED <<req, path, at, sawNonGOST, chain>>
    BY <1>1 DEF VerifyRejects
  <2>2. EntryResult # "ok"
    BY DEF EntryResult
  <2>3. TypeOK'
    BY <1>t, <2>1, ResultTypes DEF TypeOK
  <2>4. SearchInv'
    BY <2>1 DEF IInv, SearchInv, Links
  <2>5. ChainSound' /\ ChainBounded'
    BY <2>1, <2>2 DEF IInv, ChainSound, ChainBounded
  <2> QED
    BY <2>3, <2>4, <2>5 DEF IInv
<1>2. CASE buildGOSTChain
  <2>1. /\ phase = "entry" /\ phase' = "search" /\ path' = <<req.leaf>> /\ at' = <<1>>
        /\ UNCHANGED <<req, sawNonGOST, chain, verdict>>
    BY <1>2 DEF buildGOSTChain
  <2>2. /\ req.leaf \in Ids /\ <<req.leaf>> \in Seq(Ids) /\ Len(<<req.leaf>>) = 1
        /\ <<1>> \in Seq(Nat \ {0}) /\ Len(<<1>>) = 1
    BY DEF IInv, TypeOK
  <2>3. TypeOK'
    BY <1>t, <2>1, <2>2 DEF TypeOK
  <2>4. SearchInv'
    BY <1>t, <2>1, <2>2 DEF IInv, SearchInv, Links
  <2>5. ChainSound' /\ ChainBounded'
    BY <2>1 DEF IInv, SearchInv, ChainSound, ChainBounded
  <2> QED
    BY <2>3, <2>4, <2>5 DEF IInv
<1>3. CASE SkipNonGOST
  BY <1>3, AdvanceIInv DEF SkipNonGOST
<1>4. CASE SkipNotSigner
  BY <1>4, <1>t, AdvanceIInv DEF SkipNotSigner, TypeOK
<1>5. CASE TooDeep
  BY <1>5, <1>t, AdvanceIInv DEF TooDeep, Bridge, TypeOK
<1>6. CASE RootFound
  <2>1. /\ Searching /\ Pos <= Roots /\ signerOf(Candidate, Child)
        /\ chain' = Append(path, Candidate) /\ phase' = "validate"
        /\ UNCHANGED <<req, path, at, sawNonGOST, verdict>>
    BY <1>6 DEF RootFound, Accepts
  <2>2. Pos \in Nat \ {0} /\ Len(path) \in Nat \ {0} /\ Child \in Ids
    BY <1>t, <2>1, FrameFacts
  <2>3. Pos \in 1..Len(Candidates)
    <3>1. Len(Candidates) >= Roots /\ Roots \in Nat /\ Len(Candidates) \in Nat
      BY <1>t, CandidatesLen
    <3> QED
      BY <2>1, <2>2, <3>1
  <2>4. Candidate \in Ids /\ Candidate \in Range(req.roots)
    BY <1>t, <2>1, <2>3, CandidateFacts DEF Candidate
  <2>5. /\ chain' \in Seq(Ids) /\ Len(chain') = Len(path) + 1
        /\ \A i \in 1..Len(path) : chain'[i] = path[i]
        /\ chain'[Len(path) + 1] = Candidate
    BY <1>t, <2>1, <2>4, AppendProperties
  <2>6. phase = "search" /\ verdict = "pending"
    BY <2>1 DEF IInv, SearchInv, Searching
  <2>7. /\ path[1] = req.leaf /\ Len(path) <= MaxDepth /\ Links(path)
        /\ \A i \in 2..Len(path) : path[i] \in Range(req.inters)
    BY <2>2 DEF IInv, SearchInv
  <2>8. Links(chain')
    <3>1. signerOf(Candidate, path[Len(path)]) /\ Len(path) > 0
      BY <2>1, <2>2 DEF Child
    <3>2. Links(Append(path, Candidate))
      BY <1>t, <2>4, <2>7, <3>1, LinksAppend
    <3> QED
      BY <2>1, <3>2, Zenon
  <2>9. PathTo(req, chain)'
    <3>1. chain'[1] = req.leaf /\ Len(chain') >= 2
      BY <2>2, <2>5, <2>7
    <3>2. \A i \in 2..(Len(chain') - 1) : chain'[i] \in Range(req.inters)
      BY <2>2, <2>5, <2>7
    <3> QED
      BY <2>1, <2>4, <2>5, <2>8, <3>1, <3>2 DEF PathTo, Links
  <2>10. TypeOK'
    BY <1>t, <2>1, <2>5 DEF TypeOK
  <2>11. SearchInv'
    BY <2>1, <2>6, <2>7, <2>9 DEF SearchInv, Links
  <2>12. ChainSound'
    BY <2>1, <2>6 DEF ChainSound
  <2>13. ChainBounded'
    BY <1>t, <2>5, <2>7 DEF ChainBounded
  <2> QED
    BY <2>10, <2>11, <2>12, <2>13 DEF IInv
<1>7. CASE Descend
  <2>1. /\ Searching /\ Pos > Roots /\ Pos <= Len(Candidates) /\ signerOf(Candidate, Child)
        /\ DepthLeft - 1 > 0
        /\ path' = Append(path, Candidate) /\ at' = Append(Advanced, 1)
        /\ UNCHANGED <<req, phase, sawNonGOST, chain, verdict>>
    BY <1>7 DEF Descend, Bridge, Accepts
  <2>2. /\ Pos \in Nat \ {0} /\ Len(path) \in Nat \ {0} /\ Child \in Ids
        /\ Advanced \in Seq(Nat \ {0}) /\ Len(Advanced) = Len(at)
    BY <1>t, <2>1, FrameFacts
  <2>3. Pos \in 1..Len(Candidates)
    <3>1. Len(Candidates) \in Nat
      BY <1>t, CandidatesLen
    <3> QED
      BY <2>1, <2>2, <3>1
  <2>4. Candidate \in Ids /\ Candidate \in Range(req.inters)
    BY <1>t, <2>1, <2>3, CandidateFacts DEF Candidate
  <2>5. /\ path' \in Seq(Ids) /\ Len(path') = Len(path) + 1
        /\ \A i \in 1..Len(path) : path'[i] = path[i]
        /\ path'[Len(path) + 1] = Candidate
    BY <1>t, <2>1, <2>4, AppendProperties
  <2>6. at' \in Seq(Nat \ {0}) /\ Len(at') = Len(at) + 1
    BY <2>1, <2>2, AppendProperties
  <2>7. /\ path[1] = req.leaf /\ Links(path)
        /\ \A i \in 2..Len(path) : path[i] \in Range(req.inters)
    BY <2>2 DEF IInv, SearchInv
  <2>8. Links(path')
    <3>1. signerOf(Candidate, path[Len(path)]) /\ Len(path) > 0
      BY <2>1, <2>2 DEF Child
    <3>2. Links(Append(path, Candidate))
      BY <1>t, <2>4, <2>7, <3>1, LinksAppend
    <3> QED
      BY <2>1, <3>2, Zenon
  <2>9. Len(path') <= MaxDepth
    BY <1>t, <2>1, <2>5 DEF DepthLeft
  <2>10. path'[1] = req.leaf /\ Len(path') > 0
    BY <2>2, <2>5, <2>7
  <2>11. \A i \in 2..Len(path') : path'[i] \in Range(req.inters)
    BY <2>2, <2>4, <2>5, <2>7
  <2>12. TypeOK'
    BY <1>t, <2>1, <2>5, <2>6 DEF TypeOK
  <2>13. SearchInv'
    BY <2>1, <2>8, <2>9, <2>10, <2>11 DEF IInv, SearchInv, Searching, Links
  <2>14. ChainSound' /\ ChainBounded'
    BY <2>1 DEF IInv, SearchInv, Searching, ChainSound, ChainBounded
  <2> QED
    BY <2>12, <2>13, <2>14 DEF IInv
<1>8. CASE Backtrack
  <2>1. /\ Searching
        /\ path' = Front(path) /\ at' = Front(at)
        /\ UNCHANGED <<req, sawNonGOST, chain>>
        /\ \/ Len(path) = 1 /\ phase' = "done" /\ verdict' \in {"mixedChain", "noChain"}
           \/ Len(path) # 1 /\ UNCHANGED <<phase, verdict>>
    BY <1>8 DEF Backtrack
  <2>2. Len(path) \in Nat \ {0} /\ phase = "search"
    BY <1>t, <2>1, FrameFacts DEF Searching
  <2>3. /\ path' \in Seq(Ids) /\ Len(path') = Len(path) - 1
        /\ \A i \in 1..(Len(path) - 1) : path'[i] = path[i]
    <3>1. PICK f : f = Front(path)
      OBVIOUS
    <3>2. path \in Seq(Ids) /\ Len(path) > 0
      BY <1>t, <2>2
    <3>3. /\ f \in Seq(Ids) /\ Len(f) = Len(path) - 1
          /\ \A i \in 1..(Len(path) - 1) : f[i] = path[i]
      BY <3>1, <3>2, FrontFacts
    <3>4. path' = f
      BY <2>1, <3>1
    <3> QED
      BY <3>3, <3>4
  <2>4. at' \in Seq(Nat \ {0}) /\ Len(at') = Len(at) - 1
    BY <1>t, <2>1, <2>2, FrontFacts
  <2>5. /\ path[1] = req.leaf /\ Links(path) /\ Len(path) <= MaxDepth
        /\ \A i \in 2..Len(path) : path[i] \in Range(req.inters)
        /\ verdict = "pending" /\ chain = <<>>
    BY <2>2 DEF IInv, SearchInv
  <2>6. TypeOK'
    BY <1>t, <2>1, <2>3, <2>4 DEF TypeOK, Results
  <2>7. Links(path')
    <3> SUFFICES ASSUME NEW i \in 1..(Len(path') - 1) PROVE signerOf(path'[i + 1], path'[i])
      BY DEF Links
    <3>1. i \in 1..(Len(path) - 1) /\ i + 1 \in 1..(Len(path) - 1)
      BY <2>2, <2>3
    <3> QED
      BY <2>3, <2>5, <3>1 DEF Links
  <2>8. Len(path') > 0 => /\ path'[1] = req.leaf /\ Len(path') <= MaxDepth
                          /\ \A i \in 2..Len(path') : path'[i] \in Range(req.inters)
    BY <1>t, <2>2, <2>3, <2>5
  <2>9. phase' = "search" => verdict' = "pending" /\ Len(path') > 0
    BY <2>1, <2>2, <2>3, <2>5
  <2>10. SearchInv'
    BY <2>1, <2>2, <2>5, <2>7, <2>8, <2>9 DEF SearchInv, Links
  <2>11. ChainSound' /\ ChainBounded'
    BY <2>1, <2>5 DEF IInv, ChainSound, ChainBounded
  <2> QED
    BY <2>6, <2>10, <2>11 DEF IInv
<1>9. CASE Validate
  <2>1. /\ phase = "validate" /\ phase' = "done"
        /\ verdict' = validateGOSTChainConstraints(chain)
        /\ UNCHANGED <<req, path, at, sawNonGOST, chain>>
    BY <1>9 DEF Validate
  <2>2. TypeOK'
    BY <1>t, <2>1, ResultTypes DEF TypeOK
  <2>3. SearchInv'
    BY <2>1 DEF IInv, SearchInv, Links
  <2>4. PathTo(req, chain)
    BY <2>1 DEF IInv, SearchInv
  <2>5. ChainSound'
    <3> SUFFICES ASSUME verdict' = "ok" PROVE ChainSound'
      BY DEF ChainSound
    <3>1. \A i \in DOMAIN chain : CertError(chain, i) = "ok"
      BY <1>t, <2>1, ValidationOK
    <3>2. \A i \in DOMAIN chain :
            /\ ~Cert[chain[i]].crit /\ PathLenOK(chain, i)
            /\ \A j \in 1..(i - 1) : applyNameConstraints(chain[i], chain[j])
      BY <3>1 DEF CertError
    <3> QED
      BY <2>1, <2>4, <3>2 DEF ChainSound, PathTo, Links, PathLenOK
  <2>6. ChainBounded'
    BY <2>1 DEF IInv, ChainBounded
  <2> QED
    BY <2>2, <2>3, <2>5, <2>6 DEF IInv
<1>10. CASE UNCHANGED vars
  <2>1. UNCHANGED <<req, phase, path, at, sawNonGOST, chain, verdict>>
    BY <1>10 DEF vars
  <2> QED
    BY <2>1 DEF IInv, TypeOK, SearchInv, ChainSound, ChainBounded, PathTo, Links, PathLenOK
<1> QED
  BY <1>1, <1>2, <1>3, <1>4, <1>5, <1>6, <1>7, <1>8, <1>9, <1>10 DEF Next, Step, Returned

\* The pending calls of buildGOSTChainRec always spell a signed path.
THEOREM InductiveInvariant == Spec => []IInv
  BY InitIInv, NextIInv, PTL DEF Spec

\* The state of the search is well typed.
THEOREM TypeCorrectness == Spec => []TypeOK
<1>1. IInv => TypeOK
  BY DEF IInv
<1> QED
  BY <1>1, InductiveInvariant, PTL

\* A chain that Verify returns is anchored, signed link by link by live CAs, and
\* respects every constraint of verify.go:330-369, for every PKI and request.
THEOREM Soundness == Spec => []ChainSound
<1>1. IInv => ChainSound
  BY DEF IInv
<1> QED
  BY <1>1, InductiveInvariant, PTL

\* No more than maxGOSTChainDepth calls are ever pending, and no chain has more links
\* (verify.go:372-374).
THEOREM Depth == Spec => []DepthBounded
<1>1. IInv => DepthBounded
  <2> SUFFICES ASSUME IInv PROVE Len(path) <= MaxDepth /\ ChainBounded
    BY DEF DepthBounded
  <2>1. Len(path) \in Nat
    BY DEF IInv, TypeOK
  <2>2. Len(path) > 0 => Len(path) <= MaxDepth
    BY DEF IInv, SearchInv
  <2> QED
    BY <2>1, <2>2, DepthAssumption DEF IInv
<1> QED
  BY <1>1, InductiveInvariant, PTL

-----------------------------------------------------------------------------
(* Completeness of the search *)

\* The elements of a path from c over mid to a.
LEMMA Spelled ==
  ASSUME NEW c \in Ids, NEW n \in Nat, NEW mid \in [1..n -> Ids], NEW a \in Ids,
         NEW s, s = <<c>> \o mid \o <<a>>
  PROVE  /\ Len(s) = n + 2 /\ s[1] = c /\ s[n + 2] = a
         /\ \A i \in 1..n : s[i + 1] = mid[i]
<1> DEFINE h == <<c>> \o mid
<1>1. mid \in Seq(Ids) /\ Len(mid) = n
  <2>1. mid \in Seq(Ids)
    BY SeqDef
  <2>2. Len(mid) \in Nat /\ DOMAIN mid = 1..Len(mid)
    BY <2>1, LenProperties
  <2>3. 1..n = 1..Len(mid)
    BY <2>2
  <2> QED
    BY <2>1, <2>2, <2>3
<1>2. /\ <<c>> \in Seq(Ids) /\ Len(<<c>>) = 1 /\ <<c>>[1] = c
      /\ <<a>> \in Seq(Ids) /\ Len(<<a>>) = 1 /\ <<a>>[1] = a
  OBVIOUS
<1>3. /\ h \in Seq(Ids) /\ Len(h) = 1 + n
      /\ \A i \in 1..(1 + n) : h[i] = IF i <= 1 THEN <<c>>[i] ELSE mid[i - 1]
  BY <1>1, <1>2, ConcatProperties
<1>h. s = h \o <<a>>
  OBVIOUS
<1> HIDE DEF h
<1>4. /\ Len(s) = (1 + n) + 1
      /\ \A i \in 1..((1 + n) + 1) : s[i] = IF i <= 1 + n THEN h[i] ELSE <<a>>[i - (1 + n)]
  BY <1>2, <1>3, <1>h, ConcatProperties
<1>5. Len(s) = n + 2 /\ s[1] = c /\ s[n + 2] = a
  <2>1. 1 \in 1..((1 + n) + 1) /\ 1 <= 1 + n /\ 1 \in 1..(1 + n)
    OBVIOUS
  <2>2. s[1] = c
    BY <1>2, <1>3, <1>4, <2>1
  <2>3. n + 2 \in 1..((1 + n) + 1) /\ ~(n + 2 <= 1 + n) /\ n + 2 - (1 + n) = 1
    OBVIOUS
  <2>4. s[n + 2] = a
    BY <1>2, <1>4, <2>3
  <2> QED
    BY <1>4, <2>2, <2>4
<1>6. ASSUME NEW i \in 1..n PROVE s[i + 1] = mid[i]
  <2>1. /\ i + 1 \in 1..((1 + n) + 1) /\ i + 1 <= 1 + n /\ i + 1 \in 1..(1 + n)
        /\ ~(i + 1 <= 1) /\ (i + 1) - 1 = i
    OBVIOUS
  <2> QED
    BY <1>3, <1>4, <2>1
<1> QED
  BY <1>5, <1>6

\* What a signed path from c over mid to a says link by link.
LEMMA PathLinks ==
  ASSUME NEW c \in Ids, NEW n \in Nat, NEW mid \in [1..n -> Ids], NEW a \in Ids
  PROVE  Links(<<c>> \o mid \o <<a>>) <=>
           /\ n = 0 => signerOf(a, c)
           /\ n > 0 => signerOf(mid[1], c) /\ signerOf(a, mid[n])
           /\ \A i \in 1..(n - 1) : signerOf(mid[i + 1], mid[i])
<1>0. PICK s : s = <<c>> \o mid \o <<a>>
  OBVIOUS
<1>1. /\ Len(s) = n + 2 /\ s[1] = c /\ s[n + 2] = a
      /\ \A i \in 1..n : s[i + 1] = mid[i]
  BY <1>0, Spelled
<1>2. Links(s) <=> \A i \in 1..(n + 1) : signerOf(s[i + 1], s[i])
  BY <1>1 DEF Links
<1>3. ASSUME Links(s)
      PROVE  /\ n = 0 => signerOf(a, c)
             /\ n > 0 => signerOf(mid[1], c) /\ signerOf(a, mid[n])
             /\ \A i \in 1..(n - 1) : signerOf(mid[i + 1], mid[i])
  <2>1. n = 0 => signerOf(a, c)
    BY <1>1, <1>2, <1>3
  <2>2. ASSUME n > 0 PROVE signerOf(mid[1], c) /\ signerOf(a, mid[n])
    <3>1. 1 \in 1..n /\ n \in 1..n /\ 1 \in 1..(n + 1) /\ n + 1 \in 1..(n + 1) /\ n + 1 + 1 = n + 2
      BY <2>2
    <3>2. s[1 + 1] = mid[1] /\ s[n + 1] = mid[n]
      BY <1>1, <3>1
    <3>3. signerOf(s[1 + 1], s[1]) /\ signerOf(s[n + 1 + 1], s[n + 1])
      BY <1>2, <1>3, <3>1
    <3> QED
      BY <1>1, <3>1, <3>2, <3>3
  <2>3. ASSUME NEW i \in 1..(n - 1) PROVE signerOf(mid[i + 1], mid[i])
    <3>1. i \in 1..n /\ i + 1 \in 1..n /\ i + 1 \in 1..(n + 1)
      OBVIOUS
    <3>2. s[i + 1] = mid[i] /\ s[i + 1 + 1] = mid[i + 1]
      BY <1>1, <3>1
    <3>3. signerOf(s[i + 1 + 1], s[i + 1])
      BY <1>2, <1>3, <3>1
    <3> QED
      BY <3>2, <3>3
  <2> QED
    BY <2>1, <2>2, <2>3
<1>4. ASSUME /\ n = 0 => signerOf(a, c)
             /\ n > 0 => signerOf(mid[1], c) /\ signerOf(a, mid[n])
             /\ \A i \in 1..(n - 1) : signerOf(mid[i + 1], mid[i])
      PROVE  Links(s)
  <2> SUFFICES ASSUME NEW i \in 1..(n + 1) PROVE signerOf(s[i + 1], s[i])
    BY <1>2
  <2>1. CASE n = 0
    <3>1. i = 1 /\ i + 1 = n + 2
      BY <2>1
    <3> QED
      BY <1>1, <1>4, <2>1, <3>1
  <2>2. CASE n > 0 /\ i = 1
    <3>1. 1 \in 1..n
      BY <2>2
    <3>2. s[1 + 1] = mid[1]
      BY <1>1, <3>1
    <3> QED
      BY <1>1, <1>4, <2>2, <3>2
  <2>3. CASE n > 0 /\ i = n + 1
    <3>1. n \in 1..n /\ i + 1 = n + 2
      BY <2>3
    <3>2. s[i] = mid[n]
      BY <1>1, <2>3, <3>1
    <3> QED
      BY <1>1, <1>4, <2>3, <3>1, <3>2
  <2>4. CASE n > 0 /\ i # 1 /\ i # n + 1
    <3>1. i - 1 \in 1..n /\ i \in 1..n /\ i - 1 \in 1..(n - 1) /\ i - 1 + 1 = i
      BY <2>4
    <3>2. s[i] = mid[i - 1] /\ s[i + 1] = mid[i]
      BY <1>1, <3>1
    <3>3. signerOf(mid[i - 1 + 1], mid[i - 1])
      BY <1>4, <3>1
    <3> QED
      BY <3>1, <3>2, <3>3
  <2> QED
    BY <2>1, <2>2, <2>3, <2>4
<1> QED
  BY <1>0, <1>3, <1>4

\* A longer path goes through its second certificate.
LEMMA PathTail ==
  ASSUME NEW S, S \subseteq Ids, NEW c \in Ids, NEW n \in Nat \ {0}, NEW mid \in [1..n -> S],
         NEW a \in Ids, Links(<<c>> \o mid \o <<a>>)
  PROVE  /\ mid[1] \in S /\ signerOf(mid[1], c)
         /\ \E t \in [1..(n - 1) -> S] : Links(<<mid[1]>> \o t \o <<a>>)
<1> DEFINE t == [i \in 1..(n - 1) |-> mid[i + 1]]
<1>1. n - 1 \in Nat /\ 1 \in 1..n /\ \A i \in 1..(n - 1) : i + 1 \in 1..n
  OBVIOUS
<1>2. t \in [1..(n - 1) -> S] /\ mid[1] \in S /\ \A i \in 1..(n - 1) : t[i] = mid[i + 1]
  BY <1>1
<1>3. mid \in [1..n -> Ids] /\ t \in [1..(n - 1) -> Ids] /\ mid[1] \in Ids
  <2>1. \A i \in 1..n : mid[i] \in Ids
    OBVIOUS
  <2> QED
    BY <1>1, <2>1
<1> HIDE DEF t
<1>4. /\ signerOf(mid[1], c) /\ signerOf(a, mid[n])
      /\ \A i \in 1..(n - 1) : signerOf(mid[i + 1], mid[i])
  <2>1. n \in Nat /\ n > 0
    OBVIOUS
  <2> QED
    BY <1>3, <2>1, PathLinks
<1>5. n - 1 = 0 => signerOf(a, mid[1])
  BY <1>4
<1>6. ASSUME n - 1 > 0 PROVE signerOf(t[1], mid[1]) /\ signerOf(a, t[n - 1])
  <2>1. 1 \in 1..(n - 1) /\ n - 1 \in 1..(n - 1) /\ n - 1 + 1 = n
    BY <1>6
  <2>2. t[1] = mid[1 + 1] /\ t[n - 1] = mid[n]
    BY <1>2, <2>1
  <2>3. signerOf(mid[1 + 1], mid[1])
    BY <1>4, <2>1
  <2> QED
    BY <1>4, <2>2, <2>3
<1>7. ASSUME NEW i \in 1..(n - 1 - 1) PROVE signerOf(t[i + 1], t[i])
  <2>1. i \in 1..(n - 1) /\ i + 1 \in 1..(n - 1)
    OBVIOUS
  <2>2. t[i] = mid[i + 1] /\ t[i + 1] = mid[i + 1 + 1]
    BY <1>2, <2>1
  <2>3. signerOf(mid[i + 1 + 1], mid[i + 1])
    BY <1>4, <2>1
  <2> QED
    BY <2>2, <2>3
<1>8. Links(<<mid[1]>> \o t \o <<a>>)
  <2> DEFINE m == n - 1
             b == mid[1]
  <2>1. /\ m \in Nat /\ b \in Ids /\ t \in [1..m -> Ids]
        /\ m = 0 => signerOf(a, b)
        /\ m > 0 => signerOf(t[1], b) /\ signerOf(a, t[m])
        /\ \A i \in 1..(m - 1) : signerOf(t[i + 1], t[i])
    BY <1>1, <1>3, <1>5, <1>6, <1>7
  <2> HIDE DEF m, b
  <2>2. Links(<<b>> \o t \o <<a>>)
    BY <2>1, PathLinks
  <2> QED
    BY <2>2 DEF b
<1> QED
  BY <1>2, <1>4, <1>8

\* The pools hold certificates, and each of them is a candidate.
LEMMA PoolFacts ==
  ASSUME TypeOK
  PROVE  /\ Range(req.roots) \subseteq Ids /\ Range(req.inters) \subseteq Ids
         /\ \A a \in Range(req.roots) : \E j \in 1..Len(Candidates) : j <= Roots /\ Candidates[j] = a
         /\ \A c \in Range(req.inters) : \E j \in 1..Len(Candidates) : j > Roots /\ Candidates[j] = c
<1> DEFINE rs == req.roots
           is == req.inters
<1>1. rs \in Seq(Ids) /\ is \in Seq(Ids)
  BY DEF TypeOK
<1>2. Candidates = rs \o is /\ Roots = Len(rs)
  BY DEF Candidates, Pool, Roots
<1> HIDE DEF rs, is
<1>3. /\ Len(rs) \in Nat /\ DOMAIN rs = 1..Len(rs) /\ \A i \in 1..Len(rs) : rs[i] \in Ids
      /\ Len(is) \in Nat /\ DOMAIN is = 1..Len(is) /\ \A i \in 1..Len(is) : is[i] \in Ids
  BY <1>1, LenProperties, ElementOfSeq
<1>4. /\ Len(rs \o is) = Len(rs) + Len(is)
      /\ \A i \in 1..(Len(rs) + Len(is)) :
           (rs \o is)[i] = IF i <= Len(rs) THEN rs[i] ELSE is[i - Len(rs)]
  BY <1>1, ConcatProperties
<1>5. Range(rs) \subseteq Ids /\ Range(is) \subseteq Ids
  BY <1>3 DEF Range
<1>6. ASSUME NEW a \in Range(rs)
      PROVE  \E j \in 1..Len(Candidates) : j <= Roots /\ Candidates[j] = a
  <2>1. PICK j \in 1..Len(rs) : rs[j] = a
    BY <1>3 DEF Range
  <2>2. j \in 1..(Len(rs) + Len(is)) /\ j <= Len(rs)
    BY <1>3
  <2> QED
    BY <1>2, <1>4, <2>1, <2>2
<1>7. ASSUME NEW c \in Range(is)
      PROVE  \E j \in 1..Len(Candidates) : j > Roots /\ Candidates[j] = c
  <2>1. PICK k \in 1..Len(is) : is[k] = c
    BY <1>3 DEF Range
  <2>2. /\ Len(rs) + k \in 1..(Len(rs) + Len(is)) /\ Len(rs) + k > Len(rs)
        /\ ~(Len(rs) + k <= Len(rs)) /\ Len(rs) + k - Len(rs) = k
    BY <1>3
  <2>3. (rs \o is)[Len(rs) + k] = c
    BY <1>4, <2>1, <2>2
  <2> QED
    BY <1>2, <1>4, <2>2, <2>3
<1> QED
  BY <1>5, <1>6, <1>7 DEF rs, is

\* A call that has dismissed all its candidates is right to return nil.  A path
\* that starts with a certificate followed by itself, which the certEqual guard
\* (verify.go:411) refuses to walk, can be shortened, so a shortest path is not
\* of this kind.
LEMMA Exhausted ==
  ASSUME TypeOK, NEW c \in Ids, NEW d \in Int,
         \A j \in 1..Len(Candidates) : Dismissed(req, c, d, j)
  PROVE  NoPath(req, c, d)
<1> DEFINE S == Range(req.inters)
           A == Range(req.roots)
           P(n, mid, a) == Links(<<c>> \o mid \o <<a>>)
           Found == {n \in 0..(d - 1) : \E mid \in [1..n -> S], a \in A : P(n, mid, a)}
<1>1. S \subseteq Ids /\ A \subseteq Ids
  BY PoolFacts
<1> SUFFICES ASSUME Found # {} PROVE FALSE
  BY DEF NoPath
<1>2. Found \subseteq Nat
  OBVIOUS
<1>3. \E n \in Found : \A m \in Found : n <= m
  <2> HIDE DEF Found
  <2> QED BY <1>2, LeastNatural
<1>4. PICK n \in Found : \A m \in Found : n <= m
  BY <1>3
<1>5. n \in 0..(d - 1) /\ n \in Nat
  OBVIOUS
<1>6. PICK mid \in [1..n -> S], a \in A : P(n, mid, a)
  OBVIOUS
<1>7. mid \in [1..n -> Ids] /\ a \in Ids
  <2>1. \A i \in 1..n : mid[i] \in Ids
    BY <1>1
  <2> QED
    BY <1>1, <2>1
<1>8. CASE n = 0
  <2>1. signerOf(a, c)
    BY <1>5, <1>6, <1>7, <1>8, PathLinks
  <2>2. PICK j \in 1..Len(Candidates) : j <= Roots /\ Candidates[j] = a
    BY PoolFacts
  <2> QED
    BY <2>1, <2>2 DEF Dismissed, Roots, Candidates
<1>9. CASE n # 0
  <2>1. n \in Nat \ {0} /\ n - 1 \in 0..(d - 1) /\ n - 1 \in 0..(d - 1 - 1)
    BY <1>5, <1>9
  <2>2. /\ mid[1] \in S /\ signerOf(mid[1], c)
        /\ \E t \in [1..(n - 1) -> S] : Links(<<mid[1]>> \o t \o <<a>>)
    <3> HIDE DEF Found, S, A
    <3>1. Links(<<c>> \o mid \o <<a>>)
      BY <1>6
    <3> QED
      BY <1>1, <1>7, <2>1, <3>1, PathTail
  <2>3. PICK t \in [1..(n - 1) -> S] : Links(<<mid[1]>> \o t \o <<a>>)
    BY <2>2
  <2>4. CASE mid[1] = c
    <3>1. P(n - 1, t, a)
      BY <2>3, <2>4
    <3>2. n - 1 \in Found
      BY <2>1, <3>1
    <3>3. n <= n - 1
      BY <1>4, <3>2
    <3> QED
      BY <1>5, <3>3
  <2>5. CASE mid[1] # c
    <3>1. PICK j \in 1..Len(Candidates) : j > Roots /\ Candidates[j] = mid[1]
      BY <2>2, PoolFacts
    <3>2. NoPath(req, mid[1], d - 1)
      BY <2>2, <2>5, <3>1 DEF Dismissed, Roots, Candidates
    <3> QED
      BY <2>1, <2>3, <3>2 DEF NoPath
  <2> QED
    BY <2>4, <2>5
<1> QED
  BY <1>8, <1>9

\* The innermost call moves on past a candidate that leads nowhere.
LEMMA ExploredAdvance ==
  ASSUME NEW r, NEW p, NEW t, NEW u, NEW k \in Nat \ {0}, Len(p) = k, Explored(r, p, t),
         \A i \in 1..k : t[i] \in Nat \ {0}, Len(Pool(r)) \in Nat,
         \A i \in 1..k : u[i] = IF i = k THEN t[i] + 1 ELSE t[i],
         t[k] <= Len(Pool(r)), Dismissed(r, p[k], MaxDepth - k + 1, t[k])
  PROVE  Explored(r, p, u)
<1> SUFFICES ASSUME NEW i \in 1..k
             PROVE  /\ u[i] <= Len(Pool(r)) + 1
                    /\ \A j \in 1..(IF i < k THEN u[i] - 2 ELSE u[i] - 1) :
                         Dismissed(r, p[i], MaxDepth - i + 1, j)
                    /\ i < k => u[i] - 1 > Len(r.roots) /\ Pool(r)[u[i] - 1] = p[i + 1]
  BY DEF Explored
<1>1. /\ t[i] <= Len(Pool(r)) + 1
      /\ \A j \in 1..(IF i < k THEN t[i] - 2 ELSE t[i] - 1) :
           Dismissed(r, p[i], MaxDepth - i + 1, j)
      /\ i < k => t[i] - 1 > Len(r.roots) /\ Pool(r)[t[i] - 1] = p[i + 1]
  BY DEF Explored
<1>2. CASE i # k
  BY <1>1, <1>2
<1>3. CASE i = k
  <2>1. u[i] = t[k] + 1 /\ t[k] \in Nat \ {0} /\ ~(i < k)
    BY <1>3
  <2>2. ASSUME NEW j \in 1..(u[i] - 1) PROVE Dismissed(r, p[i], MaxDepth - i + 1, j)
    <3>1. CASE j = t[k]
      BY <1>3, <3>1
    <3>2. CASE j # t[k]
      <4>1. j \in 1..(t[i] - 1)
        BY <1>3, <2>1, <3>2
      <4> QED
        BY <1>1, <2>1, <4>1
    <3> QED
      BY <3>1, <3>2
  <2> QED
    BY <2>1, <2>2
<1> QED
  BY <1>2, <1>3

\* The innermost call waits for a call on its candidate, which has tried nothing.
LEMMA ExploredDescend ==
  ASSUME NEW r, NEW p, NEW t, NEW q, NEW u, NEW k \in Nat \ {0}, Len(p) = k, Explored(r, p, t),
         \A i \in 1..k : t[i] \in Nat \ {0}, Len(Pool(r)) \in Nat,
         Len(q) = k + 1, \A i \in 1..k : q[i] = p[i], q[k + 1] = Pool(r)[t[k]],
         \A i \in 1..k : u[i] = IF i = k THEN t[i] + 1 ELSE t[i], u[k + 1] = 1,
         t[k] <= Len(Pool(r)), t[k] > Len(r.roots)
  PROVE  Explored(r, q, u)
<1> SUFFICES ASSUME NEW i \in 1..(k + 1)
             PROVE  /\ u[i] <= Len(Pool(r)) + 1
                    /\ \A j \in 1..(IF i < k + 1 THEN u[i] - 2 ELSE u[i] - 1) :
                         Dismissed(r, q[i], MaxDepth - i + 1, j)
                    /\ i < k + 1 => u[i] - 1 > Len(r.roots) /\ Pool(r)[u[i] - 1] = q[i + 1]
  BY DEF Explored
<1>1. CASE i = k + 1
  <2>1. u[i] = 1 /\ ~(i < k + 1)
    BY <1>1
  <2> QED
    BY <2>1
<1>2. CASE i # k + 1
  <2>1. i \in 1..k /\ i < k + 1
    BY <1>2
  <2>2. /\ t[i] <= Len(Pool(r)) + 1
        /\ \A j \in 1..(IF i < k THEN t[i] - 2 ELSE t[i] - 1) :
             Dismissed(r, p[i], MaxDepth - i + 1, j)
        /\ i < k => t[i] - 1 > Len(r.roots) /\ Pool(r)[t[i] - 1] = p[i + 1]
    BY <2>1 DEF Explored
  <2>3. CASE i = k
    <3>1. u[i] = t[k] + 1 /\ u[i] - 2 = t[i] - 1 /\ u[i] - 1 = t[k] /\ q[i] = p[i] /\ ~(i < k)
          /\ t[k] \in Nat
      BY <2>1, <2>3
    <3>2. u[i] <= Len(Pool(r)) + 1
      BY <3>1
    <3>3. \A j \in 1..(u[i] - 2) : Dismissed(r, q[i], MaxDepth - i + 1, j)
      BY <2>2, <3>1
    <3>4. u[i] - 1 > Len(r.roots) /\ Pool(r)[u[i] - 1] = q[i + 1]
      BY <2>3, <3>1
    <3> QED
      BY <2>1, <3>2, <3>3, <3>4
  <2>4. CASE i # k
    <3>1. i < k /\ u[i] = t[i] /\ q[i] = p[i] /\ i + 1 \in 1..k /\ q[i + 1] = p[i + 1]
      BY <2>1, <2>4
    <3> QED
      BY <2>1, <2>2, <3>1
  <2> QED
    BY <2>3, <2>4
<1> QED
  BY <1>1, <1>2

\* The innermost call returns nil, so its caller dismisses the candidate.
LEMMA ExploredBacktrack ==
  ASSUME NEW r, NEW p, NEW t, NEW q, NEW u, NEW k \in Nat \ {0, 1}, Len(p) = k,
         Explored(r, p, t), \A i \in 1..k : t[i] \in Nat \ {0}, Len(r.roots) \in Nat,
         Len(q) = k - 1, \A i \in 1..(k - 1) : q[i] = p[i] /\ u[i] = t[i],
         NoPath(r, p[k], MaxDepth - k + 1), MaxDepth \in Nat
  PROVE  Explored(r, q, u)
<1> SUFFICES ASSUME NEW i \in 1..(k - 1)
             PROVE  /\ u[i] <= Len(Pool(r)) + 1
                    /\ \A j \in 1..(IF i < k - 1 THEN u[i] - 2 ELSE u[i] - 1) :
                         Dismissed(r, q[i], MaxDepth - i + 1, j)
                    /\ i < k - 1 => u[i] - 1 > Len(r.roots) /\ Pool(r)[u[i] - 1] = q[i + 1]
  BY DEF Explored
<1>1. i \in 1..k /\ i < k /\ q[i] = p[i] /\ u[i] = t[i] /\ t[i] \in Nat \ {0}
  OBVIOUS
<1>2. /\ t[i] <= Len(Pool(r)) + 1
      /\ \A j \in 1..(t[i] - 2) : Dismissed(r, p[i], MaxDepth - i + 1, j)
      /\ t[i] - 1 > Len(r.roots) /\ Pool(r)[t[i] - 1] = p[i + 1]
  BY <1>1 DEF Explored
<1>3. CASE i < k - 1
  <2>1. i + 1 \in 1..(k - 1)
    BY <1>3
  <2> QED
    BY <1>1, <1>2, <1>3, <2>1
<1>4. CASE i = k - 1
  <2>1. ASSUME NEW j \in 1..(t[i] - 1) PROVE Dismissed(r, p[i], MaxDepth - i + 1, j)
    <3>1. CASE j = t[i] - 1
      <4>1. i + 1 = k /\ MaxDepth - i + 1 - 1 = MaxDepth - k + 1
        BY <1>4
      <4>2. NoPath(r, Pool(r)[j], MaxDepth - i + 1 - 1)
        BY <1>2, <3>1, <4>1
      <4>3. ~(j <= Len(r.roots))
        BY <1>1, <1>2, <3>1
      <4> QED
        BY <4>2, <4>3 DEF Dismissed
    <3>2. CASE j # t[i] - 1
      <4>1. j \in 1..(t[i] - 2)
        BY <1>1, <3>2
      <4> QED
        BY <1>2, <4>1
    <3> QED
      BY <3>1, <3>2
  <2> QED
    BY <1>1, <1>2, <1>4, <2>1
<1> QED
  BY <1>3, <1>4

\* Moving on past a candidate that leads nowhere keeps the book-keeping.
LEMMA AdvanceCInv ==
  ASSUME CInv, IInv', Searching, Pos <= Len(Candidates), at' = Advanced,
         Dismissed(req, Child, DepthLeft, Pos),
         sawNonGOST' = (sawNonGOST \/ ~Cert[Candidate].gost),
         UNCHANGED <<req, phase, path, chain, verdict>>
  PROVE  CInv'
<1>1. /\ TypeOK /\ phase = "search" /\ verdict = "pending"
      /\ Explored(req, path, at)
      /\ \A j \in 1..(at[1] - 1) : ~Cert[Candidates[j]].gost => sawNonGOST
      /\ sawNonGOST => \E j \in 1..Len(Candidates) : ~Cert[Candidates[j]].gost
  BY DEF CInv, IInv, SearchInv, ExploredInv, Searching
<1>2. /\ Len(path) \in Nat \ {0} /\ Len(at) = Len(path) /\ Pos \in Nat \ {0}
      /\ \A i \in 1..Len(at) : Advanced[i] = IF i = Len(at) THEN at[i] + 1 ELSE at[i]
  BY <1>1, FrameFacts
<1>3. \A i \in 1..Len(path) : at[i] \in Nat \ {0}
  BY <1>1, <1>2, ElementOfSeq DEF TypeOK
<1>4. Len(Pool(req)) \in Nat /\ Candidates = Pool(req)
  BY <1>1, CandidatesLen DEF Candidates
<1>5. Dismissed(req, path[Len(path)], MaxDepth - Len(path) + 1, at[Len(path)])
  BY <1>2 DEF Child, Pos, DepthLeft
<1>6. at[Len(path)] <= Len(Pool(req))
  BY <1>2, <1>4 DEF Pos
<1>7. Explored(req, path, Advanced)
  BY <1>1, <1>2, <1>3, <1>4, <1>5, <1>6, ExploredAdvance
<1>8. \A j \in 1..(Advanced[1] - 1) : ~Cert[Candidates[j]].gost => sawNonGOST'
  <2> SUFFICES ASSUME NEW j \in 1..(Advanced[1] - 1), ~Cert[Candidates[j]].gost
               PROVE  sawNonGOST'
    OBVIOUS
  <2>1. CASE j \in 1..(at[1] - 1)
    BY <1>1, <2>1
  <2>2. CASE j \notin 1..(at[1] - 1)
    <3>1. 1 \in 1..Len(at) /\ at[1] \in Nat \ {0}
      BY <1>2, <1>3
    <3>2. Len(at) = 1 /\ j = at[1]
      BY <1>2, <2>2, <3>1
    <3>3. Candidates[j] = Candidate
      BY <3>2 DEF Candidate, Pos
    <3> QED
      BY <3>3
  <2> QED
    BY <2>1, <2>2
<1>9. sawNonGOST' => \E j \in 1..Len(Candidates) : ~Cert[Candidates[j]].gost
  <2>1. Pos \in 1..Len(Candidates)
    BY <1>2, <1>4
  <2> QED
    BY <1>1, <2>1 DEF Candidate
<1>10. req' = req /\ path' = path /\ Candidates' = Candidates /\ verdict' = verdict
  BY DEF Candidates
<1>11. ExploredInv'
  <2>1. Explored(req', path', at')
    BY <1>7, <1>10, Zenon
  <2> QED
    BY <1>1, <1>8, <1>9, <1>10, <2>1 DEF ExploredInv
<1>12. SearchComplete' /\ MixedChainExplained'
  BY <1>1, <1>10 DEF SearchComplete, MixedChainExplained
<1> QED
  BY <1>11, <1>12 DEF CInv

\* The errors of the leaf checks and of the validation are not search failures.
LEMMA OtherErrors ==
  /\ EntryResult \notin {"noChain", "mixedChain"}
  /\ \A ch : validateGOSTChainConstraints(ch) \notin {"noChain", "mixedChain"}
<1>1. EntryResult \notin {"noChain", "mixedChain"}
  BY DEF EntryResult
<1>2. \A ch, i : CertError(ch, i) \notin {"noChain", "mixedChain"}
  BY DEF CertError
<1> QED
  BY <1>1, <1>2 DEF validateGOSTChainConstraints

\* Before the search starts nothing was skipped or dismissed.
LEMMA InitCInv == Init => CInv
<1> SUFFICES ASSUME Init PROVE CInv
  OBVIOUS
<1>1. IInv /\ phase = "entry" /\ verdict = "pending" /\ ~sawNonGOST
  BY InitIInv DEF Init
<1> QED
  BY <1>1 DEF CInv, ExploredInv, SearchComplete, MixedChainExplained

\* Every step of the search keeps the record of what was tried.
LEMMA NextCInv == CInv /\ [Next]_vars => CInv'
<1> SUFFICES ASSUME CInv, [Next]_vars PROVE CInv'
  OBVIOUS
<1>i. IInv /\ IInv' /\ TypeOK /\ MaxDepth \in Nat \ {0}
  BY NextIInv, DepthAssumption DEF CInv, IInv
<1>c. /\ Roots \in Nat /\ Len(Candidates) \in Nat /\ Len(Candidates) >= Roots
      /\ Roots = Len(req.roots) /\ Candidates = Pool(req)
  BY <1>i, CandidatesLen DEF Roots, Candidates
<1>1. CASE VerifyRejects
  <2>1. phase' = "done" /\ verdict' \notin {"noChain", "mixedChain"}
    BY <1>1, OtherErrors DEF VerifyRejects, Finish
  <2> QED
    BY <1>i, <2>1 DEF CInv, ExploredInv, SearchComplete, MixedChainExplained
<1>2. CASE buildGOSTChain
  <2>1. /\ phase = "entry" /\ phase' = "search" /\ path' = <<req.leaf>> /\ at' = <<1>>
        /\ UNCHANGED <<req, sawNonGOST, verdict>>
    BY <1>2 DEF buildGOSTChain
  <2>2. ~sawNonGOST /\ verdict = "pending"
    BY <2>1 DEF CInv, ExploredInv, IInv, SearchInv
  <2>3. Explored(req, <<req.leaf>>, <<1>>)
    <3> DEFINE p == <<req.leaf>>
               t == <<1>>
    <3>1. Len(p) = 1 /\ t[1] = 1
      OBVIOUS
    <3> HIDE DEF p, t
    <3>2. Explored(req, p, t)
      BY <1>c, <3>1 DEF Explored
    <3> QED
      BY <3>2 DEF p, t
  <2>4. Explored(req', path', at')
    BY <2>1, <2>3, Zenon
  <2>5. at'[1] = 1
    BY <2>1
  <2>6. ExploredInv'
    BY <2>1, <2>2, <2>4, <2>5 DEF ExploredInv
  <2>7. SearchComplete' /\ MixedChainExplained'
    BY <2>1, <2>2 DEF SearchComplete, MixedChainExplained
  <2> QED
    BY <1>i, <2>6, <2>7 DEF CInv
<1>3. CASE SkipNonGOST
  <2>1. /\ Searching /\ Pos <= Len(Candidates) /\ ~Cert[Candidate].gost
        /\ sawNonGOST' = TRUE /\ at' = Advanced
        /\ UNCHANGED <<req, phase, path, chain, verdict>>
    BY <1>3 DEF SkipNonGOST
  <2>2. ~signerOf(Candidate, Child)
    BY <2>1 DEF signerOf, verifyGOSTSignature
  <2>3. Dismissed(req, Child, DepthLeft, Pos)
    BY <1>c, <2>2 DEF Dismissed, Candidate
  <2>4. sawNonGOST' = (sawNonGOST \/ ~Cert[Candidate].gost)
    BY <2>1
  <2> QED
    BY <1>i, <2>1, <2>3, <2>4, AdvanceCInv
<1>4. CASE SkipNotSigner
  <2>1. /\ Searching /\ Pos <= Len(Candidates) /\ Cert[Candidate].gost /\ ~Accepts
        /\ at' = Advanced /\ UNCHANGED <<req, phase, path, sawNonGOST, chain, verdict>>
    BY <1>4 DEF SkipNotSigner
  <2>2. Pos \in Nat
    BY <1>i, <2>1, FrameFacts
  <2>3. Dismissed(req, Child, DepthLeft, Pos)
    BY <1>c, <2>1, <2>2 DEF Dismissed, Candidate, Accepts
  <2>4. sawNonGOST' = (sawNonGOST \/ ~Cert[Candidate].gost)
    BY <1>i, <2>1 DEF TypeOK
  <2> QED
    BY <1>i, <2>1, <2>3, <2>4, AdvanceCInv
<1>5. CASE TooDeep
  <2>1. /\ Searching /\ Pos > Roots /\ Pos <= Len(Candidates) /\ Cert[Candidate].gost
        /\ DepthLeft - 1 <= 0
        /\ at' = Advanced /\ UNCHANGED <<req, phase, path, sawNonGOST, chain, verdict>>
    BY <1>5 DEF TooDeep, Bridge
  <2>2. Pos \in Nat /\ Len(path) \in Nat
    BY <1>i, <2>1, FrameFacts
  <2>3. NoPath(req, Candidate, DepthLeft - 1)
    <3>1. 0..(DepthLeft - 1 - 1) = {}
      BY <1>i, <2>1, <2>2 DEF DepthLeft
    <3> QED
      BY <3>1 DEF NoPath
  <2>4. Dismissed(req, Child, DepthLeft, Pos)
    BY <1>c, <2>1, <2>2, <2>3 DEF Dismissed, Candidate
  <2>5. sawNonGOST' = (sawNonGOST \/ ~Cert[Candidate].gost)
    BY <1>i, <2>1 DEF TypeOK
  <2> QED
    BY <1>i, <2>1, <2>4, <2>5, AdvanceCInv
<1>6. CASE RootFound
  <2>1. phase' = "validate" /\ verdict' = verdict /\ phase = "search"
    BY <1>6 DEF RootFound, Searching
  <2>2. verdict = "pending"
    BY <1>i, <2>1 DEF IInv, SearchInv
  <2> QED
    BY <1>i, <2>1, <2>2 DEF CInv, ExploredInv, SearchComplete, MixedChainExplained
<1>7. CASE Descend
  <2>1. /\ Searching /\ Pos > Roots /\ Pos <= Len(Candidates)
        /\ path' = Append(path, Candidate) /\ at' = Append(Advanced, 1)
        /\ UNCHANGED <<req, phase, sawNonGOST, verdict>>
    BY <1>7 DEF Descend, Bridge
  <2>2. /\ Len(path) \in Nat \ {0} /\ Len(at) = Len(path) /\ Pos \in Nat \ {0}
        /\ Advanced \in Seq(Nat \ {0}) /\ Len(Advanced) = Len(at)
        /\ \A i \in 1..Len(at) : Advanced[i] = IF i = Len(at) THEN at[i] + 1 ELSE at[i]
    BY <1>i, <2>1, FrameFacts
  <2>3. /\ phase = "search" /\ verdict = "pending" /\ Explored(req, path, at)
        /\ \A j \in 1..(at[1] - 1) : ~Cert[Candidates[j]].gost => sawNonGOST
        /\ sawNonGOST => \E j \in 1..Len(Candidates) : ~Cert[Candidates[j]].gost
    BY <2>1 DEF CInv, IInv, SearchInv, ExploredInv, Searching
  <2>4. \A i \in 1..Len(path) : at[i] \in Nat \ {0}
    BY <1>i, <2>2, ElementOfSeq DEF TypeOK
  <2>5. Candidate \in Ids
    <3>1. Pos \in 1..Len(Candidates)
      BY <1>c, <2>1, <2>2
    <3> QED
      BY <1>i, <3>1, CandidateFacts DEF Candidate
  <2>6. /\ Len(path') = Len(path) + 1 /\ path'[Len(path) + 1] = Candidate
        /\ \A i \in 1..Len(path) : path'[i] = path[i]
    BY <1>i, <2>1, <2>5, AppendProperties DEF TypeOK
  <2>7. at'[Len(path) + 1] = 1 /\ \A i \in 1..Len(path) : at'[i] = Advanced[i]
    BY <2>1, <2>2, AppendProperties
  <2>8. Explored(req, path', at')
    <3>1. /\ Candidate = Pool(req)[at[Len(path)]] /\ at[Len(path)] = Pos
      BY <1>c, <2>2 DEF Candidate, Pos
    <3>2. PICK q : q = path'
      OBVIOUS
    <3>3. PICK u : u = at'
      OBVIOUS
    <3>4. /\ Len(q) = Len(path) + 1 /\ q[Len(path) + 1] = Pool(req)[at[Len(path)]]
          /\ \A i \in 1..Len(path) : q[i] = path[i]
      BY <2>6, <3>1, <3>2
    <3>5. /\ u[Len(path) + 1] = 1
          /\ \A i \in 1..Len(path) : u[i] = IF i = Len(path) THEN at[i] + 1 ELSE at[i]
      BY <2>2, <2>7, <3>3
    <3>6. at[Len(path)] <= Len(Pool(req)) /\ at[Len(path)] > Len(req.roots)
          /\ Len(Pool(req)) \in Nat
      BY <1>c, <2>1, <3>1
    <3>7. Explored(req, q, u)
      BY <2>2, <2>3, <2>4, <3>4, <3>5, <3>6, ExploredDescend
    <3> QED
      BY <3>2, <3>3, <3>7, Zenon
  <2>9. Explored(req', path', at') /\ Candidates' = Candidates
    BY <2>1, <2>8, Zenon DEF Candidates
  <2>10. \A j \in 1..(at'[1] - 1) : ~Cert[Candidates[j]].gost => sawNonGOST'
    <3> SUFFICES ASSUME NEW j \in 1..(at'[1] - 1), ~Cert[Candidates[j]].gost
                 PROVE  sawNonGOST
      BY <2>1
    <3>1. 1 \in 1..Len(path) /\ at[1] \in Nat \ {0}
      BY <2>2, <2>4
    <3>2. CASE j \in 1..(at[1] - 1)
      BY <2>3, <3>2
    <3>3. CASE j \notin 1..(at[1] - 1)
      <4>1. Len(at) = 1 /\ j = at[1]
        BY <2>2, <2>7, <3>1, <3>3
      <4>2. Candidates[j] = Candidate
        BY <4>1 DEF Candidate, Pos
      <4> QED
        BY <1>7, <4>2 DEF Descend, Bridge
    <3> QED
      BY <3>2, <3>3
  <2>11. ExploredInv'
    BY <2>1, <2>3, <2>9, <2>10 DEF ExploredInv
  <2>12. SearchComplete' /\ MixedChainExplained'
    BY <2>1, <2>3 DEF SearchComplete, MixedChainExplained
  <2> QED
    BY <1>i, <2>11, <2>12 DEF CInv
<1>8. CASE Backtrack
  <2>1. /\ Searching /\ Pos > Len(Candidates)
        /\ path' = Front(path) /\ at' = Front(at)
        /\ UNCHANGED <<req, sawNonGOST, chain>>
        /\ Len(path) = 1 => /\ phase' = "done"
                            /\ verdict' = IF sawNonGOST THEN "mixedChain" ELSE "noChain"
        /\ Len(path) # 1 => UNCHANGED <<phase, verdict>>
    BY <1>8 DEF Backtrack, Finish
  <2>2. /\ Len(path) \in Nat \ {0} /\ Len(at) = Len(path) /\ Pos \in Nat \ {0} /\ Child \in Ids
        /\ path \in Seq(Ids) /\ at \in Seq(Nat \ {0})
    BY <1>i, <2>1, FrameFacts DEF TypeOK
  <2>3. /\ phase = "search" /\ verdict = "pending" /\ Explored(req, path, at)
        /\ \A j \in 1..(at[1] - 1) : ~Cert[Candidates[j]].gost => sawNonGOST
        /\ sawNonGOST => \E j \in 1..Len(Candidates) : ~Cert[Candidates[j]].gost
        /\ path[1] = req.leaf
    BY <2>1, <2>2 DEF CInv, IInv, SearchInv, ExploredInv, Searching
  <2>4. \A i \in 1..Len(path) : at[i] \in Nat \ {0}
    BY <2>2, ElementOfSeq
  <2>5. at[Len(path)] = Pos /\ path[Len(path)] = Child /\ Len(path) \in 1..Len(path)
    BY <2>2 DEF Pos, Child
  <2>6. \A j \in 1..Len(Candidates) : Dismissed(req, Child, MaxDepth - Len(path) + 1, j)
    <3> SUFFICES ASSUME NEW j \in 1..Len(Candidates)
                 PROVE  Dismissed(req, Child, MaxDepth - Len(path) + 1, j)
      OBVIOUS
    <3>1. j \in 1..(at[Len(path)] - 1) /\ ~(Len(path) < Len(path))
      BY <1>c, <2>1, <2>2, <2>5
    <3> QED
      BY <2>3, <2>5, <3>1 DEF Explored
  <2>7. NoPath(req, Child, MaxDepth - Len(path) + 1)
    <3>1. MaxDepth - Len(path) + 1 \in Int
      BY <1>i, <2>2
    <3> QED
      BY <1>i, <2>2, <2>6, <3>1, Exhausted
  <2>8. CASE Len(path) = 1
    <3>1. Child = req.leaf /\ MaxDepth - Len(path) + 1 = MaxDepth
      BY <1>i, <2>3, <2>5, <2>8
    <3>2. NoPath(req, req.leaf, MaxDepth)
      BY <2>7, <3>1
    <3>3. SearchComplete'
      BY <2>1, <3>2 DEF SearchComplete, NoPath
    <3>4. \A j \in 1..Len(Candidates) : ~Cert[Candidates[j]].gost => sawNonGOST
      <4> SUFFICES ASSUME NEW j \in 1..Len(Candidates)
                   PROVE  ~Cert[Candidates[j]].gost => sawNonGOST
        OBVIOUS
      <4>1. j \in 1..(at[1] - 1)
        BY <1>c, <2>1, <2>2, <2>5, <2>8
      <4> QED
        BY <2>3, <4>1
    <3>5. sawNonGOST <=> \E j \in 1..Len(Candidates) : ~Cert[Candidates[j]].gost
      BY <2>3, <3>4
    <3>6. Candidates' = Candidates
      BY <2>1 DEF Candidates
    <3>7. verdict' = "mixedChain" <=> sawNonGOST
      BY <2>1, <2>8
    <3>8. MixedChainExplained'
      BY <3>5, <3>6, <3>7 DEF MixedChainExplained
    <3>9. ExploredInv'
      BY <2>1, <2>8 DEF ExploredInv
    <3> QED
      BY <1>i, <3>3, <3>8, <3>9 DEF CInv
  <2>9. CASE Len(path) # 1
    <3>1. Len(path) \in Nat \ {0, 1}
      BY <2>2, <2>9
    <3>2. /\ Len(path') = Len(path) - 1
          /\ \A i \in 1..(Len(path) - 1) : path'[i] = path[i] /\ at'[i] = at[i]
      <4>1. /\ Len(Front(path)) = Len(path) - 1
            /\ \A i \in 1..(Len(path) - 1) : Front(path)[i] = path[i]
        BY <2>2, FrontFacts
      <4>2. \A i \in 1..(Len(path) - 1) : Front(at)[i] = at[i]
        BY <2>2, FrontFacts
      <4> QED
        BY <2>1, <4>1, <4>2
    <3>3. PICK q : q = path'
      OBVIOUS
    <3>4. PICK u : u = at'
      OBVIOUS
    <3>5. /\ Len(q) = Len(path) - 1
          /\ \A i \in 1..(Len(path) - 1) : q[i] = path[i] /\ u[i] = at[i]
      BY <3>2, <3>3, <3>4
    <3>6. NoPath(req, path[Len(path)], MaxDepth - Len(path) + 1)
      BY <2>5, <2>7
    <3>7. Explored(req, q, u)
      BY <1>i, <1>c, <2>3, <2>4, <3>1, <3>5, <3>6, ExploredBacktrack
    <3>8. Explored(req', path', at') /\ Candidates' = Candidates
      BY <2>1, <3>3, <3>4, <3>7, Zenon DEF Candidates
    <3>9. at'[1] = at[1]
      BY <3>1, <3>2
    <3>10. ExploredInv'
      BY <2>1, <2>3, <2>9, <3>8, <3>9 DEF ExploredInv
    <3>11. SearchComplete' /\ MixedChainExplained'
      BY <2>1, <2>3, <2>9 DEF SearchComplete, MixedChainExplained
    <3> QED
      BY <1>i, <3>10, <3>11 DEF CInv
  <2> QED
    BY <2>8, <2>9
<1>9. CASE Validate
  <2>1. phase' = "done" /\ verdict' \notin {"noChain", "mixedChain"}
    BY <1>9, OtherErrors DEF Validate, Finish
  <2> QED
    BY <1>i, <2>1 DEF CInv, ExploredInv, SearchComplete, MixedChainExplained
<1>10. CASE UNCHANGED vars
  <2>1. UNCHANGED <<req, phase, path, at, sawNonGOST, chain, verdict>>
    BY <1>10 DEF vars
  <2>2. Candidates' = Candidates
    BY <2>1 DEF Candidates
  <2>3. Explored(req', path', at') <=> Explored(req, path, at)
    BY <2>1, Zenon
  <2>4. NoPath(req', req'.leaf, MaxDepth) <=> NoPath(req, req.leaf, MaxDepth)
    BY <2>1, Zenon
  <2> QED
    BY <1>i, <2>1, <2>2, <2>3, <2>4
    DEF CInv, ExploredInv, SearchComplete, MixedChainExplained
<1> QED
  BY <1>1, <1>2, <1>3, <1>4, <1>5, <1>6, <1>7, <1>8, <1>9, <1>10 DEF Next, Step, Returned

\* Whenever Verify fails for want of a chain there is none within the depth, for
\* every PKI and every order of the pools (verify.go:376-426).
THEOREM Completeness == Spec => []SearchComplete
<1>1. CInv => SearchComplete
  BY DEF CInv
<1> QED
  BY <1>1, InitCInv, NextCInv, PTL DEF Spec

\* The error of a failed search is mixed chain exactly when a pool is mixed.
THEOREM MixedExplained == Spec => []MixedChainExplained
<1>1. CInv => MixedChainExplained
  BY DEF CInv
<1> QED
  BY <1>1, InitCInv, NextCInv, PTL DEF Spec

-----------------------------------------------------------------------------
(* The parser *)

\* The part of bits from m to n.
LEMMA PartOf ==
  ASSUME NEW bits \in Seq(Nat), NEW m \in Nat \ {0}, NEW n \in Nat, n <= Len(bits)
  PROVE  /\ SubSeq(bits, m, n) \in Seq(Nat)
         /\ Len(SubSeq(bits, m, n)) = IF m <= n THEN n - m + 1 ELSE 0
         /\ \A i \in 1..(n - m + 1) : SubSeq(bits, m, n)[i] = bits[m + i - 1]
<1>1. \A i \in 1..Len(bits) : bits[i] \in Nat
  BY ElementOfSeq
<1>2. Len(bits) \in Nat
  BY LenProperties
<1>3. \A i \in m..n : bits[i] \in Nat
  BY <1>1, <1>2
<1> QED
  BY <1>3, SubSeqProperties

\* A sequence after another.
LEMMA Joined ==
  ASSUME NEW h \in Seq(Nat), NEW t \in Seq(Nat)
  PROVE  /\ h \o t \in Seq(Nat) /\ Len(h \o t) = Len(h) + Len(t)
         /\ \A i \in 1..(Len(h) + Len(t)) : (h \o t)[i] = IF i <= Len(h) THEN h[i] ELSE t[i - Len(h)]
  BY ConcatProperties

\* bits are the OCTET STRING of their third byte and on exactly if the first two
\* are its tag and its length.
LEMMA WrappedIff ==
  ASSUME NEW bits \in Seq(Nat), NEW n \in Nat, Len(bits) = n + 2
  PROVE  bits = Wrapped(SubSeq(bits, 3, n + 2)) <=> bits[1] = Octets /\ bits[2] = n
<1>0. PICK t, h : t = SubSeq(bits, 3, n + 2) /\ h = <<Octets, n>>
  OBVIOUS
<1>1. t \in Seq(Nat) /\ Len(t) = n /\ \A i \in 1..n : t[i] = bits[i + 2]
  <2>1. /\ 3 \in Nat \ {0} /\ n + 2 \in Nat /\ n + 2 <= Len(bits)
        /\ (n + 2) - 3 + 1 = n /\ n = IF 3 <= n + 2 THEN n ELSE 0
    OBVIOUS
  <2>2. /\ t \in Seq(Nat) /\ Len(t) = IF 3 <= n + 2 THEN (n + 2) - 3 + 1 ELSE 0
        /\ \A i \in 1..((n + 2) - 3 + 1) : t[i] = bits[3 + i - 1]
    BY <1>0, <2>1, PartOf
  <2>3. \A i \in 1..n : t[i] = bits[3 + i - 1]
    BY <2>1, <2>2
  <2>4. \A i \in 1..n : 3 + i - 1 = i + 2
    OBVIOUS
  <2> QED
    BY <2>1, <2>2, <2>3, <2>4
<1>2. h \in Seq(Nat) /\ Len(h) = 2 /\ h[1] = Octets /\ h[2] = n
  BY <1>0 DEF Octets
<1>3. /\ h \o t \in Seq(Nat) /\ Len(h \o t) = n + 2
      /\ \A i \in 1..(n + 2) : (h \o t)[i] = IF i <= 2 THEN h[i] ELSE t[i - 2]
  <2>1. PICK x : x = h \o t
    OBVIOUS
  <2>2. /\ x \in Seq(Nat) /\ Len(x) = Len(h) + Len(t)
        /\ \A i \in 1..(Len(h) + Len(t)) : x[i] = IF i <= Len(h) THEN h[i] ELSE t[i - Len(h)]
    BY <1>1, <1>2, <2>1, Joined
  <2>3. Len(h) + Len(t) = n + 2
    BY <1>1, <1>2
  <2>4. x \in Seq(Nat) /\ Len(x) = n + 2 /\ \A i \in 1..(n + 2) : x[i] = IF i <= 2 THEN h[i] ELSE t[i - 2]
    BY <1>2, <2>2, <2>3
  <2> QED
    BY <2>1, <2>4
<1>4. Wrapped(t) = h \o t
  BY <1>0, <1>1 DEF Wrapped
<1>5. ASSUME bits = h \o t PROVE bits[1] = Octets /\ bits[2] = n
  <2>1. (h \o t)[1] = h[1] /\ (h \o t)[2] = h[2]
    <3>1. PICK x : x = h \o t /\ \A i \in 1..(n + 2) : x[i] = IF i <= 2 THEN h[i] ELSE t[i - 2]
      BY <1>3
    <3>2. 1 \in 1..(n + 2) /\ 2 \in 1..(n + 2)
      OBVIOUS
    <3>3. /\ x[1] = IF 1 <= 2 THEN h[1] ELSE t[1 - 2]
          /\ x[2] = IF 2 <= 2 THEN h[2] ELSE t[2 - 2]
      BY <3>1, <3>2, Zenon
    <3>4. x[1] = h[1] /\ x[2] = h[2]
      BY <3>3
    <3> QED
      BY <3>1, <3>4
  <2> QED
    BY <1>2, <1>5, <2>1
<1>6. ASSUME bits[1] = Octets, bits[2] = n PROVE bits = h \o t
  <2>1. ASSUME NEW i \in 1..(n + 2) PROVE bits[i] = (h \o t)[i]
    <3>1. CASE i <= 2
      <4>1. (h \o t)[i] = h[i] /\ (i = 1 \/ i = 2)
        BY <1>3, <3>1
      <4> QED
        BY <1>2, <1>6, <4>1
    <3>2. CASE ~(i <= 2)
      <4>1. i - 2 \in 1..n /\ (i - 2) + 2 = i
        BY <3>2
      <4> QED
        BY <1>1, <1>3, <3>2, <4>1
    <3> QED
      BY <3>1, <3>2
  <2> QED
    BY <1>3, <2>1, SeqEqual
<1> QED
  BY <1>0, <1>4, <1>5, <1>6

\* The keys of n bytes that bits encode.
KeysIn(bits, n) ==
  {k \in {bits, SubSeq(bits, 3, Len(bits))} : Len(k) = n /\ bits \in {k, Wrapped(k)}}

\* The key that bits encode for keys of n bytes, if they do, is the only one.
\* This is where a bare key that reads as an OCTET STRING is told from a wrapped
\* one by its length (parse.go:357-387).
LEMMA ExtractExact ==
  ASSUME NEW bits \in Seq(Nat), NEW n \in Nat \ {0}
  PROVE  IF KeysIn(bits, n) = {} THEN extractGOSTPubKeyBytes(bits, n) = NoKey
         ELSE /\ extractGOSTPubKeyBytes(bits, n) # NoKey
              /\ KeysIn(bits, n) = {extractGOSTPubKeyBytes(bits, n)}
<1>0. PICK len \in Nat, tail \in {SubSeq(bits, 3, Len(bits))} : len = Len(bits) /\ tail = SubSeq(bits, 3, len)
  BY LenProperties
<1>1. tail \in Seq(Nat) /\ Len(tail) = IF len < 3 THEN 0 ELSE len - 2
  <2>1. /\ tail \in Seq(Nat) /\ Len(tail) = IF 3 <= len THEN len - 3 + 1 ELSE 0
    BY <1>0, PartOf
  <2> QED
    BY <2>1
<1>2. \A i \in 1..len : bits[i] \in Nat
  BY <1>0, <1>1, ElementOfSeq
<1>3. bits = <<>> => len = 0
  BY <1>0, <1>1
<1>4. ASSUME UnmarshalOctets(bits).ok
      PROVE  /\ len >= 2 /\ bits[1] = Octets /\ bits[2] \in 0..(len - 2)
             /\ UnmarshalOctets(bits).inner = SubSeq(bits, 3, bits[2] + 2)
             /\ Len(UnmarshalOctets(bits).inner) = bits[2]
             /\ UnmarshalOctets(bits).rest = <<>> <=> bits[2] = len - 2
  <2>1. len >= 2 /\ bits[1] = Octets /\ ~(bits[2] > len - 2) /\ bits[2] \in Nat
    BY <1>0, <1>1, <1>2, <1>4 DEF UnmarshalOctets
  <2>2. PICK b \in 0..(len - 2) : b = bits[2]
    BY <2>1
  <2>3. UnmarshalOctets(bits) = [ok |-> TRUE, inner |-> SubSeq(bits, 3, b + 2), rest |-> SubSeq(bits, b + 3, len)]
    BY <1>0, <1>1, <2>1, <2>2 DEF UnmarshalOctets
  <2>4. b \in Nat /\ b + 2 \in Nat /\ b + 3 \in Nat \ {0} /\ b + 2 <= len
    BY <2>1, <2>2
  <2>5. PICK inner, rest : inner = SubSeq(bits, 3, b + 2) /\ rest = SubSeq(bits, b + 3, len)
    OBVIOUS
  <2>6. Len(inner) = IF 3 <= b + 2 THEN (b + 2) - 3 + 1 ELSE 0
    BY <1>0, <2>4, <2>5, PartOf
  <2>7. rest \in Seq(Nat) /\ Len(rest) = IF b + 3 <= len THEN len - (b + 3) + 1 ELSE 0
    BY <1>0, <2>4, <2>5, PartOf
  <2>8. rest = <<>> <=> Len(rest) = 0
    BY <2>7, EmptySeq
  <2>9. rest = <<>> <=> b = len - 2
    <3>1. PICK l : l = Len(rest)
      OBVIOUS
    <3>2. l = IF b + 3 <= len THEN len - (b + 3) + 1 ELSE 0
      BY <2>7, <3>1
    <3>3. l = 0 <=> b = len - 2
      BY <2>4, <3>2
    <3> QED
      BY <2>8, <3>1, <3>3
  <2>10. Len(inner) = b
    BY <2>4, <2>6
  <2>11. UnmarshalOctets(bits).inner = inner /\ UnmarshalOctets(bits).rest = rest
    BY <2>3, <2>5
  <2>12. bits[2] \in 0..(len - 2) /\ inner = SubSeq(bits, 3, bits[2] + 2)
    BY <2>2, <2>5
  <2> QED
    BY <2>1, <2>2, <2>9, <2>10, <2>11, <2>12
<1>5. CASE len = n + 2 /\ bits[1] = Octets /\ bits[2] = n
  <2>1. /\ UnmarshalOctets(bits).ok /\ bits # <<>>
    <3>1. ~(len < 2) /\ ~(bits[2] > len - 2)
      BY <1>5
    <3> QED
      BY <1>0, <1>1, <1>3, <1>5, <3>1 DEF UnmarshalOctets
  <2>2. /\ UnmarshalOctets(bits).inner = tail /\ Len(tail) = n /\ UnmarshalOctets(bits).rest = <<>>
    BY <1>0, <1>1, <1>4, <1>5, <2>1
  <2>3. extractGOSTPubKeyBytes(bits, n) = tail
    BY <2>1, <2>2 DEF extractGOSTPubKeyBytes
  <2>4. bits = Wrapped(tail)
    <3>1. Len(bits) = n + 2 /\ tail = SubSeq(bits, 3, n + 2)
      BY <1>0, <1>5
    <3> QED
      BY <1>5, <3>1, WrappedIff
  <2>5. KeysIn(bits, n) = {tail}
    <3>1. Len(bits) # n /\ KeysIn(bits, n) = {k \in {bits, tail} : Len(k) = n /\ bits \in {k, Wrapped(k)}}
      BY <1>0, <1>5 DEF KeysIn
    <3> QED
      BY <2>2, <2>4, <3>1
  <2>6. tail # <<>>
    BY <2>2
  <2> QED
    BY <2>3, <2>5, <2>6 DEF NoKey
<1>6. CASE len = n
  <2>1. ~(UnmarshalOctets(bits).ok /\ Len(UnmarshalOctets(bits).inner) = n)
    BY <1>4, <1>6
  <2>2. extractGOSTPubKeyBytes(bits, n) = bits /\ bits # <<>>
    BY <1>0, <1>1, <1>3, <1>6, <2>1 DEF extractGOSTPubKeyBytes
  <2>3. KeysIn(bits, n) = {bits}
    <3>1. Len(tail) # n
      BY <1>1, <1>6
    <3>2. Len(bits) = n /\ KeysIn(bits, n) = {k \in {bits, tail} : Len(k) = n /\ bits \in {k, Wrapped(k)}}
      BY <1>0, <1>6 DEF KeysIn
    <3> QED
      BY <3>1, <3>2
  <2> QED
    BY <2>2, <2>3 DEF NoKey
<1>7. CASE len # n /\ ~(len = n + 2 /\ bits[1] = Octets /\ bits[2] = n)
  <2>1. ~(UnmarshalOctets(bits).ok /\ UnmarshalOctets(bits).rest = <<>> /\ Len(UnmarshalOctets(bits).inner) = n)
    BY <1>4, <1>7
  <2>2. extractGOSTPubKeyBytes(bits, n) = NoKey
    BY <1>0, <1>1, <1>7, <2>1 DEF extractGOSTPubKeyBytes
  <2>3. ~(Len(tail) = n /\ bits \in {tail, Wrapped(tail)})
    <3> SUFFICES ASSUME Len(tail) = n, bits \in {tail, Wrapped(tail)} PROVE FALSE
      OBVIOUS
    <3>1. len = n + 2 /\ tail = SubSeq(bits, 3, n + 2)
      BY <1>0, <1>1
    <3>2. bits = Wrapped(tail)
      <4>1. bits # tail
        <5>1. Len(bits) = n + 2 /\ Len(tail) = n /\ n + 2 # n
          BY <1>0, <3>1
        <5> QED
          BY <5>1
      <4> QED
        BY <4>1
    <3>3. Len(bits) = n + 2 /\ bits = Wrapped(SubSeq(bits, 3, n + 2))
      BY <1>0, <3>1, <3>2
    <3>4. bits[1] = Octets /\ bits[2] = n
      BY <3>3, WrappedIff
    <3> QED
      BY <1>7, <3>1, <3>4
  <2>4. KeysIn(bits, n) = {}
    BY <1>0, <1>1, <1>7, <2>3 DEF KeysIn
  <2> QED
    BY <2>2, <2>4
<1> QED
  BY <1>5, <1>6, <1>7

\* The OIDs found are those of the tables.
LEMMA Families ==
  ASSUME NEW o
  PROVE  /\ gostAlgoFromSigOID(o) # "none" <=> o \in DOMAIN SigOIDs
         /\ o \in DOMAIN SigOIDs => gostAlgoFromSigOID(o) = SigOIDs[o]
         /\ gostAlgoFromPubKeyOID(o) # "none" <=> o \in DOMAIN KeyOIDs
         /\ o \in DOMAIN KeyOIDs => gostAlgoFromPubKeyOID(o) = KeyOIDs[o]
  BY ParseAssumption DEF gostAlgoFromSigOID, gostAlgoFromPubKeyOID

\* What ParsedExact says of one certificate.
ParsedAs(der, r) ==
  LET gostKey == der.key \in DOMAIN KeyOIDs
      gostSig == der.sig \in DOMAIN SigOIDs
      keys    == KeysIn(der.bits, 2 * PointSize[der.params.oid])
      readable == /\ der.params.kind \in {"oid", "sequence"} /\ der.params.oid \in DOMAIN PointSize
                  /\ keys # {}
  IN  IF ~der.wellFormed \/ der.trailing THEN r = Refused
      ELSE IF ~gostKey THEN r = IF gostSig THEN Refused ELSE NonGOST
      ELSE IF ~readable THEN r = Refused
      ELSE /\ keys = {r.PubKeyRaw} /\ r.CurveOID = der.params.oid
           /\ r.GOSTAlgo = KeyOIDs[der.key] /\ r.HasGOSTPubKey
           /\ r.IsGOST = gostSig /\ (gostSig => r.SigGOSTAlgo = SigOIDs[der.sig])

\* Every certificate (parse.go:161-260).
LEMMA ParsedCertificate ==
  ASSUME NEW der \in Certificates, der # Empty
  PROVE  ParsedAs(der, ParseCertificate(der))
<1> DEFINE r == ParseCertificate(der)
           sig == gostAlgoFromSigOID(der.sig)
           key == gostAlgoFromPubKeyOID(der.key)
           curve == parseCurveOID(der.params)
           raw == extractGOSTPubKeyBytes(der.bits, 2 * PointSize[curve])
<1>1. der.wellFormed \in BOOLEAN /\ der.trailing \in BOOLEAN /\ der.bits \in Seq(Nat)
  BY ParseAssumption
<1>2. r = IF ~der.wellFormed \/ der.trailing THEN Refused
          ELSE IF sig # "none" /\ key = "none" THEN Refused
          ELSE IF key = "none" THEN NonGOST
          ELSE IF curve \notin DOMAIN PointSize THEN Refused
          ELSE IF raw = NoKey THEN Refused
          ELSE [IsGOST |-> sig # "none", HasGOSTPubKey |-> TRUE, GOSTAlgo |-> key, SigGOSTAlgo |-> sig,
                PubKeyRaw |-> raw, CurveOID |-> curve]
  BY DEF ParseCertificate
<1>3. /\ sig # "none" <=> der.sig \in DOMAIN SigOIDs
      /\ der.sig \in DOMAIN SigOIDs => sig = SigOIDs[der.sig]
      /\ key # "none" <=> der.key \in DOMAIN KeyOIDs
      /\ der.key \in DOMAIN KeyOIDs => key = KeyOIDs[der.key]
  BY Families
<1>4. curve \in DOMAIN PointSize <=> der.params.kind \in {"oid", "sequence"} /\ der.params.oid \in DOMAIN PointSize
  BY ParseAssumption DEF parseCurveOID
<1>5. CASE ~der.wellFormed \/ der.trailing
  BY <1>2, <1>5 DEF ParsedAs
<1>6. CASE ~(~der.wellFormed \/ der.trailing) /\ der.key \notin DOMAIN KeyOIDs
  BY <1>2, <1>3, <1>6 DEF ParsedAs
<1>7. CASE ~(~der.wellFormed \/ der.trailing) /\ der.key \in DOMAIN KeyOIDs /\ curve \notin DOMAIN PointSize
  BY <1>2, <1>3, <1>4, <1>7 DEF ParsedAs
<1>8. CASE ~(~der.wellFormed \/ der.trailing) /\ der.key \in DOMAIN KeyOIDs /\ curve \in DOMAIN PointSize
  <2>1. curve = der.params.oid /\ PointSize[curve] \in Nat \ {0}
    BY <1>4, <1>8, ParseAssumption DEF parseCurveOID
  <2>2. PICK size \in Nat \ {0} : size = 2 * PointSize[curve]
    BY <2>1
  <2> DEFINE keys == KeysIn(der.bits, size)
  <2>3. IF keys = {} THEN raw = NoKey ELSE raw # NoKey /\ keys = {raw}
    BY <1>1, <2>2, ExtractExact
  <2>4. keys = KeysIn(der.bits, 2 * PointSize[der.params.oid])
    BY <2>1, <2>2
  <2>5. CASE keys = {}
    BY <1>2, <1>3, <1>8, <2>3, <2>4, <2>5 DEF ParsedAs
  <2>6. CASE keys # {}
    <3>1. r = [IsGOST |-> sig # "none", HasGOSTPubKey |-> TRUE, GOSTAlgo |-> key, SigGOSTAlgo |-> sig,
               PubKeyRaw |-> raw, CurveOID |-> curve]
      BY <1>2, <1>3, <1>8, <2>3, <2>6
    <3>2. /\ keys = {r.PubKeyRaw} /\ r.CurveOID = der.params.oid /\ r.GOSTAlgo = KeyOIDs[der.key]
          /\ r.HasGOSTPubKey /\ r.IsGOST = (der.sig \in DOMAIN SigOIDs)
          /\ (der.sig \in DOMAIN SigOIDs => r.SigGOSTAlgo = SigOIDs[der.sig])
      BY <1>3, <1>8, <2>1, <2>3, <2>6, <3>1
    <3>3. /\ ~(~der.wellFormed \/ der.trailing) /\ der.key \in DOMAIN KeyOIDs
          /\ der.params.kind \in {"oid", "sequence"} /\ der.params.oid \in DOMAIN PointSize
      BY <1>4, <1>8
    <3> HIDE DEF r, keys, curve
    <3>4. ParsedAs(der, r)
      BY <2>4, <2>6, <3>2, <3>3, Zenon DEF ParsedAs
    <3> QED
      BY <3>4 DEF r
  <2> QED
    BY <2>5, <2>6
<1> QED
  BY <1>5, <1>6, <1>7, <1>8

\* ParseCertificate finds the public key its issuer encoded, refuses what
\* encodes none, and takes each algorithm from its own OID (parse.go:161-387).
THEOREM ParsesExactly == ParseSpec => []ParsedExact
<1>1. CallInit => ParsedExact
  BY DEF CallInit, NoCall, ParsedExact
<1>2. ASSUME ParsedExact, [ParseNext]_<<call, result>> PROVE ParsedExact'
  <2>1. CASE ParseNext
    <3>1. PICK der \in Certificates : ParseCall(der)
      BY <2>1 DEF ParseNext
    <3>2. call' = [op |-> "parse", der |-> der] /\ result' = ParseCertificate(der)
      BY <3>1 DEF ParseCall, Made
    <3>3. call'.der = der
      BY <3>2
    <3>4. der # Empty => ParsedAs(der, result')
      BY <3>2, ParsedCertificate
    <3> QED
      BY <3>3, <3>4 DEF ParsedExact, ParsedAs, KeysIn
  <2>2. CASE UNCHANGED <<call, result>>
    BY <1>2, <2>2 DEF ParsedExact
  <2> QED
    BY <1>2, <2>1, <2>2
<1> QED
  BY <1>1, <1>2, PTL DEF ParseSpec
=============================================================================
