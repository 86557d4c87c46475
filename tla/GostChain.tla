----------------------------- MODULE GostChain -----------------------------
(***************************************************************************)
(* x509gost/verify.go: Certificate.Verify on a GOST leaf.  The recursive   *)
(* search of buildGOSTChainRec is an explicit stack (path, at): one frame  *)
(* per pending call, holding the call's child certificate and the index of *)
(* the next candidate of its two loops, roots first, intermediates after.  *)
(*                                                                         *)
(* Data abstraction.  A certificate is an identifier, equal exactly when   *)
(* the raw bytes are; Cert gives its parsed fields.  Names are atoms, the  *)
(* validity period is its relation to the time of the call, a signature is *)
(* the key it verifies under, and a name constraint is the set of names it *)
(* permits or excludes.                                                    *)
(***************************************************************************)
EXTENDS Integers, Sequences, Functions

CONSTANTS
  Ids,          \* certificates
  Cert,         \* Cert[c]: the parsed fields of c, see CertType
  Names,        \* DNS names, subject and issuer names
  MaxDepth,     \* maxGOSTChainDepth
  Requests      \* the VerifyOptions tried: [leaf, roots, inters, dns, eku]

NoName == "none"
Any    == "any"   \* x509.ExtKeyUsageAny

CertType ==
  [gost   : BOOLEAN,                       \* IsGOST
   subj   : Names, iss : Names,            \* RawSubject, RawIssuer
   key    : Int, sig : Int,                \* public key, key the signature verifies under
   when   : {"early", "now", "late"},      \* CurrentTime relative to the validity period
   bc     : {"absent", "ca", "leaf"},      \* BasicConstraints
   maxPath : Int,                          \* MaxPathLen, negative when unset
   ku     : {"absent", "sign", "other"},   \* KeyUsage
   eku    : SUBSET {"any", "server", "client", "unknown"}, \* with UnknownExtKeyUsage
   crit   : BOOLEAN,                       \* UnhandledCriticalExtensions
   sans   : SUBSET Names,                  \* names in the subjectAltName
   permit : SUBSET Names,                  \* Names without constraints, else those that
                                           \* parse and lie in the permitted subtrees
   exclude : SUBSET Names]

ASSUME CertAssumption  == Cert \in [Ids -> CertType]
ASSUME DepthAssumption == MaxDepth \in Nat \ {0}
ASSUME RequestAssumption ==
  \A r \in Requests : /\ r.leaf \in Ids /\ r.roots \in Seq(Ids) /\ r.inters \in Seq(Ids)
                      /\ r.eku \subseteq {"any", "server", "client"}

VARIABLES
  req,          \* the request being verified
  phase,        \* "entry", "search", "validate" or "done"
  path,         \* child of every pending buildGOSTChainRec call, outermost first
  at,           \* next candidate of every pending call
  sawNonGOST,   \* a non-GOST candidate was skipped
  chain,        \* the chain found, leaf first
  verdict       \* "pending", "ok", "stdlib" or the error returned

vars == <<req, phase, path, at, sawNonGOST, chain, verdict>>

Results == {"pending", "ok", "stdlib", "rootsEmpty", "notYetValid", "expired", "hostname",
            "ekuMismatch", "mixedChain", "noChain", "criticalExt", "pathLen", "nameConstraint"}

-----------------------------------------------------------------------------
(* Helpers *)

leafSatisfiesKeyUsages(leaf, requested) ==
  \/ requested = {}
  \/ Cert[leaf].eku = {}
  \/ Any \in Cert[leaf].eku
  \/ Any \in requested
  \/ requested \cap Cert[leaf].eku # {}

issuerIsCA(p) == Cert[p].bc # "leaf" /\ Cert[p].ku # "other"

verifyGOSTSignature(child, parent) ==
  Cert[child].gost /\ Cert[parent].gost /\ Cert[child].sig = Cert[parent].key

signerOf(parent, child) ==
  /\ Cert[parent].subj = Cert[child].iss
  /\ Cert[parent].when = "now"
  /\ issuerIsCA(parent)
  /\ verifyGOSTSignature(child, parent)

applyNameConstraints(ca, cert) ==
  /\ Cert[cert].sans \subseteq Cert[ca].permit
  /\ Cert[cert].sans \cap Cert[ca].exclude = {}

\* Certificate number i of ch (1 is the leaf) against the constraints.
PathLenOK(ch, i) ==
  Cert[ch[i]].bc # "absent" /\ Cert[ch[i]].maxPath >= 0 => i - 2 <= Cert[ch[i]].maxPath

\* Mutant: name constraints bind the certificate directly below only.
CertErrorDirect(ch, i) ==
  IF Cert[ch[i]].crit THEN "criticalExt"
  ELSE IF ~PathLenOK(ch, i) THEN "pathLen"
  ELSE IF i > 1 /\ ~applyNameConstraints(ch[i], ch[i - 1]) THEN "nameConstraint"
  ELSE "ok"

CertError(ch, i) ==
  IF Cert[ch[i]].crit THEN "criticalExt"
  ELSE IF ~PathLenOK(ch, i) THEN "pathLen"
  ELSE IF \E j \in 1..(i - 1) : ~applyNameConstraints(ch[i], ch[j]) THEN "nameConstraint"
  ELSE "ok"

\* The error of the first offending certificate, leaf upwards.
validateGOSTChainConstraints(ch) ==
  LET bad == {i \in DOMAIN ch : CertError(ch, i) # "ok"}
  IN  IF bad = {} THEN "ok"
      ELSE CertError(ch, CHOOSE i \in bad : \A j \in bad : i <= j)

-----------------------------------------------------------------------------
Init ==
  /\ req \in Requests
  /\ phase = "entry" /\ path = <<>> /\ at = <<>>
  /\ sawNonGOST = FALSE /\ chain = <<>> /\ verdict = "pending"

Finish(r) == phase' = "done" /\ verdict' = r

\* The checks of Verify on the leaf itself, in the order of the code.
EntryResult ==
  LET c == Cert[req.leaf]
  IN  IF ~c.gost THEN "stdlib"
      ELSE IF req.roots = <<>> THEN "rootsEmpty"
      ELSE IF c.when = "early" THEN "notYetValid"
      ELSE IF c.when = "late" THEN "expired"
      ELSE IF req.dns # NoName /\ req.dns \notin c.sans THEN "hostname"
      ELSE IF ~leafSatisfiesKeyUsages(req.leaf, req.eku) THEN "ekuMismatch"
      ELSE "pending"

VerifyRejects ==
  /\ phase = "entry" /\ EntryResult # "pending"
  /\ Finish(EntryResult)
  /\ UNCHANGED <<req, path, at, sawNonGOST, chain>>

buildGOSTChain ==
  /\ phase = "entry" /\ EntryResult = "pending"
  /\ phase' = "search" /\ path' = <<req.leaf>> /\ at' = <<1>>
  /\ UNCHANGED <<req, sawNonGOST, chain, verdict>>

\* The innermost pending call: its child, its next candidate, its depthLeft.
Child == path[Len(path)]
Pos == at[Len(at)]
Roots == Len(req.roots)
Pool(r) == r.roots \o r.inters
Candidates == Pool(req)
Candidate == Candidates[Pos]
\* Mutant: one call too many.
DepthLeftOneMore == MaxDepth - Len(path) + 2

DepthLeft == MaxDepth - Len(path) + 1
Searching == phase = "search" /\ Len(path) > 0

Advanced == [at EXCEPT ![Len(at)] = @ + 1]

\* Mutants: a non-GOST certificate ends the loops; only non-GOST roots are noted.
SkipNonGOSTBreaks ==
  /\ Searching /\ Pos <= Len(Candidates) /\ ~Cert[Candidate].gost
  /\ sawNonGOST' = TRUE
  /\ at' = [at EXCEPT ![Len(at)] = Len(Candidates) + 1]
  /\ UNCHANGED <<req, phase, path, chain, verdict>>
SkipNonGOSTSilent ==
  /\ Searching /\ Pos <= Len(Candidates) /\ ~Cert[Candidate].gost
  /\ sawNonGOST' = (sawNonGOST \/ Pos <= Roots)
  /\ at' = Advanced
  /\ UNCHANGED <<req, phase, path, chain, verdict>>

SkipNonGOST ==
  /\ Searching /\ Pos <= Len(Candidates) /\ ~Cert[Candidate].gost
  /\ sawNonGOST' = TRUE
  /\ at' = Advanced
  /\ UNCHANGED <<req, phase, path, chain, verdict>>

\* For an intermediate also the loop guard certEqual(inter, child).
Accepts ==
  /\ Pos > Roots => Candidate # Child
  /\ signerOf(Candidate, Child)

SkipNotSigner ==
  /\ Searching /\ Pos <= Len(Candidates) /\ Cert[Candidate].gost /\ ~Accepts
  /\ at' = Advanced
  /\ UNCHANGED <<req, phase, path, sawNonGOST, chain, verdict>>

RootFound ==
  /\ Searching /\ Pos <= Roots /\ Cert[Candidate].gost /\ Accepts
  /\ chain' = Append(path, Candidate)
  /\ phase' = "validate"
  /\ UNCHANGED <<req, path, at, sawNonGOST, verdict>>

Bridge ==
  /\ Searching /\ Pos > Roots /\ Pos <= Len(Candidates) /\ Cert[Candidate].gost /\ Accepts

\* Mutant: the caller tries the same intermediate again.
DescendAgain ==
  /\ Bridge /\ DepthLeft - 1 > 0
  /\ path' = Append(path, Candidate)
  /\ at' = Append(at, 1)
  /\ UNCHANGED <<req, phase, sawNonGOST, chain, verdict>>

\* The recursive call on the intermediate: nil at once when no depth is left.
Descend ==
  /\ Bridge /\ DepthLeft - 1 > 0
  /\ path' = Append(path, Candidate)
  /\ at' = Append(Advanced, 1)
  /\ UNCHANGED <<req, phase, sawNonGOST, chain, verdict>>

TooDeep ==
  /\ Bridge /\ DepthLeft - 1 <= 0
  /\ at' = Advanced
  /\ UNCHANGED <<req, phase, path, sawNonGOST, chain, verdict>>

Front(s) == SubSeq(s, 1, Len(s) - 1)

\* Both loops are exhausted: the call returns nil to its caller.
Backtrack ==
  /\ Searching /\ Pos > Len(Candidates)
  /\ path' = Front(path) /\ at' = Front(at)
  /\ IF Len(path) = 1
     THEN Finish(IF sawNonGOST THEN "mixedChain" ELSE "noChain")
     ELSE UNCHANGED <<phase, verdict>>
  /\ UNCHANGED <<req, sawNonGOST, chain>>

Validate ==
  /\ phase = "validate"
  /\ Finish(validateGOSTChainConstraints(chain))
  /\ UNCHANGED <<req, path, at, sawNonGOST, chain>>

Step == \/ VerifyRejects \/ buildGOSTChain
        \/ SkipNonGOST \/ SkipNotSigner \/ RootFound \/ Descend \/ TooDeep \/ Backtrack
        \/ Validate

\* Verify has returned.
Returned == phase = "done" /\ UNCHANGED vars

Next == Step \/ Returned

Spec == Init /\ [][Next]_vars

\* Verify is sequential code: it keeps running until it returns.
FairSpec == Spec /\ WF_vars(Step)

-----------------------------------------------------------------------------
(* Properties *)

\* The pending calls and their loop indices stay in step, and what the search
\* holds are certificates of the request (verify.go:376-426).
TypeOK ==
  /\ req.leaf \in Ids /\ req.roots \in Seq(Ids) /\ req.inters \in Seq(Ids)
  /\ phase \in {"entry", "search", "validate", "done"}
  /\ path \in Seq(Ids) /\ at \in Seq(Nat \ {0}) /\ Len(at) = Len(path)
  /\ sawNonGOST \in BOOLEAN /\ chain \in Seq(Ids) /\ verdict \in Results

Links(s) == \A i \in 1..(Len(s) - 1) : signerOf(s[i + 1], s[i])

\* ch starts at the leaf, ends in a root, goes through intermediates only, and
\* every certificate is signed by the next one, a live CA.
PathTo(r, ch) ==
  /\ Len(ch) >= 2 /\ ch[1] = r.leaf /\ ch[Len(ch)] \in Range(r.roots)
  /\ \A i \in 2..(Len(ch) - 1) : ch[i] \in Range(r.inters)
  /\ Links(ch)

\* A chain that Verify returns is anchored, signed link by link by certificates
\* that are live CAs, free of unhandled critical extensions, and respects every
\* path length and name constraint above each of its certificates
\* (verify.go:91-116).
ChainSound ==
  verdict = "ok" =>
    /\ PathTo(req, chain)
    /\ \A i \in DOMAIN chain :
         /\ ~Cert[chain[i]].crit
         /\ PathLenOK(chain, i)
         /\ \A j \in 1..(i - 1) : applyNameConstraints(chain[i], chain[j])

\* A chain found has at most maxGOSTChainDepth links.
ChainBounded == Len(chain) <= MaxDepth + 1

\* The recursion is never deeper than maxGOSTChainDepth calls, and completes no chain
\* of more links: the bound of buildGOSTChainRec's comment (verify.go:372-374), in
\* which the root is not counted.  The bound that Verify documents counts it: see
\* DocumentedDepth.
DepthBounded == Len(path) <= MaxDepth /\ ChainBounded

\* The pending calls spell a signed path up from the leaf, no deeper than the
\* bound, and a chain waiting for validation is such a path with a root on top.
SearchInv ==
  /\ phase = "entry" => verdict = "pending" /\ path = <<>>
  /\ phase = "search" => verdict = "pending" /\ Len(path) > 0
  /\ phase = "validate" => verdict = "pending" /\ PathTo(req, chain)
  /\ phase \in {"entry", "search"} => chain = <<>>
  /\ Len(path) > 0 =>
       /\ path[1] = req.leaf /\ Len(path) <= MaxDepth
       /\ \A i \in 2..Len(path) : path[i] \in Range(req.inters)
       /\ Links(path)

\* The strengthening of ChainSound and DepthBounded that every step preserves
\* (verify.go:376-426).
IInv == TypeOK /\ SearchInv /\ ChainSound /\ ChainBounded

\* No certificate path with at most d certificates below the root leads from c,
\* the first of them, to a root.
NoPath(r, c, d) ==
  \A n \in 0..(d - 1) : \A mid \in [1..n -> Range(r.inters)], a \in Range(r.roots) :
    ~Links(<<c>> \o mid \o <<a>>)

\* A failed search means there was nothing to find: no path of that depth leads
\* from the leaf to a root through the pools, in whatever order and however
\* mixed with non-GOST certificates they were given (verify.go:260-263).
SearchComplete ==
  verdict \in {"noChain", "mixedChain"} => NoPath(req, req.leaf, MaxDepth)

\* The mixed-chain error of a failed search names its obstacle: it is returned
\* exactly when a pool holds a non-GOST certificate (verify.go:286-303).
MixedChainExplained ==
  verdict \in {"noChain", "mixedChain"} =>
    (verdict = "mixedChain" <=> \E j \in 1..Len(Candidates) : ~Cert[Candidates[j]].gost)

\* Candidate j of a call on c with depthLeft d leads nowhere.
Dismissed(r, c, d, j) ==
  /\ j <= Len(r.roots) => ~signerOf(Pool(r)[j], c)
  /\ j > Len(r.roots) /\ signerOf(Pool(r)[j], c) =>
       Pool(r)[j] = c \/ NoPath(r, Pool(r)[j], d - 1)

\* The pending calls p with candidate indices t have dismissed what they are done
\* with, and all but the innermost wait for the call on the candidate before
\* their index.
Explored(r, p, t) ==
  \A i \in 1..Len(p) :
    /\ t[i] <= Len(Pool(r)) + 1
    /\ \A j \in 1..(IF i < Len(p) THEN t[i] - 2 ELSE t[i] - 1) :
         Dismissed(r, p[i], MaxDepth - i + 1, j)
    /\ i < Len(p) => t[i] - 1 > Len(r.roots) /\ Pool(r)[t[i] - 1] = p[i + 1]

ExploredInv ==
  /\ phase = "entry" => ~sawNonGOST
  /\ phase = "search" =>
       /\ Explored(req, path, at)
       /\ \A j \in 1..(at[1] - 1) : ~Cert[Candidates[j]].gost => sawNonGOST
       /\ sawNonGOST => \E j \in 1..Len(Candidates) : ~Cert[Candidates[j]].gost

\* The strengthening of SearchComplete and MixedChainExplained that every step
\* preserves: pending calls have dismissed, for good, every candidate before
\* their index, and a non-GOST one was noted when it was passed
\* (verify.go:386-425).
CInv == IInv /\ ExploredInv /\ SearchComplete /\ MixedChainExplained

\* Verify returns, however certificates sign each other in circles
\* (verify.go:383-385, 409-411).
Terminates == <>(phase = "done")

-----------------------------------------------------------------------------
(* What comments of verify.go say of the program and the code does not do *)

\* verify.go:118-120: a leaf that is one of the roots is accepted as a chain of
\* one element, with no self-signature check.
AnchorIsOneElementChain ==
  phase = "done" /\ EntryResult = "pending" /\ req.leaf \in Range(req.roots)
    => verdict = "ok" /\ chain = <<req.leaf>>

\* verify.go:122-123: at most maxGOSTChainDepth certificates, the leaf included, are
\* traversed, and a deeper hierarchy does not verify.
DocumentedDepth == verdict = "ok" => Len(chain) <= MaxDepth

\* verify.go:409-410: an intermediate must not re-appear.
NoCertificateTwice ==
  verdict = "ok" => \A i, j \in 2..(Len(chain) - 1) : chain[i] = chain[j] => i = j
=============================================================================
