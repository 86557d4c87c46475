---------------------------- MODULE MCGostChain ----------------------------
(* A small PKI.  L, U and V are signed by A; A and B cross-sign each other;  *)
(* C, P, N and T are further certificates of the key of B, all issued by the *)
(* root R: a plain one, one with pathLen 0, a name-constrained one, one with *)
(* an unhandled critical extension; E and K would be issuers of L but have   *)
(* expired or are no CA; G and H are not GOST; D is signed by R directly.    *)
EXTENDS GostChain

MCNames == {"l", "a", "b", "r"}

Base == [gost |-> TRUE, subj |-> "b", iss |-> "r", key |-> 2, sig |-> 9, when |-> "now",
         bc |-> "ca", maxPath |-> -1, ku |-> "sign", eku |-> {}, crit |-> FALSE,
         sans |-> {}, permit |-> MCNames, exclude |-> {}]

Leaf == [Base EXCEPT !.subj = "l", !.iss = "a", !.key = 0, !.sig = 1, !.bc = "absent",
                     !.ku = "other", !.eku = {"server"}, !.sans = {"l"}]
IssuerA == [Base EXCEPT !.subj = "a", !.iss = "b", !.key = 1, !.sig = 2]

MCCert ==
  [L |-> Leaf,
   F |-> [Leaf EXCEPT !.when = "late"],
   Y |-> [Leaf EXCEPT !.when = "early", !.eku = {}],
   U |-> [Leaf EXCEPT !.eku = {"unknown"}],
   V |-> [Leaf EXCEPT !.eku = {}],
   D |-> [Leaf EXCEPT !.iss = "r", !.sig = 9, !.eku = {"any"}],
   A |-> IssuerA,
   B |-> [Base EXCEPT !.iss = "a", !.sig = 1],
   C |-> Base,
   P |-> [Base EXCEPT !.maxPath = 0],
   N |-> [Base EXCEPT !.permit = {"a", "b"}, !.ku = "absent"],
   T |-> [Base EXCEPT !.crit = TRUE, !.bc = "absent"],
   E |-> [IssuerA EXCEPT !.when = "late"],
   K |-> [IssuerA EXCEPT !.bc = "leaf"],
   G |-> [Base EXCEPT !.gost = FALSE],
   H |-> [Leaf EXCEPT !.gost = FALSE],
   R |-> [Base EXCEPT !.subj = "r", !.key = 9]]

MCIds == DOMAIN MCCert

\* Pools are slices: every order of up to k different certificates.
Pools(S, k) ==
  UNION {{s \in [1..n -> S] : \A i, j \in 1..n : i # j => s[i] # s[j]} : n \in 0..k}

Request(l, rs, is, d, e) == [leaf |-> l, roots |-> rs, inters |-> is, dns |-> d, eku |-> e]

\* Every leaf and option against small pools, then deep searches.
MCRequests ==
  {Request(l, rs, is, d, e) : l \in {"L", "F", "Y", "U", "V", "D", "H", "R"},
                              rs \in {<<>>, <<"R">>, <<"G">>, <<"G", "R">>},
                              is \in {<<>>, <<"A", "C">>},
                              d \in {NoName, "l", "r"},
                              e \in {{}, {"server"}, {"client"}, {"any", "client"}}}
  \cup
  {Request(l, rs, is, NoName, {}) : l \in {"L", "A", "R"},
                                    rs \in Pools({"R", "C", "G"}, 2),
                                    is \in Pools({"A", "B", "C", "P", "N", "T", "E", "K", "G"}, 3)}

\* The searches in which the comments and the code part ways.
CrossSigned == {Request("L", <<"R">>, is, NoName, {}) : is \in Pools({"A", "B", "C"}, 3)}
LoneAnchor  == {Request("C", <<"C">>, <<>>, NoName, {})}
=============================================================================
