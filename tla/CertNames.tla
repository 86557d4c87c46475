----------------------------- MODULE CertNames -----------------------------
(***************************************************************************)
(* x509gost/constraints.go: the names of a certificate against the name    *)
(* constraints of a CA above it.  A behaviour is one call.                 *)
(*                                                                         *)
(* A string is a sequence of characters of a small alphabet.  A URI is     *)
(* what net/url and net make of its host; an address is a sequence of      *)
(* bytes, a byte the set of its bits that are one.                         *)
(***************************************************************************)
EXTENDS Sequences, Integers, Calls

CONSTANTS
  Mailboxes,     \* strings handed to parseRFC2821Mailbox
  Requests       \* pairs of a leaf's names and a CA's constraints

Dot == "."
At  == "@"
Quote == "q"     \* the double quote
Slash == "s"     \* the backslash
Blank == "b"     \* the space: no part of a label
Never == "n"     \* a newline: no part of a quoted string either
Plain == {"x", "X", "y"}

\* strings.EqualFold
Lower(c) == IF c = "X" THEN "x" ELSE c
Folded(str) == [i \in 1..Len(str) |-> Lower(str[i])]
EqualFold(v, w) == Folded(v) = Folded(w)

Bad == [ok |-> FALSE]
Has(str, c) == \E i \in 1..Len(str) : str[i] = c
From(str, i) == SubSeq(str, i, Len(str))

-----------------------------------------------------------------------------
(* Domains. *)

\* Cut at the last dot until nothing is left.  A string that starts with a dot
\* ends in an empty label.
RECURSIVE ReverseLabels(_)
ReverseLabels(domain) ==
  IF domain = <<>> THEN <<>>
  ELSE IF ~Has(domain, Dot) THEN <<domain>>
  ELSE LET i == CHOOSE i \in 1..Len(domain) : domain[i] = Dot /\ ~Has(From(domain, i + 1), Dot)
       IN  <<From(domain, i + 1)>> \o (IF i = 1 THEN <<<<>>>> ELSE ReverseLabels(SubSeq(domain, 1, i - 1)))

domainToReverseLabels(domain) ==
  LET labels == ReverseLabels(domain)
  IN  IF \E i \in 1..Len(labels) : labels[i] = <<>> \/ Has(labels[i], Blank) \/ Has(labels[i], Never) THEN Bad
      ELSE [ok |-> TRUE, labels |-> labels]

domainNameValid(name) == domainToReverseLabels(name).ok

\* Mutant: a leading dot is dropped and forgotten.
matchDomainConstraintDotless(domain, constraint) ==
  LET base == IF constraint # <<>> /\ constraint[1] = Dot THEN From(constraint, 2) ELSE constraint
      d == domainToReverseLabels(domain)
      c == domainToReverseLabels(base)
  IN  IF constraint = <<>> THEN "yes"
      ELSE IF ~d.ok \/ ~c.ok THEN "error"
      ELSE IF Len(d.labels) < Len(c.labels) THEN "no"
      ELSE IF \A i \in 1..Len(c.labels) : EqualFold(c.labels[i], d.labels[i]) THEN "yes" ELSE "no"

matchDomainConstraint(domain, constraint) ==
  LET sub  == constraint # <<>> /\ constraint[1] = Dot
      base == IF sub THEN From(constraint, 2) ELSE constraint
      d == domainToReverseLabels(domain)
      c == domainToReverseLabels(base)
  IN  IF constraint = <<>> THEN "yes"
      ELSE IF ~d.ok \/ ~c.ok THEN "error"
      ELSE IF Len(d.labels) < Len(c.labels) \/ (sub /\ Len(d.labels) = Len(c.labels)) THEN "no"
      ELSE IF \A i \in 1..Len(c.labels) : EqualFold(c.labels[i], d.labels[i]) THEN "yes" ELSE "no"

-----------------------------------------------------------------------------
(* Mailboxes. *)

\* Where a local part ends: its characters and what follows it.
RECURSIVE QuotedString(_, _)
QuotedString(local, in) ==
  IF in = <<>> \/ in[1] = Never THEN Bad
  ELSE IF in[1] = Quote THEN [ok |-> TRUE, local |-> local, in |-> From(in, 2)]
  ELSE IF in[1] = Slash
  THEN IF Len(in) = 1 THEN Bad
       ELSE IF in[2] = Never THEN Bad
       ELSE QuotedString(Append(local, in[2]), From(in, 3))
  ELSE QuotedString(Append(local, in[1]), From(in, 2))

\* A backslash takes whatever character follows it.
RECURSIVE NextChar(_, _)
NextChar(local, in) ==
  IF in # <<>> /\ in[1] = Slash
  THEN IF Len(in) = 1 THEN Bad ELSE NextChar(Append(local, in[2]), From(in, 3))
  ELSE IF in # <<>> /\ in[1] \in Plain \cup {Dot}
  THEN NextChar(Append(local, in[1]), From(in, 2))
  ELSE [ok |-> TRUE, local |-> local, in |-> in]

\* No dot at either end, no two in a row.
DotAtom(local) ==
  /\ local # <<>> /\ local[1] # Dot /\ local[Len(local)] # Dot
  /\ \A i \in 1..(Len(local) - 1) : local[i] # Dot \/ local[i + 1] # Dot

\* Mutant: an escape in a quoted string keeps its backslash.
LocalPartRaw(in) ==
  IF in[1] = Quote
  THEN LET end == CHOOSE i \in 2..(Len(in) + 1) : (i > Len(in) \/ in[i] = Quote) /\ ~Has(SubSeq(in, 2, i - 1), Quote)
       IN  IF end > Len(in) THEN Bad
           ELSE [ok |-> TRUE, local |-> SubSeq(in, 2, end - 1), in |-> From(in, end + 1)]
  ELSE LET part == NextChar(<<>>, in) IN IF part.ok /\ DotAtom(part.local) THEN part ELSE Bad

LocalPart(in) ==
  IF in[1] = Quote THEN QuotedString(<<>>, From(in, 2))
  ELSE LET part == NextChar(<<>>, in) IN IF part.ok /\ DotAtom(part.local) THEN part ELSE Bad

parseRFC2821Mailbox(in) ==
  IF in = <<>> THEN Bad
  ELSE LET part == LocalPart(in)
       IN  IF ~part.ok THEN Bad
           ELSE IF part.in = <<>> \/ part.in[1] # At THEN Bad
           ELSE IF ~domainToReverseLabels(From(part.in, 2)).ok THEN Bad
           ELSE [ok |-> TRUE, local |-> part.local, domain |-> From(part.in, 2)]

matchEmailConstraint(mailbox, constraint) ==
  IF ~Has(constraint, At) THEN matchDomainConstraint(mailbox.domain, constraint)
  ELSE LET c == parseRFC2821Mailbox(constraint)
       IN  IF ~c.ok THEN "error"
           ELSE IF mailbox.local = c.local /\ EqualFold(mailbox.domain, c.domain) THEN "yes" ELSE "no"

-----------------------------------------------------------------------------
(* URIs and addresses. *)

\* uri.kind: what the host is, with or without a port.
matchURIConstraint(uri, constraint) ==
  IF uri.kind \in {"empty", "splitError", "ip"} THEN "error" ELSE matchDomainConstraint(uri.host, constraint)

matchIPConstraint(ip, net) ==
  IF Len(ip) # Len(net.mask) THEN "no"
  ELSE IF \A i \in 1..Len(ip) : ip[i] \cap net.mask[i] = net.ip[i] \cap net.mask[i] THEN "yes" ELSE "no"

-----------------------------------------------------------------------------
(* The call. *)

Match(family, name, constraint) ==
  CASE family = "dns"   -> matchDomainConstraint(name, constraint)
    [] family = "ip"    -> matchIPConstraint(name, constraint)
    [] family = "email" -> matchEmailConstraint(parseRFC2821Mailbox(name), constraint)
    [] family = "uri"   -> matchURIConstraint(name, constraint)

\* Excluded constraints first, then the permitted ones up to the first that
\* matches; an error on the way refuses the name.  No permitted constraint
\* permits all.
checkNameConstraints(family, name, permitted, excluded) ==
  LET Answers(seq) == [i \in 1..Len(seq) |-> Match(family, name, seq[i])]
      AllNo(answers, n) == \A i \in 1..n : answers[i] = "no"
  IN  /\ AllNo(Answers(excluded), Len(excluded))
      /\ \/ permitted = <<>>
         \/ LET a == Answers(permitted) IN \E i \in 1..Len(a) : a[i] = "yes" /\ AllNo(a, i - 1)

Parses(family, name) ==
  CASE family = "dns"   -> domainNameValid(name)
    [] family = "email" -> parseRFC2821Mailbox(name).ok
    [] OTHER            -> TRUE

Families == <<"dns", "ip", "email", "uri">>

Unconstrained(ca) ==
  ~ca.critical /\ \A k \in 1..4 : ca[Families[k]].permitted = <<>> /\ ca[Families[k]].excluded = <<>>

applyNameConstraints(ca, leaf) ==
  \/ Unconstrained(ca)
  \/ \A k \in 1..4 : \A i \in 1..Len(leaf[Families[k]]) :
       LET f == Families[k]
       IN  /\ Parses(f, leaf[f][i])
           /\ checkNameConstraints(f, leaf[f][i], ca[f].permitted, ca[f].excluded)

ConstraintsCall(q) ==
  Made([op |-> "names", ca |-> q.ca, leaf |-> q.leaf],
       IF applyNameConstraints(q.ca, q.leaf) THEN <<"ok">> ELSE Failed)

MailboxCall(in) == Made([op |-> "mailbox", in |-> in], parseRFC2821Mailbox(in))

NamesNext ==
  Idle /\ ((\E q \in Requests : ConstraintsCall(q)) \/ (\E in \in Mailboxes : MailboxCall(in)))

-----------------------------------------------------------------------------
(* Properties *)

\* Dots stand between labels, and labels are of printable characters.
Domain(str) ==
  /\ ~Has(str, Blank) /\ ~Has(str, Never)
  /\ \A i \in 1..Len(str) : str[i] = Dot => 1 < i /\ i < Len(str) /\ str[i - 1] # Dot

\* The subtree of c, as strings: c itself and what ends in a dot and c; of a c
\* that starts with a dot, what ends in c; of the dot alone, all with a label.
EndsWith(v, w) == Len(v) > Len(w) /\ From(v, Len(v) - Len(w) + 1) = w
Below(domain, c) ==
  LET d == Folded(domain)
      e == Folded(c)
  IN  IF c = <<Dot>> THEN d # <<>>
      ELSE IF c[1] = Dot THEN EndsWith(d, e)
      ELSE d = e \/ EndsWith(d, <<Dot>> \o e)

DomainMember(domain, c) ==
  IF c = <<>> THEN "yes"
  ELSE IF ~Domain(domain) \/ ~Domain(IF c[1] = Dot THEN From(c, 2) ELSE c) THEN "error"
  ELSE IF Below(domain, c) THEN "yes" ELSE "no"

\* The address has the network's bits wherever the mask has ones.
InNet(ip, net) ==
  Len(ip) = Len(net.mask) /\ \A i \in 1..Len(ip) : \A bit \in net.mask[i] : bit \in ip[i] <=> bit \in net.ip[i]

Member(f, name, c) ==
  CASE f = "dns" -> DomainMember(name, c)
    [] f = "ip"  -> IF InNet(name, c) THEN "yes" ELSE "no"
    [] f = "uri" -> IF name.kind # "name" THEN "error" ELSE DomainMember(name.host, c)
    [] f = "email" /\ ~Has(c, At) -> DomainMember(parseRFC2821Mailbox(name).domain, c)
    [] f = "email" /\ Has(c, At)  ->
         LET m == parseRFC2821Mailbox(name)
             e == parseRFC2821Mailbox(c)
         IN  IF ~e.ok THEN "error" ELSE IF <<m.local, Folded(m.domain)>> = <<e.local, Folded(e.domain)>> THEN "yes" ELSE "no"

\* A certificate passes a CA that constrains anything exactly when each of its
\* names, of every family, is well formed, in no excluded subtree and in a
\* permitted one if there are any: reversing labels and comparing them one by
\* one is the subtree of strings, case aside, and a constraint that is malformed
\* or cannot be applied never lets a name pass (constraints.go:50-160, 302-463).
NamesExact ==
  call.op = "names" =>
    LET Passes(f, name) ==
          LET perm == call.ca[f].permitted
              excl == call.ca[f].excluded
          IN  /\ f = "dns" => Domain(name)
              /\ f = "email" => parseRFC2821Mailbox(name).ok
              /\ \A i \in 1..Len(excl) : Member(f, name, excl[i]) = "no"
              /\ \/ perm = <<>>
                 \/ \E i \in 1..Len(perm) : /\ Member(f, name, perm[i]) = "yes"
                                            /\ \A j \in 1..(i - 1) : Member(f, name, perm[j]) = "no"
    IN  result = <<"ok">> <=>
          \/ Unconstrained(call.ca)
          \/ \A k \in 1..4 : \A i \in 1..Len(call.leaf[Families[k]]) : Passes(Families[k], call.leaf[Families[k]][i])

\* The mailbox as a quoted string with every character escaped.
RECURSIVE Escaped(_)
Escaped(str) == IF str = <<>> THEN <<>> ELSE <<Slash, str[1]>> \o Escaped(From(str, 2))
Written(m) == <<Quote>> \o Escaped(m.local) \o <<Quote, At>> \o m.domain

\* Parsing takes quotes and escapes away and nothing else: what was parsed,
\* written out with every character escaped, is the same mailbox; and a string
\* without them is a mailbox exactly when the part before its first @ is a dot
\* atom and the rest a domain (constraints.go:176-297).
MailboxExact ==
  call.op = "mailbox" =>
    /\ result.ok /\ ~Has(result.local, Never) => parseRFC2821Mailbox(Written(result)) = result
    /\ ~Has(call.in, Quote) /\ ~Has(call.in, Slash) =>
         (result.ok <=>
            \E i \in 1..Len(call.in) :
              /\ call.in[i] = At
              /\ \A j \in 1..(i - 1) : call.in[j] \in Plain \cup {Dot}
              /\ DotAtom(SubSeq(call.in, 1, i - 1)) /\ Domain(From(call.in, i + 1)))
=============================================================================
