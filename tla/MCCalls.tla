------------------------------ MODULE MCCalls -------------------------------
(* One call of a function that keeps no state: of Kuznyechik, of the ciphers  *)
(* and MACs of Gost28147, a derivation or export of KeyMaterial, the matching *)
(* of names, or the certificate parser.                                       *)
EXTENDS Kuznyechik, Gost28147, KeyMaterial, CertNames, CertParse

\* Kuznyechik
MCPi == [b \in 0..15 |-> <<12, 4, 6, 2, 10, 5, 11, 9, 14, 8, 13, 7, 0, 3, 15, 1>>[b + 1]]
MCLc == <<9, 2, 13, 1>>
MCKeys == {<<<<1, 15, 8, 7>>, <<0, 5, 10, 3>>>>, <<<<1, 15, 8, 7>>>>}
MCBlocks == {<<x, y, y, x>> : x, y \in 0..15} \cup {<<1, 2, 3>>}
MCCounters == {<<0, 15, 15, 14>>, <<15, 15, 15, 15>>, <<3, 0, 7, 15>>}
MCMemory == <<5, 0, 15, 9, 1, 8, 8, 3, 14, 2, 7, 12, 0, 6, 6, 10, 15, 4>>
MCLengths == {0, 3, 4, 5, 8, 12}

\* Gost28147
MCSbox == << [n \in 0..3 |-> <<2, 0, 3, 1>>[n + 1]], [n \in 0..3 |-> <<1, 3, 0, 2>>[n + 1]],
             [n \in 0..3 |-> <<3, 2, 0, 1>>[n + 1]], [n \in 0..3 |-> <<0, 2, 1, 3>>[n + 1]] >>
MCMeshingKey == <<6, 9, 0, 7, 2, 12, 4, 8>>
MCFeistelKeys == {<<1, 15, 8, 7, 0, 5, 10, 3>>, <<9, 2, 14, 4, 4, 11, 0, 13>>, <<1, 2, 3>>}
MCFeistelBlocks == {<<1, 2, 3>>} \cup {<<x, y, 15, 3 * (x % 5)>> : x, y \in 0..15}
MCMessages == {[i \in 1..n |-> (7 * i + c) % 16] : n \in 0..29, c \in {0, 3}}
MCUKMs == {<<x, y, 6, 15 - x>> : x, y \in {0, 1, 7, 15}} \cup {<<1, 2>>}

\* KeyMaterial: 60 and 64 are the last length the one byte counter numbers and
\* the next; a label continues another, and seeds end as lengths begin.
MCKdfKeys == {<<1, 2, 3, 4>>, <<4, 3, 2, 1>>}
MCKdfLabels == {<<>>, <<5>>, <<5, 1>>}
MCKdfSeeds == {<<>>, <<1>>, <<0>>, <<1, 1>>, <<0, 1, 0>>, <<5, 1, 0>>}
MCOutLens == {-4, 0, 3, 4, 8, 10, 12, 58, 60, 61, 64}
MCSuites == [Kuznyechik |-> <<4, 3, 1>>, Magma |-> <<5, 3, 2>>]
MCMasters == {<<1, 2, 3, 4>>, <<1, 2, 3>>}
MCUkmSources == [1..5 -> {0, 1}] \cup {<<1, 0, 0, 1>>, <<0, 0, 2, 0, 1>>, <<2, 0, 1, 2, 1>>}
MCVariants == [Kuznyechik |-> [block |-> 4, ivLen |-> 2, macLen |-> 4],
               Magma      |-> [block |-> 2, ivLen |-> 1, macLen |-> 2]]
MCSharedKeys == {[i \in 1..n |-> <<n, i>>] : n \in {0, 1, 2, 4, 30, 40}}
MCExportKeys == {<<1, 2, 3, 4>>, <<4, 4, 4, 4>>, <<4, 4>>}
MCExportIVs == {<<0>>, <<1>>, <<15>>, <<0, 15>>, <<1, 0>>, <<15, 15>>, <<0, 0>>}

\* CertNames
Strings(B, n) == UNION {[1..k -> B] : k \in 0..n}

MCMailboxes == Strings({"x", ".", "@", "q", "s"}, 5) \cup Strings({"x", "b", "n", "@", "q", "s"}, 4)

\* No names and no constraints, to be overridden.
NoNames == [dns |-> <<>>, ip |-> <<>>, email |-> <<>>, uri |-> <<>>]
Free == [permitted |-> <<>>, excluded |-> <<>>]
NoLimits == [critical |-> FALSE, dns |-> Free, ip |-> Free, email |-> Free, uri |-> Free]

Only(field, name, limits) ==
  [leaf |-> [NoNames EXCEPT ![field] = <<name>>], ca |-> [NoLimits EXCEPT ![field] = limits]]
OneLimit(c) == {[permitted |-> <<c>>, excluded |-> <<>>], [permitted |-> <<>>, excluded |-> <<c>>]}

Long == {<<"y", ".", "x", ".", "X">>, <<"y", "x", ".", "y">>, <<"x", ".", "y">>, <<".", "x", ".", "y">>}
Domains == Strings({".", "x", "X"}, 3) \cup Long \cup {<<"b">>, <<"x", ".", "b">>}
Few == {<<>>, <<".">>, <<"x">>, <<".", "x">>, <<"y", ".", "X">>, <<"x", ".", ".">>}

Emails == {<<"x", "@", "x">>, <<"X", "@", "X">>, <<"x", "@", "y", ".", "x">>, <<"q", "x", "q", "@", "X">>,
           <<"x", "s", "@", "@", "x">>, <<".", "@", "x">>, <<"x", "@">>}
EmailLimits == Few \cup Emails \cup {<<"@", "x">>}

URIs == [kind : {"empty", "splitError", "ip"}, host : {<<"x">>}] \cup [kind : {"name"}, host : Domains]

IPs == {<<b>> : b \in SUBSET {1, 2}} \cup {<<a, b>> : a, b \in SUBSET {1, 2}}
Nets == {[ip |-> <<b>>, mask |-> <<m>>] : b \in SUBSET {1, 2}, m \in {{}, {2}, {1, 2}}}
        \cup {[ip |-> <<a, b>>, mask |-> <<{1, 2}, m>>] : a, b \in SUBSET {1, 2}, m \in {{}, {2}}}

\* Two names, two constraints, two families, and the flag of the extension.
Mixed == {[leaf |-> [NoNames EXCEPT !.dns = <<c, d>>, !.email = <<e>>],
           ca   |-> [NoLimits EXCEPT !.critical = crit, !.dns = [permitted |-> p, excluded |-> x]]] :
            c \in {<<"x">>, <<"y", ".", "x">>}, d \in Few, e \in {<<"x", "@", "x">>, <<"@">>}, crit \in BOOLEAN,
            p \in {<<>>} \cup {<<v, w>> : v, w \in Few}, x \in {<<>>, <<<<"y", ".", "x">>>>}}

MCNameChecks ==
  Mixed
  \cup UNION {{Only("dns", d, lim) : d \in Domains} : lim \in UNION {OneLimit(c) : c \in Domains}}
  \cup UNION {{Only("uri", u, lim) : u \in URIs} : lim \in UNION {OneLimit(c) : c \in Few}}
  \cup UNION {{Only("email", e, lim) : e \in Emails} : lim \in UNION {OneLimit(c) : c \in EmailLimits}}
  \cup UNION {{Only("ip", a, lim) : a \in IPs} : lim \in UNION {OneLimit(c) : c \in Nets}}

\* CertParse: curves with keys of 2 and 4 bytes: a key of 4 bytes may read as an OCTET
\* STRING of 2.
MCPointSize == [small |-> 1, large |-> 2]
MCSigOIDs == [sig2001 |-> "2001", sig256 |-> "2012-256", sig512 |-> "2012-512"]
MCKeyOIDs == [key2001 |-> "2001", key256 |-> "2012-256", key512 |-> "2012-512"]
Params == [kind : {"oid", "sequence", "absent", "other"}, oid : {"none"}]
          \cup [kind : {"oid", "sequence"}, oid : {"small", "large", "unknown"}]
Bits == Strings({2, 4}, 6)
MCCertificates ==
  {Empty}
  \cup [wellFormed : {TRUE}, trailing : {FALSE}, sig : {"sig256", "rsa"}, key : {"key256", "rsa"},
        params : [kind : {"oid"}, oid : {"small", "large"}], bits : Bits]
  \cup [wellFormed : BOOLEAN, trailing : BOOLEAN, sig : DOMAIN MCSigOIDs \cup {"rsa"},
        key : DOMAIN MCKeyOIDs \cup {"rsa"}, params : Params, bits : {<<>>, <<2, 4>>, <<4, 2, 4, 4>>}]

Init == KuzInit

Next == KuzNext \/ (UNCHANGED mem /\ (FeistelNext \/ MaterialNext \/ NamesNext \/ ParseNext))

Spec == Init /\ [][Next]_kuzVars
=============================================================================
