----------------------------- MODULE CertParse -----------------------------
(***************************************************************************)
(* x509gost/parse.go: what ParseCertificate makes of a certificate.  A     *)
(* behaviour is one call.                                                  *)
(*                                                                         *)
(* A certificate is what the ASN.1 parsers of the standard library see of  *)
(* it: whether they accept it, the OIDs, the parameters and the bytes of   *)
(* the BIT STRING.  An OID names itself.  An OCTET STRING is the tag, one  *)
(* byte of length and the contents.                                        *)
(***************************************************************************)
EXTENDS Sequences, Integers, Calls

CONSTANTS
  PointSize,     \* PointSize[c]: coordinate size of registered curve c
  SigOIDs,       \* SigOIDs[o]: family of GOST signature OID o
  KeyOIDs,       \* KeyOIDs[o]: family of GOST public key OID o
  Certificates   \* certificates to be parsed

Empty == [sig |-> "empty"]     \* no input at all
Refused == [error |-> TRUE]    \* no certificate
NoKey == <<>>                  \* no public key
Octets == 4                    \* tag of an OCTET STRING

\* "none" stands for an OID that is not there, or not registered; no curve has
\* empty keys.
ASSUME ParseAssumption ==
  /\ "none" \notin DOMAIN PointSize /\ \A c \in DOMAIN PointSize : PointSize[c] \in Nat \ {0}
  /\ \A o \in DOMAIN SigOIDs : SigOIDs[o] # "none"
  /\ \A o \in DOMAIN KeyOIDs : KeyOIDs[o] # "none"
  /\ \A der \in Certificates \ {Empty} :
       der.wellFormed \in BOOLEAN /\ der.trailing \in BOOLEAN /\ der.bits \in Seq(Nat)

\* External: asn1.Unmarshal of an OCTET STRING that may be followed by more.
UnmarshalOctets(bits) ==
  IF Len(bits) < 2 THEN [ok |-> FALSE]
  ELSE IF bits[1] # Octets \/ bits[2] > Len(bits) - 2 THEN [ok |-> FALSE]
  ELSE [ok |-> TRUE, inner |-> SubSeq(bits, 3, bits[2] + 2), rest |-> SubSeq(bits, bits[2] + 3, Len(bits))]

\* Mutant: an OCTET STRING of any length is taken.
extractGOSTPubKeyBytesFirst(bits, wantLen) ==
  LET octets == UnmarshalOctets(bits)
  IN  IF octets.ok /\ octets.rest = <<>> THEN octets.inner
      ELSE IF Len(bits) # wantLen THEN NoKey ELSE bits

extractGOSTPubKeyBytes(bits, wantLen) ==
  LET octets == UnmarshalOctets(bits)
  IN  IF bits = <<>> THEN NoKey
      ELSE IF octets.ok /\ octets.rest = <<>> /\ Len(octets.inner) = wantLen THEN octets.inner
      ELSE IF Len(bits) # wantLen THEN NoKey
      ELSE bits

\* params.kind: the tag of the parameters; params.oid: the OID there, or the
\* first of the SEQUENCE, "none" if that does not parse as one.
parseCurveOID(params) ==
  IF params.kind \in {"oid", "sequence"} THEN params.oid ELSE "none"

gostAlgoFromSigOID(oid)    == IF oid \in DOMAIN SigOIDs THEN SigOIDs[oid] ELSE "none"
gostAlgoFromPubKeyOID(oid) == IF oid \in DOMAIN KeyOIDs THEN KeyOIDs[oid] ELSE "none"

NonGOST == [IsGOST |-> FALSE, HasGOSTPubKey |-> FALSE, GOSTAlgo |-> "none", SigGOSTAlgo |-> "none",
            PubKeyRaw |-> <<>>, CurveOID |-> "none"]

ParseCertificate(der) ==
  LET sigAlgo == gostAlgoFromSigOID(der.sig)
      pkAlgo  == gostAlgoFromPubKeyOID(der.key)
      curve   == parseCurveOID(der.params)
      raw     == extractGOSTPubKeyBytes(der.bits, 2 * PointSize[curve])
  IN  IF der = Empty THEN Refused
      ELSE IF ~der.wellFormed \/ der.trailing THEN Refused
      ELSE IF sigAlgo # "none" /\ pkAlgo = "none" THEN Refused
      ELSE IF pkAlgo = "none" THEN NonGOST
      ELSE IF curve \notin DOMAIN PointSize THEN Refused
      ELSE IF raw = NoKey THEN Refused
      ELSE [IsGOST |-> sigAlgo # "none", HasGOSTPubKey |-> TRUE, GOSTAlgo |-> pkAlgo, SigGOSTAlgo |-> sigAlgo,
            PubKeyRaw |-> raw, CurveOID |-> curve]

ParseCall(der) == Made([op |-> "parse", der |-> der], ParseCertificate(der))

ParseNext == Idle /\ \E der \in Certificates : ParseCall(der)

ParseSpec == CallInit /\ [][ParseNext]_<<call, result>>

-----------------------------------------------------------------------------
(* Properties *)

Wrapped(key) == <<Octets, Len(key)>> \o key

\* The public key of a parsed certificate is the one its issuer encoded, as an
\* OCTET STRING or bare, also when a bare key reads as an OCTET STRING by
\* accident; its length is that of its curve, and bytes that encode no key are
\* refused.  A certificate with a GOST signature has a GOST key, each algorithm
\* comes from its own OID, and any other one is left to the standard library
\* (parse.go:161-387).
ParsedExact ==
  call.op = "parse" /\ call.der # Empty =>
    LET der == call.der
        gostKey == der.key \in DOMAIN KeyOIDs
        gostSig == der.sig \in DOMAIN SigOIDs
        size    == 2 * PointSize[der.params.oid]
        keys    == {k \in {der.bits, SubSeq(der.bits, 3, Len(der.bits))} :
                      Len(k) = size /\ der.bits \in {k, Wrapped(k)}}
        readable == /\ der.params.kind \in {"oid", "sequence"} /\ der.params.oid \in DOMAIN PointSize
                    /\ keys # {}
    IN  IF ~der.wellFormed \/ der.trailing THEN result = Refused
        ELSE IF ~gostKey THEN result = IF gostSig THEN Refused ELSE NonGOST
        ELSE IF ~readable THEN result = Refused
        ELSE /\ keys = {result.PubKeyRaw} /\ result.CurveOID = der.params.oid
             /\ result.GOSTAlgo = KeyOIDs[der.key] /\ result.HasGOSTPubKey
             /\ result.IsGOST = gostSig /\ (gostSig => result.SigGOSTAlgo = SigOIDs[der.sig])
=============================================================================
