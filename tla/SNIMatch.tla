------------------------------ MODULE SNIMatch ------------------------------
(***************************************************************************)
(* The handshake-time SNI policy of the TLS server (src/tunnel/tls/        *)
(* server.go): isDomainNameMatched (lines 62-69) and the GetCertificate    *)
(* callback each handshake runs (89-111).  Names and patterns are          *)
(* sequences of characters; Go's len and slicing count bytes, which are    *)
(* characters for the ASCII names a ClientHello carries.                   *)
(*                                                                         *)
(* The configuration (the sni option, the certificate's Common Name and    *)
(* DNS names, verify_sni) is fixed when the server starts; each step is    *)
(* one ClientHello and the callback's answer to it.                        *)
(***************************************************************************)
EXTENDS Integers, Sequences, SequencesExt

CONSTANTS
    Alphabet,   \* the characters of names, "." among them
    MaxLen,     \* the longest server name a client sends
    Patterns    \* the patterns a configuration may hold

ASSUME "." \in Alphabet /\ MaxLen \in Nat

Dot == "."
Star == "*"

\* The server names a ClientHello may carry; <<>> is a hello without SNI.
ServerNames == BoundedSeq(Alphabet, MaxLen)

(***************************************************************************)
(* isDomainNameMatched(pattern, domainName).                               *)
(***************************************************************************)
\* A plausible slip: demand two characters before the suffix.
IsDomainNameMatchedOffByOne(pattern, domainName) ==
    IF IsPrefix(<<Star, Dot>>, pattern)
    THEN LET suffix == SubSeq(pattern, 3, Len(pattern))
             domainPrefixLen == Len(domainName) - Len(suffix) - 1
         IN  /\ IsSuffix(suffix, domainName)
             /\ domainPrefixLen > 1
             /\ ~Contains(SubSeq(domainName, 1, domainPrefixLen), Dot)
    ELSE pattern = domainName

IsDomainNameMatched(pattern, domainName) ==
    IF IsPrefix(<<Star, Dot>>, pattern)
    THEN LET suffix == SubSeq(pattern, 3, Len(pattern))
             domainPrefixLen == Len(domainName) - Len(suffix) - 1
         IN  /\ IsSuffix(suffix, domainName)
             /\ domainPrefixLen > 0
             /\ ~Contains(SubSeq(domainName, 1, domainPrefixLen), Dot)
    ELSE pattern = domainName

VARIABLES
    sni,        \* s.sni: the sni option, <<>> when unset
    commonName, \* s.keyPair[0].Leaf.Subject.CommonName
    dnsNames,   \* s.keyPair[0].Leaf.DNSNames, as a set
    verifySNI,  \* s.verifySNI
    hello,      \* hello.ServerName of the last ClientHello
    answer      \* what GetCertificate returned: "none", "cert" or "error"

vars == <<sni, commonName, dnsNames, verifySNI, hello, answer>>

\* The pattern GetCertificate checks first: the sni option, else the CN.
Expected == IF sni # <<>> THEN sni ELSE commonName

(***************************************************************************)
(* GetCertificate: matched when the expected name or any DNS name matches  *)
(* the hello's server name; with verify_sni an unmatched hello fails the   *)
(* handshake, otherwise the key pair is served.                            *)
(***************************************************************************)
GetCertificate(name) ==
    LET matched == \/ IsDomainNameMatched(Expected, name)
                   \/ \E p \in dnsNames : IsDomainNameMatched(p, name)
    IN  IF verifySNI /\ ~matched THEN "error" ELSE "cert"

Init ==
    /\ sni \in {<<>>} \cup Patterns
    /\ commonName \in Patterns
    /\ dnsNames \in SUBSET Patterns
    /\ verifySNI \in BOOLEAN
    /\ hello = <<>>
    /\ answer = "none"

ClientHello(name) ==
    /\ hello' = name
    /\ answer' = GetCertificate(name)
    /\ UNCHANGED <<sni, commonName, dnsNames, verifySNI>>

Next == \E name \in ServerNames : ClientHello(name)

Spec == Init /\ [][Next]_vars
-----------------------------------------------------------------------------
(***************************************************************************)
(* The reference meaning of a certificate name (spec.md 4.5 and the        *)
(* examples of 8.4): "*.S" stands for exactly one more DNS label in front  *)
(* of ".S"; any other pattern stands for itself.                           *)
(***************************************************************************)
Labels == {l \in BoundedSeq(Alphabet \ {Dot}, MaxLen) : l # <<>>}

Covers(pattern, name) ==
    IF Len(pattern) >= 2 /\ pattern[1] = Star /\ pattern[2] = Dot
    THEN \E l \in Labels : name = l \o Tail(pattern)
    ELSE name = pattern

CoveredByConfig(name) ==
    \E p \in {Expected} \cup dnsNames : Covers(p, name)

(***************************************************************************)
(* verify_sni never turns away a client whose server name the configured   *)
(* sni (or the certificate's CN) or one of the certificate's DNS names     *)
(* covers.                                                                 *)
(***************************************************************************)
NoFalseRejection ==
    answer # "none" /\ CoveredByConfig(hello) => answer = "cert"
=============================================================================
