--------------------------- MODULE HostnameChecker ---------------------------
(***************************************************************************)
(* sun.security.util.HostnameChecker: whether a certificate is valid for  *)
(* the host name a TLS or LDAP client expects.  A name that IPAddressUtil *)
(* takes for an IPv4 or IPv6 literal is compared with the certificate's   *)
(* iPAddress subject alternative names; any other name is checked with    *)
(* checkHostName (a local copy of IDN.toASCII with the STD3 rules) and    *)
(* matched against the dNSName alternative names, or, when there is none, *)
(* the most specific common name, with '*' wildcards.                     *)
(*                                                                         *)
(* A certificate is a record: san is Null (no extension) or the sequence  *)
(* of [type, value] pairs getSubjectAlternativeNames returns, in order;   *)
(* cn is Null or the most specific common name.  Strings are sequences   *)
(* of UTF-16 code units, as in IPAddressUtil.                             *)
(***************************************************************************)
EXTENDS IPAddressUtil

CONSTANTS
  MAX_LABEL_LENGTH,  \* 63 in the code
  ExpectedNames,     \* the names match is called with
  Certs              \* the certificates it is called with

TYPE_TLS   == 1
TYPE_LDAP  == 2
ALTNAME_DNS == 2
ALTNAME_IP  == 7

Star   == 42
Hyphen == 45
LowerZ == 122

(* The four characters toASCII takes for label separators. *)
LabelSeparators == {46, 12290, 65294, 65377}

(* Code units the inputs use that NFKC maps to something else (fullwidth 'a'). *)
CompatibilityChars == {65345}

(***************************************************************************)
(* toLowerCase(Locale.ENGLISH) and equalsIgnoreCase on the code units of  *)
(* the inputs: ASCII letters fold, the others are their own lower case.   *)
(***************************************************************************)
LowerChar(c) == IF c \in 65..90 THEN c + 32 ELSE c
ToLowerCase(s) == [k \in DOMAIN s |-> LowerChar(s[k])]
EqualsIgnoreCase(a, b) == ToLowerCase(a) = ToLowerCase(b)

(* String.indexOf(String): the first position of t in s, or -1. *)
IndexOfSeq(s, t) ==
  LET at == {i \in 0..(Len(s) - Len(t)) : SubSeq(s, i + 1, i + Len(t)) = t}
  IN IF at = {} THEN -1 ELSE CHOOSE i \in at : \A j \in at : i <= j

(***************************************************************************)
(* toASCIIInternal on one label, with USE_STD3_ASCII_RULES.  Nameprep and *)
(* Punycode (steps 2 and 4-7) apply only to labels that are not all ASCII; *)
(* no input reaches them.  An outcome is [ok, s].                          *)
(***************************************************************************)
IsAllASCII(s) == \A k \in DOMAIN s : s[k] <= 127

IsNonLDHAsciiCodePoint(ch) ==
  ch \in (0..44) \cup (46..47) \cup (58..64) \cup (91..96) \cup (123..127)

Fail   == [ok |-> FALSE, s |-> <<>>]
Ok(s)  == [ok |-> TRUE, s |-> s]

ToASCIIInternal(label) ==
  IF ~IsAllASCII(label) THEN Assert(FALSE, "nameprep is not modelled")
  ELSE IF label = <<>> THEN Fail
  ELSE IF \E k \in DOMAIN label : IsNonLDHAsciiCodePoint(label[k]) THEN Fail
  ELSE IF label[1] = Hyphen \/ label[Len(label)] = Hyphen THEN Fail
  ELSE IF Len(label) > MAX_LABEL_LENGTH THEN Fail
  ELSE Ok(label)

(* searchDots: the 0-based index of the first separator at or after start. *)
SearchDots(s, start) ==
  LET at == {i \in start..(Len(s) - 1) : s[i + 1] \in LabelSeparators}
  IN IF at = {} THEN Len(s) ELSE CHOOSE i \in at : \A j \in at : i <= j

IsRootLabel(s) == Len(s) = 1 /\ s[1] \in LabelSeparators

(* toASCII's loop: each label is converted, and a separator followed by   *)
(* more input (or ending it) becomes '.'.                                  *)
RECURSIVE ToASCIILoop(_, _, _)
ToASCIILoop(input, p, out) ==
  IF p >= Len(input) THEN Ok(out)
  ELSE LET q == SearchDots(input, p)
           r == ToASCIIInternal(SubSeq(input, p + 1, q))
       IN IF ~r.ok THEN Fail
          ELSE ToASCIILoop(input, q + 1, out \o r.s \o (IF q # Len(input) THEN <<Dot>> ELSE <<>>))

ToASCII(input) ==
  IF IsRootLabel(input) THEN Ok(<<Dot>>) ELSE ToASCIILoop(input, 0, <<>>)

(* checkHostName returns normally, or throws IllegalArgumentException (FALSE). *)
CheckHostName(hostname) ==
  LET r == ToASCII(hostname)
  IN r.ok /\ r.s # <<>> /\ r.s[Len(r.s)] # Dot

-----------------------------------------------------------------------------
(***************************************************************************)
(* matchWildCards: each run of the template before a '*' is found with    *)
(* indexOf in what is left of the name (the first at position 0), and the *)
(* name's rest must end with what follows the last '*'.                   *)
(***************************************************************************)
(* indexOf found no run, or the first run is not at the start. *)
WildcardMisplaced(isBeginning, beforeStartIdx) ==
  beforeStartIdx = -1 \/ (isBeginning /\ beforeStartIdx # 0)

RECURSIVE MatchWildCardsLoop(_, _, _, _)
MatchWildCardsLoop(name, afterWildcard, isBeginning, wildcardIdx) ==
  IF wildcardIdx = -1 THEN IsSuffix(afterWildcard, name)
  ELSE LET beforeWildcard == SubSeq(afterWildcard, 1, wildcardIdx)
           after          == SubSeq(afterWildcard, wildcardIdx + 2, Len(afterWildcard))
           beforeStartIdx == IndexOfSeq(name, beforeWildcard)
       IN IF WildcardMisplaced(isBeginning, beforeStartIdx) THEN FALSE
          ELSE MatchWildCardsLoop(SubSeq(name, beforeStartIdx + Len(beforeWildcard) + 1, Len(name)),
                                  after, FALSE, IndexOf(after, Star))

MatchWildCards(name, template) ==
  IF IndexOf(template, Star) = -1 THEN name = template
  ELSE MatchWildCardsLoop(name, template, TRUE, IndexOf(template, Star))

(* StringTokenizer(s, "."): the non-empty runs between dots. *)
Tokens(s) == SelectSeq(SplitOn(s, Dot), LAMBDA t : t # <<>>)

(* matchAllWildcards (RFC 2818): as many labels, each matching its template label. *)
MatchAllWildcards(name, template) ==
  LET n == Tokens(ToLowerCase(name))
      t == Tokens(ToLowerCase(template))
  IN Len(n) = Len(t) /\ \A k \in DOMAIN n : MatchWildCards(n[k], t[k])

(* matchLeftmostWildcard (RFC 2830): a wildcard only in the leftmost label. *)
MatchLeftmostWildcard(name, template) ==
  LET nm == ToLowerCase(name)
      tm == ToLowerCase(template)
      ti == IF IndexOf(tm, Dot) = -1 THEN Len(tm) ELSE IndexOf(tm, Dot)
      ni == IF IndexOf(nm, Dot) = -1 THEN Len(nm) ELSE IndexOf(nm, Dot)
  IN /\ MatchWildCards(SubSeq(nm, 1, ni), SubSeq(tm, 1, ti))
     /\ SubSeq(tm, ti + 1, Len(tm)) = SubSeq(nm, ni + 1, Len(nm))

(* isMatched: the template, with '*' read as 'z', must be a valid host name. *)
IsMatched(checkType, name, template) ==
  /\ CheckHostName(ReplaceAll(template, Star, LowerZ))
  /\ IF checkType = TYPE_TLS THEN MatchAllWildcards(name, template)
     ELSE checkType = TYPE_LDAP /\ MatchLeftmostWildcard(name, template)

(* Variant: only IPv4 literals are taken for addresses. *)
IsIpAddressV4Only(name) == IsIPv4LiteralAddress(name)

(* isIpAddress: IPAddressUtil's IPv4 or IPv6 literal test. *)
IsIpAddress(name) == IsIPv4LiteralAddress(name) \/ IsIPv6LiteralAddress(name)

(***************************************************************************)
(* InetAddress.getByName on two literals, compared with equals: the bytes *)
(* of textToNumericFormatV4, or else V6 (an IPv4-mapped IPv6 literal is   *)
(* an Inet4Address).  The alternative names are literals, so no lookup.   *)
(***************************************************************************)
AddressOf(s) ==
  IF TextToNumericFormatV4(s) # Null THEN TextToNumericFormatV4(s) ELSE TextToNumericFormatV6(s)
SameAddress(a, b) == AddressOf(a) # Null /\ AddressOf(a) = AddressOf(b)

AltNames(cert, type) ==
  IF cert.san = Null THEN <<>> ELSE SelectSeq(cert.san, LAMBDA n : n.type = type)

(* matchIP: TRUE returns, FALSE throws CertificateException. *)
MatchIP(expectedIP, cert) ==
  /\ cert.san # Null
  /\ \E k \in DOMAIN AltNames(cert, ALTNAME_IP) :
       LET ipAddress == AltNames(cert, ALTNAME_IP)[k].value
       IN EqualsIgnoreCase(expectedIP, ipAddress) \/ SameAddress(expectedIP, ipAddress)

(* Normalizer.isNormalized(cname, NFKC) on the inputs' code units. *)
IsNFKC(s) == \A k \in DOMAIN s : s[k] \notin CompatibilityChars

(* Variant: the common name is consulted even when dNSNames are present. *)
FoundDNSIgnored(dns) == FALSE

(* A dNSName alternative name rules out the common name. *)
FoundDNS(dns) == dns # <<>>

(***************************************************************************)
(* matchDNS: the expected name must pass checkHostName; the dNSName       *)
(* alternative names are tried in order; when there is none, the common  *)
(* name, which must be NFKC-normalized.                                   *)
(***************************************************************************)
MatchDNS(checkType, expectedName, cert) ==
  LET dns == AltNames(cert, ALTNAME_DNS) IN
  /\ CheckHostName(expectedName)
  /\ \/ \E k \in DOMAIN dns : IsMatched(checkType, expectedName, dns[k].value)
     \/ /\ ~FoundDNS(dns)
        /\ cert.cn # Null
        /\ IsNFKC(cert.cn)
        /\ IsMatched(checkType, expectedName, cert.cn)

(* match(String, X509Certificate): Null when it returns, else the exception. *)
HostnameMatch(checkType, expectedName, cert) ==
  IF (IF IsIpAddress(expectedName) THEN MatchIP(expectedName, cert)
      ELSE MatchDNS(checkType, expectedName, cert))
  THEN Null ELSE Exc("CertificateException")

-----------------------------------------------------------------------------
(* The match calls, interleaved with IPAddressUtil's calls on last. *)
CallMatch ==
  /\ last = NoCall
  /\ \E checkType \in {TYPE_TLS, TYPE_LDAP}, expectedName \in ExpectedNames, cert \in Certs :
       last' = [op |-> "match", type |-> checkType, name |-> expectedName, cert |-> cert,
                thrown |-> HostnameMatch(checkType, expectedName, cert)]

HCNext == Next \/ CallMatch

HCSpec == Init /\ [][HCNext]_last

-----------------------------------------------------------------------------
(***************************************************************************)
(* Reference definitions, from RFC 2818 section 3.1, RFC 2830 section 3.6 *)
(* and the host-name syntax of RFC 1123 with the IDN label separators of  *)
(* RFC 3490: labels are split at every separator, are letters, digits    *)
(* and hyphens not at either end, and '*' stands for any fragment of one *)
(* label.                                                                 *)
(***************************************************************************)
RefLabels(s) ==
  LET b == <<0>> \o SetToSortSeq({k \in 1..Len(s) : s[k] \in LabelSeparators}, <) \o <<Len(s) + 1>>
  IN [k \in 1..(Len(b) - 1) |-> SubSeq(s, b[k] + 1, b[k + 1] - 1)]

LDH == (48..57) \cup (65..90) \cup (97..122) \cup {Hyphen}

LDHLabel(l) ==
  /\ l # <<>> /\ Len(l) <= MAX_LABEL_LENGTH
  /\ \A k \in DOMAIN l : l[k] \in LDH
  /\ l[1] # Hyphen /\ l[Len(l)] # Hyphen

RefValidHost(s) == \A k \in DOMAIN RefLabels(s) : LDHLabel(RefLabels(s)[k])

RECURSIVE Glob(_, _)
Glob(l, p) ==
  IF p = <<>> THEN l = <<>>
  ELSE IF p[1] = Star THEN Glob(l, Tail(p)) \/ (l # <<>> /\ Glob(Tail(l), p))
  ELSE l # <<>> /\ l[1] = p[1] /\ Glob(Tail(l), Tail(p))

RefTLS(name, template) ==
  LET n == RefLabels(ToLowerCase(name))
      t == RefLabels(ToLowerCase(template))
  IN /\ RefValidHost(ReplaceAll(template, Star, LowerZ))
     /\ Len(n) = Len(t) /\ \A k \in DOMAIN n : Glob(n[k], t[k])

RefLDAP(name, template) ==
  LET n == RefLabels(ToLowerCase(name))
      t == RefLabels(ToLowerCase(template))
  IN /\ RefValidHost(ReplaceAll(template, Star, LowerZ))
     /\ Glob(n[1], t[1]) /\ Tail(n) = Tail(t)

RefMatches(checkType, name, template) ==
  IF checkType = TYPE_TLS THEN RefTLS(name, template) ELSE RefLDAP(name, template)

(* The dNSNames are the identity when present, else the common name. *)
RefDNS(checkType, name, cert) ==
  LET dnsValues == {AltNames(cert, ALTNAME_DNS)[k].value : k \in DOMAIN AltNames(cert, ALTNAME_DNS)}
  IN /\ RefValidHost(name)
     /\ IF dnsValues # {} THEN \E d \in dnsValues : RefMatches(checkType, name, d)
        ELSE cert.cn # Null /\ IsNFKC(cert.cn) /\ RefMatches(checkType, name, cert.cn)

RefIsIP(name) == V4Ref(name) # Null \/ V6Ref(name) # Null
RefAddress(s) == IF V4Ref(s) # Null THEN V4Ref(s) ELSE V6Ref(s)

(* An IP literal must equal, as an address, an iPAddress alternative name. *)
RefIP(name, cert) ==
  \E k \in DOMAIN AltNames(cert, ALTNAME_IP) :
    RefAddress(AltNames(cert, ALTNAME_IP)[k].value) = RefAddress(name)

MatchCalled == last.op = "match"

(* The arguments of the match call in last. *)
MatchType == last.type
MatchName == last.name
MatchCert == last.cert

-----------------------------------------------------------------------------
(* Type invariant: IPAddressUtil's, and match returns or throws CertificateException. *)
HCTypeOK ==
  \/ MatchCalled /\ last.thrown \in {Null, Exc("CertificateException")}
  \/ ~MatchCalled /\ TypeOK

(***************************************************************************)
(* For TLS, match accepts a host name (not an IP literal) exactly when it *)
(* is a valid host name and matches, label for label with '*' inside one *)
(* label, a dNSName of the certificate, or its common name when it has no *)
(* dNSName at all (matchDNS, matchAllWildcards, matchWildCards).         *)
(***************************************************************************)
DNSNameMatchFollowsRFC2818 ==
  MatchCalled =>
    (MatchType = TYPE_TLS /\ ~RefIsIP(MatchName) =>
       ((last.thrown = Null) <=> RefDNS(TYPE_TLS, MatchName, MatchCert)))

(***************************************************************************)
(* An expected IP literal is accepted exactly when an iPAddress           *)
(* alternative name denotes the same address, in whatever text form      *)
(* (isIpAddress, matchIP): never through a dNSName or the common name.   *)
(***************************************************************************)
IPNameMatchesOnlyIPAltNames ==
  MatchCalled =>
    (RefIsIP(MatchName) => ((last.thrown = Null) <=> RefIP(MatchName, MatchCert)))

====
