-------------------------- MODULE MC_HostnameChecker --------------------------
(***************************************************************************)
(* Inputs for HostnameChecker.match, checked together with IPAddressUtil's *)
(* calls.  Labels are short, MAX_LABEL_LENGTH is 3 so that a long label   *)
(* occurs, and the templates put '*' at the start, the end, the middle    *)
(* and alone, in the first label and in a later one.                     *)
(***************************************************************************)
EXTENDS MC_IPAddressUtil, HostnameChecker

cb == 98
cA == 65
IdeographicStop == 12290
FullwidthA      == 65345

(* Expected host names: valid ones, case, a leading hyphen, a long label, *)
(* and the malformed forms checkHostName rejects.                          *)
NameLabels == {<<ca>>, <<cb>>, <<ca, cb>>, <<cA>>, <<Minus, ca>>, <<ca, cb, ca, cb>>}
MCDNSNames ==
  Joins(NameLabels, 1, 2, Dot) \cup
  {<<cb, Dot, ca, Dot, cb>>, <<ca, Dot>>, <<Dot>>, <<>>, <<ca, Dot, Dot, cb>>, <<ca, Space>>}

(* Expected IP literals: IPv4 in full and in one part, IPv6, upper-case *)
(* hex, an IPv4-mapped IPv6 form.                                         *)
MCIPNames ==
  {Quad, <<c1>>, <<Colon, Colon, c1>>, <<Colon, Colon, cA>>,
   <<Colon, Colon, cf, cf, cf, cf, Colon>> \o Quad, <<c1, Dot, c2, Dot, c3, Dot, c5>>}

MCExpectedNames == MCDNSNames \cup MCIPNames

(* Templates for dNSNames and common names. *)
TemplateLabels == {<<Star>>, <<ca, Star>>, <<Star, cb>>, <<cb, Star>>, <<ca, Star, cb>>, <<ca, cb>>, <<cA>>}
MCTemplates ==
  TemplateLabels \cup
  {<<Star, Dot, cb>>, <<Star, Dot, ca, cb>>, <<ca, Dot, Star>>, <<Star, Dot, Star>>,
   <<ca, Star, Dot, cb>>, <<Star, Dot, ca, Dot, cb>>, <<ca, Dot>>, <<Minus, Star>>}

DNS(v) == [type |-> ALTNAME_DNS, value |-> v]
IP(v)  == [type |-> ALTNAME_IP, value |-> v]
Cert(san, cn) == [san |-> san, cn |-> cn]

IPAltNames == {Quad, <<c0, Dot, c0, Dot, c0, Dot, c1>>, <<c0, Colon, c0, Colon, c0, Colon, c1>>, <<Colon, Colon, ca>>}

MCSans ==
  {Null, <<>>} \cup {<<DNS(t)>> : t \in MCTemplates} \cup {<<IP(v)>> : v \in IPAltNames} \cup
  {<<DNS(<<ca, cb>>), DNS(<<Star, Dot, cb>>)>>, <<IP(Quad), DNS(<<ca>>)>>, <<DNS(Quad)>>}

MCCommonNames == {Null, <<ca>>, <<Star, Dot, cb>>, <<FullwidthA>>}

MCCerts == {Cert(san, cn) : san \in MCSans, cn \in MCCommonNames}

(* A three-label name whose first separator is the ideographic full stop, *)
(* which toASCII takes for a label separator and StringTokenizer does not. *)
MCDNSNamesIdeographic == {<<cb, IdeographicStop, ca, Dot, cb>>}
MCCertsWildcard == {Cert(<<DNS(<<Star, Dot, cb>>)>>, Null)}

====
