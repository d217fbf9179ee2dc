--------------------------- MODULE MC_IPAddressUtil ---------------------------
(***************************************************************************)
(* Inputs for IPAddressUtil.  Strings are built from named code units and *)
(* from parts joined by a separator: the parts are chosen at the bounds   *)
(* the code tests (255/256, 65535/65536, 16777215/16777216, 0xffff and    *)
(* five hex digits) and the characters at the edges of the masks and of  *)
(* OTHERS.  Signed parts, an Arabic-Indic digit and a zero-padded group   *)
(* are inputs too: the parsers' properties leave such text out of their   *)
(* claim, and these inputs show that nothing else is left out.           *)
(***************************************************************************)
EXTENDS IPAddressUtil

c0 == 48
c1 == 49
c2 == 50
c3 == 51
c4 == 52
c5 == 53
c6 == 54
c7 == 55
ca == 97
cf == 102
cz == 122
Space     == 32
LF        == 10
DEL       == 127
Slash     == 47
Hash      == 35
Backslash == 92
At        == 64
EAcute    == 233
OthersBelow == 8262   \* just below OTHERS[1]
OthersFirst == 8263
OthersMid   == 10868
OthersColon == 65306  \* fullwidth colon
OthersLast  == 65312
OthersAbove == 65313  \* fullwidth 'A', a hex digit for Character.digit
ArabicOne   == 1633   \* ARABIC-INDIC DIGIT ONE, a digit for Character.digit

JoinWith(parts, sep) ==
  IF parts = <<>> THEN <<>>
  ELSE FoldLeft(LAMBDA acc, p : acc \o <<sep>> \o p, Head(parts), Tail(parts))

Joins(P, lo, hi, sep) == UNION {{JoinWith(ps, sep) : ps \in [1..n -> P]} : n \in lo..hi}

(* IPv4 parts *)
V4PartsWide ==
  {<<>>, <<c0>>, <<c2, c5, c5>>, <<c2, c5, c6>>, <<c6, c5, c5, c3, c5>>, <<c6, c5, c5, c3, c6>>,
   <<c1, c6, c7, c7, c7, c2, c1, c5>>, <<c1, c6, c7, c7, c7, c2, c1, c6>>, <<c1, ca>>, <<Minus, c1>>,
   <<Plus, c1>>, <<ArabicOne>>}
V4PartsNarrow == {<<>>, <<c0>>, <<c2, c5, c5>>, <<c2, c5, c6>>, <<Minus, c1>>}
MCV4Inputs == Joins(V4PartsWide, 1, 3, Dot) \cup Joins(V4PartsNarrow, 4, 5, Dot)

(* IPv6 fields: empty (for "::"), groups, an overlong group, a non-digit, IPv4 tails *)
Ffff  == <<cf, cf, cf, cf>>
Fffff == <<cf, cf, cf, cf, cf>>
Quad  == <<c1, Dot, c2, Dot, c3, Dot, c4>>
Triple == <<c1, Dot, c2, Dot, c3>>
Padded == <<c0, c0, c0, c0, c1>>
V6Fields == {<<>>, <<c0>>, <<c1>>, Ffff, Fffff, <<cz>>, Quad, Triple, Padded, <<ArabicOne>>}
V6FieldsNarrow == {<<>>, <<c1>>, Ffff, Quad}
Zones == {<<Percent>>, <<Percent, cz>>}
MCV6Inputs ==
  Joins(V6Fields, 1, 3, Colon) \cup Joins(V6FieldsNarrow, 4, 5, Colon) \cup {a \o z : a \in Joins(V6Fields, 1, 3, Colon), z \in Zones}

(* URL parts *)
UserInfos == {Null, <<ca>>, <<ca, Colon, ca>>, <<ca, Slash>>, <<ca, At>>, <<ca, LF>>}
Loopback  == <<Colon, Colon, c1>>
Hosts ==
  {<<ca>>, <<ca, Space, ca>>, <<ca, Hash>>, <<ca, Backslash>>, <<ca, LF>>, <<ca, DEL>>,
   <<LBracket>> \o Loopback \o <<RBracket>>,
   <<LBracket>> \o Loopback \o <<Percent, ca, RBracket>>,
   <<LBracket>> \o Loopback \o <<Percent, DEL, RBracket>>,
   <<LBracket>> \o Loopback \o <<Percent, RBracket>>,
   <<LBracket, c1, RBracket>>, <<LBracket, ca>>, <<ca, RBracket>>, <<LBracket>>, <<LBracket, RBracket>>,
   <<ca, OthersColon>>, <<ca, EAcute>>}
Authorities == {Null, <<ca>>, <<ca, LF>>}
URL(u, h, a) == [userInfo |-> u, host |-> h, authority |-> a]
MCURLs == {URL(u, h, a) : u \in UserInfos, h \in Hosts, a \in Authorities}
MCURLsNullHost == {URL(u, Null, a) : u \in {Null, <<ca>>}, a \in Authorities}

MCHostStrings ==
  {Null, <<ca>>, <<ca, Slash>>, <<ca, LF>>, <<ca, DEL>>, <<ca, Hash>>, <<ca, Backslash>>,
   <<ca, EAcute>>, <<ca, OthersBelow>>, <<ca, OthersFirst>>, <<ca, OthersMid>>,
   <<ca, OthersColon>>, <<ca, OthersLast>>, <<ca, OthersAbove>>}

====
