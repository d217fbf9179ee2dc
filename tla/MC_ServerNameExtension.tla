------------------------ MODULE MC_ServerNameExtension ------------------------
(***************************************************************************)
(* Inputs for ServerNameExtension, checked together with HostnameChecker's *)
(* and IPAddressUtil's calls.  Host names are ASCII, two-byte (U+00E9)    *)
(* and three-byte (U+3002) in UTF-8; the peer's streams are lists of one *)
(* or two entries with the list length and the extension length right,   *)
(* one too large and one too small, followed by more bytes or by none;  *)
(* entries with an empty HostName and two host_name entries among them.  *)
(***************************************************************************)
EXTENDS MC_HostnameChecker, ServerNameExtension

EAcuteName == <<EAcute>>
MCHostNames == {Null, <<>>, <<ca>>, EAcuteName, <<ca, IdeographicStop>>}
MCHostNameLists == {<<>>} \cup [1..1 -> MCHostNames] \cup [1..2 -> MCHostNames]

(* HostName bytes: empty, ASCII, U+00E9, a lone lead byte, U+3002. *)
HostNameData == {<<>>, <<ca>>, <<195, 169>>, <<195>>, <<ca, 227, 128, 130>>}
Entry(type, data) == <<type>> \o Bytes16(data)
Entries == {Entry(t, d) : t \in {NAME_HOST_NAME, 1}, d \in HostNameData}
Bodies == Entries \cup {e1 \o e2 : e1, e2 \in Entries}
Trailers == {<<>>, <<0, 10, 0, 0>>}

MCParseInputs ==
  {[stream |-> Int16(Len(b) + dl) \o b \o t, len |-> Len(b) + 2 + dn] :
     b \in Bodies, dl \in {0, 1}, dn \in {-1, 0, 1}, t \in Trailers}
  \cup {[stream |-> s, len |-> n] : s \in {<<>>, <<0>>, <<0, 0>>, <<0, 0, 0>>}, n \in 0..2}

====
