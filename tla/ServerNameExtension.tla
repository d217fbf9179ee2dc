------------------------- MODULE ServerNameExtension -------------------------
(***************************************************************************)
(* sun.security.ssl.ServerNameExtension: the TLS server_name (SNI) hello  *)
(* extension.  The client builds it from its host names, send writes it   *)
(* to the handshake stream, and the peer's constructor reads it back from *)
(* the stream, given the extension length HelloExtensions has read.       *)
(*                                                                         *)
(* An extension is a record: its names ([type, data, hostname, length],   *)
(* data the bytes of the HostName) and listLength.  A stream is a byte    *)
(* sequence.  The calls join HostnameChecker's on the variable last.      *)
(***************************************************************************)
EXTENDS HostnameChecker

CONSTANTS
  HostNameLists,  \* the List<String> arguments of the client constructor
  ParseInputs     \* [stream, len]: the stream from the extension data on

NAME_HOST_NAME  == 0
EXT_SERVER_NAME == 0
SSLProtocolException == Exc("SSLProtocolException")
SSLException         == Exc("SSLException")  \* HandshakeInStream underflow

(* String.getBytes("UTF8") on BMP code units that are not surrogates.    *)
UTF8Char(c) ==
  IF c < 128 THEN <<c>>
  ELSE IF c < 2048 THEN <<192 + c \div 64, 128 + (c % 64)>>
  ELSE <<224 + c \div 4096, 128 + ((c \div 64) % 64), 128 + (c % 64)>>
UTF8(s) == FlattenSeq([k \in 1..Len(s) |-> UTF8Char(s[k])])

(* new String(data, "UTF8"): a malformed byte becomes U+FFFD.            *)
IsCont(d, k) == k <= Len(d) /\ d[k] \in 128..191
RECURSIVE DecodeUTF8(_)
DecodeUTF8(d) ==
  IF d = <<>> THEN <<>>
  ELSE IF d[1] < 128 THEN <<d[1]>> \o DecodeUTF8(Tail(d))
  ELSE IF d[1] \in 192..223 /\ IsCont(d, 2)
    THEN <<(d[1] - 192) * 64 + d[2] - 128>> \o DecodeUTF8(SubSeq(d, 3, Len(d)))
  ELSE IF d[1] \in 224..239 /\ IsCont(d, 2) /\ IsCont(d, 3)
    THEN <<(d[1] - 224) * 4096 + (d[2] - 128) * 64 + d[3] - 128>> \o DecodeUTF8(SubSeq(d, 4, Len(d)))
  ELSE <<65533>> \o DecodeUTF8(Tail(d))

(* HandshakeOutStream.putInt16 and putBytes16.                           *)
Int16(v) == <<(v \div 256) % 256, (v % 256)>>
Bytes16(b) == Int16(Len(b)) \o b

NewServerNameShort(type, hostname) ==
  LET data == UTF8(hostname) IN
  [type |-> type, hostname |-> hostname, data |-> data, length |-> Len(data) + 2]

(* ServerName(int type, String hostname) *)
NewServerName(type, hostname) ==
  LET data == UTF8(hostname) IN
  [type |-> type, hostname |-> hostname, data |-> data, length |-> Len(data) + 3]

Extension(names, listLength) == [kind |-> "ext", names |-> names, listLength |-> listLength]

(* ServerNameExtension(List<String> hostnames) *)
Construct(hostnames) ==
  LET kept  == SelectSeq(hostnames, LAMBDA h : h # Null /\ Len(h) # 0)
      names == [k \in 1..Len(kept) |-> NewServerName(NAME_HOST_NAME, kept[k])]
      listLength == FoldSeq(LAMBDA n, acc : acc + n.length, 0, names)
  IN  IF Len(names) > 1 THEN SSLProtocolException
      ELSE IF listLength = 0 THEN SSLProtocolException
      ELSE Extension(names, listLength)

(* HandshakeInStream.getInt8, getInt16, getBytes16 at position pos.      *)
Avail(s, pos, n) == pos + n - 1 <= Len(s)
GetInt16(s, pos) == s[pos] * 256 + s[pos + 1]

(* ServerName(HandshakeInStream s): the name read at pos and the next pos *)
ReadServerName(s, pos) ==
  IF ~Avail(s, pos, 3) THEN SSLException
  ELSE LET n == GetInt16(s, pos + 1) IN
       IF ~Avail(s, pos + 3, n) THEN SSLException
       ELSE LET type == s[pos]
                data == SubSeq(s, pos + 3, pos + 2 + n)
            IN  [kind |-> "name", next |-> pos + 3 + n,
                 name |-> [type |-> type, data |-> data, length |-> n + 3,
                           hostname |-> IF type = NAME_HOST_NAME THEN DecodeUTF8(data) ELSE Null]]

(* while (remains > 0) { name = new ServerName(s); ... remains -= name.length; } *)
RECURSIVE ReadNames(_, _, _, _)
ReadNames(s, pos, remains, names) ==
  IF remains <= 0 THEN [kind |-> "names", names |-> names, remains |-> remains]
  ELSE LET r == ReadServerName(s, pos) IN
       IF r.kind # "name" THEN r
       ELSE ReadNames(s, r.next, remains - r.name.length, Append(names, r.name))

ListLengthUnchecked(listLength, len) == listLength = 0

ListLengthInvalid(listLength, len) == listLength = 0 \/ listLength + 2 # len

(* ServerNameExtension(HandshakeInStream s, int len) *)
Parse(s, len) ==
  IF len >= 2 THEN
    IF ~Avail(s, 1, 2) THEN SSLException
    ELSE LET listLength == GetInt16(s, 1) IN
         IF ListLengthInvalid(listLength, len) THEN SSLProtocolException
         ELSE LET r == ReadNames(s, 3, len - 2, <<>>) IN
              IF r.kind # "names" THEN r
              ELSE IF r.remains # 0 THEN SSLProtocolException
              ELSE Extension(r.names, listLength)
  ELSE IF len = 0 THEN Extension(<<>>, 0)
  ELSE SSLProtocolException

(* length() *)
ExtLength(e) == IF e.listLength = 0 THEN 4 ELSE 6 + e.listLength

(* send(HandshakeOutStream s) *)
Send(e) ==
  Int16(EXT_SERVER_NAME) \o Int16(e.listLength + 2) \o
  (IF e.listLength # 0
   THEN Int16(e.listLength) \o
        FlattenSeq([k \in 1..Len(e.names) |-> <<e.names[k].type>> \o Bytes16(e.names[k].data)])
   ELSE <<>>)

(* HelloExtensions(HandshakeInStream): the extension type and length, then *)
(* the server_name constructor on the rest of the stream.                  *)
Receive(s) == Parse(SubSeq(s, 5, Len(s)), GetInt16(s, 3))

IsExtension(r) == r.kind = "ext"

-----------------------------------------------------------------------------
(* The calls.  Each waits for the previous result to be read (ReadResult). *)

CallServerNameExtension ==
  /\ last = NoCall
  /\ \E hostnames \in HostNameLists :
       last' = [op |-> "sniConstruct", hostnames |-> hostnames, ext |-> Construct(hostnames)]

CallParse ==
  /\ last = NoCall
  /\ \E in \in ParseInputs :
       last' = [op |-> "sniParse", stream |-> in.stream, len |-> in.len, ext |-> Parse(in.stream, in.len)]

(* A client hello carrying the extension the client built, followed in the *)
(* stream by nothing or by the next extension, read back by the peer.       *)
NextExtensions == {<<>>, <<0, 10, 0, 0>>}

CallExchange ==
  /\ last = NoCall
  /\ \E hostnames \in HostNameLists, rest \in NextExtensions :
       \E e \in {Construct(hostnames)} :
         /\ IsExtension(e)
         /\ last' = [op |-> "sniExchange", hostnames |-> hostnames, ext |-> e,
                     wire |-> Send(e), received |-> Receive(Send(e) \o rest)]

SNINext ==
  \/ HCNext
  \/ CallServerNameExtension
  \/ CallParse
  \/ CallExchange

SNISpec == Init /\ [][SNINext]_last

-----------------------------------------------------------------------------
(* The reference: RFC 4366 ServerNameList, quoted in the class comment.   *)
(* An entry is name_type (1 byte), then HostName as a 2-byte length and   *)
(* that many bytes.                                                        *)

RECURSIVE RefEntries(_)
RefEntries(b) ==
  IF b = <<>> THEN <<>>
  ELSE IF Len(b) < 3 THEN Null
  ELSE LET n == GetInt16(b, 2) IN
       IF Len(b) < 3 + n THEN Null
       ELSE LET rest == RefEntries(SubSeq(b, 4 + n, Len(b))) IN
            IF rest = Null THEN Null ELSE <<SubSeq(b, 4, 3 + n)>> \o rest

(* The entries of an extension_data of length len whose length fields    *)
(* frame it (a non-zero list length of len - 2, entries that fill the     *)
(* list exactly), or Null; an empty extension_data is the ServerHello     *)
(* form.  This is framing only: RFC 4366's HostName<1..2^16-1> and its    *)
(* one name per name_type are not part of it.                             *)
RefFramedEntries(s, len) ==
  IF len = 0 THEN <<>>
  ELSE IF len < 2 \/ Len(s) < len THEN Null
  ELSE IF GetInt16(s, 1) # len - 2 \/ len = 2 THEN Null
  ELSE RefEntries(SubSeq(s, 3, len))

SNICalled == last.op \in {"sniConstruct", "sniParse", "sniExchange"}

Kept(hostnames) == SelectSeq(hostnames, LAMBDA h : h # Null /\ Len(h) # 0)

ServerNameRecords ==
  [type : 0..255, data : Seq(0..255), length : Nat, hostname : {Null} \cup Seq(0..65535)]

(* The results are exceptions or extensions of well-typed names.          *)
SNITypeOK ==
  \/ /\ SNICalled
     /\ last.ext \in {SSLProtocolException, SSLException} \cup
          [kind : {"ext"}, names : Seq(ServerNameRecords), listLength : 0..65535]
  \/ ~SNICalled /\ HCTypeOK

(***************************************************************************)
(* The client constructor accepts exactly one non-empty host name, and    *)
(* the extension it builds survives send and the peer's constructor: the *)
(* peer reads back that host name, and length() is the number of bytes    *)
(* send wrote (HelloExtensions adds length() up for the block length).    *)
(***************************************************************************)
SNIClientHostNameReachesPeer ==
  /\ last.op = "sniConstruct" =>
       (IsExtension(last.ext) <=> Len(Kept(last.hostnames)) = 1)
  /\ last.op = "sniExchange" =>
       /\ IsExtension(last.received)
       /\ [k \in DOMAIN last.received.names |-> last.received.names[k].hostname] = Kept(last.hostnames)
       /\ ExtLength(last.ext) = Len(last.wire)

(***************************************************************************)
(* The peer's constructor accepts exactly the extension_data whose length *)
(* fields frame it, and the empty ServerHello form, and keeps every       *)
(* entry's bytes in order: the list length must be len - 2, and remains  *)
(* must come to exactly 0 although each entry is read before its length  *)
(* is subtracted.  The constructor checks framing only: it also accepts  *)
(* an empty HostName and two host_name entries, which RFC 4366 rules out *)
(* and the comment at the loop defers; such lists are among the inputs.  *)
(***************************************************************************)
SNIParseAcceptsExactlyFramedLists ==
  last.op = "sniParse" =>
    LET ref == RefFramedEntries(last.stream, last.len) IN
    /\ IsExtension(last.ext) <=> ref # Null
    /\ IsExtension(last.ext) =>
         [k \in DOMAIN last.ext.names |-> last.ext.names[k].data] = ref

====
