---------------------------- MODULE IPAddressUtil ----------------------------
(***************************************************************************)
(* sun.net.util.IPAddressUtil: the textual IPv4 and IPv6 literal parsers   *)
(* and the character checks on the authority of a URL.  A string is a     *)
(* sequence of UTF-16 code units (integers); a byte array is a sequence of *)
(* unsigned byte values; Null is Java's null.  Every public method is an  *)
(* operation on one input from a bounded set, and last records the call   *)
(* and what it returned or threw.                                          *)
(*                                                                         *)
(* INADDR16SZ is 16 in the code.  The parser's loop does not depend on the *)
(* value, and the MC module uses 8 bytes so that full and overfull        *)
(* addresses are a few groups long.                                       *)
(***************************************************************************)
EXTENDS Integers, Sequences, SequencesExt, FiniteSets

CONSTANTS
  INADDR16SZ,
  LongMax,      \* Long.MAX_VALUE; the inputs stay far below it
  Null,
  V4Inputs, V6Inputs, URLs, HostStrings

INADDR4SZ == 4
INT16SZ   == 2
IntMax    == 2147483647

Colon    == 58
Dot      == 46
Percent  == 37
Plus     == 43
Minus    == 45
LBracket == 91
RBracket == 93

(***************************************************************************)
(* Character.digit(c, radix) for the ranges the models use: ASCII digits  *)
(* and letters, the Arabic-Indic digits and the fullwidth digits and      *)
(* letters.  Every other code unit is not a digit.                         *)
(***************************************************************************)
DigitValue(c) ==
  CASE c \in 48..57       -> c - 48
    [] c \in 97..122      -> c - 87
    [] c \in 65..90       -> c - 55
    [] c \in 1632..1641   -> c - 1632
    [] c \in 65296..65305 -> c - 65296
    [] c \in 65313..65338 -> c - 65303
    [] c \in 65345..65370 -> c - 65335
    [] OTHER              -> -1

Digit(c, radix) == IF DigitValue(c) \in 0..(radix - 1) THEN DigitValue(c) ELSE -1

(***************************************************************************)
(* Integer.parseInt / Long.parseLong in radix 10: an optional sign, then  *)
(* at least one digit; NumberFormatException otherwise or on overflow.    *)
(***************************************************************************)
NFE == [ok |-> FALSE, v |-> 0]

RECURSIVE Accumulate(_, _, _)
Accumulate(s, v, max) ==
  IF s = <<>> THEN [ok |-> TRUE, v |-> v]
  ELSE LET d == Digit(Head(s), 10) IN
       IF d = -1 \/ v > (max - d) \div 10 THEN NFE
       ELSE Accumulate(Tail(s), 10 * v + d, max)

ParseDecimal(s, max) ==
  LET signed == s # <<>> /\ Head(s) \in {Plus, Minus}
      digits == IF signed THEN Tail(s) ELSE s
      r      == Accumulate(digits, 0, max)
  IN IF digits = <<>> \/ ~r.ok THEN NFE
     ELSE [ok |-> TRUE, v |-> IF Head(s) = Minus THEN -r.v ELSE r.v]

ParseInt(s)  == ParseDecimal(s, IntMax)
ParseLong(s) == ParseDecimal(s, LongMax)

(* String.split(regex, -1) on a one-character regex: trailing empty parts kept. *)
RECURSIVE SplitOn(_, _)
SplitOn(s, c) ==
  LET i == SelectInSeq(s, LAMBDA x : x = c) IN
    IF i = 0 THEN <<s>>
    ELSE <<SubSeq(s, 1, i - 1)>> \o SplitOn(SubSeq(s, i + 1, Len(s)), c)

(* String.indexOf: the 0-based index of the first c, or -1. *)
IndexOf(s, c) == SelectInSeq(s, LAMBDA x : x = c) - 1

(* Variant: the part's range is checked one too wide. *)
FitsInOffByOne(v, w) == v >= 0 /\ v \div 256^(w - 1) <= 256

(* A part that fills w bytes: the code's val < 0 || val > 0xff, 0xffff, 0xffffff, 0xffffffffL. *)
FitsIn(v, w) == v >= 0 /\ v \div 256^(w - 1) < 256

(***************************************************************************)
(* textToNumericFormatV4: one to four parts separated by dots.  Every     *)
(* part but the last is one byte; the last fills the remaining bytes,     *)
(* big-endian.  A one-part address is parsed as a long, the others as     *)
(* ints.  Any NumberFormatException gives null.                           *)
(***************************************************************************)
TextToNumericFormatV4(src) ==
  IF src = <<>> THEN Null ELSE
  LET s == SplitOn(src, Dot)
      n == Len(s)
      width(k) == IF k < n THEN 1 ELSE INADDR4SZ - n + 1
      val(k)   == IF n = 1 THEN ParseLong(s[k]) ELSE ParseInt(s[k])
  IN IF n > INADDR4SZ THEN Null
     ELSE IF \E k \in 1..n : ~val(k).ok \/ ~FitsIn(val(k).v, width(k)) THEN Null
     ELSE [p \in 1..INADDR4SZ |->
             IF p < n THEN val(p).v ELSE (val(n).v \div 256^(INADDR4SZ - p)) % 256]

IsIPv4LiteralAddress(src) == TextToNumericFormatV4(src) # Null

(* isIPv4MappedAddress: ten zero bytes, then 0xff 0xff (scaled to INADDR16SZ). *)
IsIPv4MappedAddress(addr) ==
  /\ Len(addr) >= INADDR16SZ
  /\ \A k \in 1..(INADDR16SZ - 6) : addr[k] = 0
  /\ addr[INADDR16SZ - 5] = 255 /\ addr[INADDR16SZ - 4] = 255

ConvertFromIPv4MappedAddress(addr) ==
  IF IsIPv4MappedAddress(addr) THEN SubSeq(addr, INADDR16SZ - 3, INADDR16SZ) ELSE Null

(***************************************************************************)
(* textToNumericFormatV6 (inet_pton): the locals of its loop, with i, j,  *)
(* colonp and curtok 0-based as in the code, and out "run", "null" (a     *)
(* return null) or "break" (the IPv4 tail was parsed).                    *)
(***************************************************************************)
(* Variant: the high byte of the group is stored without & 0xff. *)
Put16NoMask(d, j, v) == [d EXCEPT ![j] = v \div 256, ![j + 1] = v]

(* dst[j++] = (byte) ((val >> 8) & 0xff); dst[j++] = (byte) (val & 0xff); *)
Put16(d, j, v) == [d EXCEPT ![j] = (v \div 256) % 256, ![j + 1] = v % 256]

DotCount(s) == Cardinality({k \in 1..Len(s) : s[k] = Dot})

(* Variant: a trailing single colon is not rejected. *)
TrailingColonUnchecked(i, len) == FALSE

(* else if (i == srcb_length) return null: a group may not end the string with ':'. *)
TrailingColon(i, len) == i = len

(***************************************************************************)
(* One iteration of the while loop: a hex digit (Character.digit(ch, 16)) *)
(* is shifted into val, which may not exceed 0xffff; a colon ends a group *)
(* or, after a colon, marks "::" (once); a dot with room for four bytes   *)
(* hands the text from curtok to textToNumericFormatV4 and breaks; any    *)
(* other character returns null.                                           *)
(***************************************************************************)
V6Step(src, len, st) ==
  LET ch == src[st.i + 1]
      chval == Digit(ch, 16)
      s1 == [st EXCEPT !.i = @ + 1]
      fail == [st EXCEPT !.out = "null"]
  IN CASE chval # -1 ->
            IF st.val * 16 + chval > 65535 THEN fail
            ELSE [s1 EXCEPT !.val = st.val * 16 + chval, !.saw = TRUE]
       [] ch = Colon ->
            IF ~st.saw
            THEN IF st.colonp # -1 THEN fail ELSE [s1 EXCEPT !.curtok = s1.i, !.colonp = st.j]
            ELSE IF TrailingColon(s1.i, len) \/ st.j + INT16SZ > INADDR16SZ THEN fail
            ELSE [s1 EXCEPT !.curtok = s1.i, !.dst = Put16(st.dst, st.j, st.val),
                            !.j = @ + INT16SZ, !.saw = FALSE, !.val = 0]
       [] ch = Dot /\ st.j + INADDR4SZ <= INADDR16SZ ->
            LET ia4 == SubSeq(src, st.curtok + 1, len) IN
            IF DotCount(ia4) # 3 \/ TextToNumericFormatV4(ia4) = Null THEN fail
            ELSE [s1 EXCEPT !.dst = [k \in DOMAIN st.dst |->
                                       IF k - st.j \in 0..3 THEN TextToNumericFormatV4(ia4)[k - st.j + 1]
                                       ELSE st.dst[k]],
                            !.j = @ + INADDR4SZ, !.saw = FALSE, !.out = "break"]
       [] OTHER -> fail

RECURSIVE V6Loop(_, _, _)
V6Loop(src, len, st) ==
  IF st.out # "run" \/ st.i >= len THEN st ELSE V6Loop(src, len, V6Step(src, len, st))

(***************************************************************************)
(* After the loop: store a pending group, expand "::" by moving the bytes *)
(* after it to the end (from the last byte down, zeroing each source),    *)
(* require exactly INADDR16SZ bytes, and return an IPv4-mapped address as *)
(* its four IPv4 bytes.                                                    *)
(***************************************************************************)
V6Finish(st) ==
  LET j1 == IF st.saw THEN st.j + INT16SZ ELSE st.j
      d1 == IF st.saw THEN Put16(st.dst, st.j, st.val) ELSE st.dst
      n  == j1 - st.colonp
      moved == FoldLeft(LAMBDA d, i : [d EXCEPT ![INADDR16SZ - i] = d[st.colonp + n - i],
                                                ![st.colonp + n - i] = 0],
                        d1, [i \in 1..n |-> i])
      dst == IF st.colonp # -1 THEN moved ELSE d1
      bytes == [k \in 1..INADDR16SZ |-> dst[k - 1]]
  IN IF st.saw /\ st.j + INT16SZ > INADDR16SZ THEN Null
     ELSE IF st.colonp # -1 /\ j1 = INADDR16SZ THEN Null
     ELSE IF st.colonp = -1 /\ j1 # INADDR16SZ THEN Null
     ELSE IF ConvertFromIPv4MappedAddress(bytes) # Null THEN ConvertFromIPv4MappedAddress(bytes)
     ELSE bytes

(* The scope after the first '%' is ignored, but may not be empty. *)
TextToNumericFormatV6(src) ==
  IF Len(src) < 2 THEN Null ELSE
  LET pc  == IndexOf(src, Percent)
      len == IF pc # -1 THEN pc ELSE Len(src)
      i0  == IF src[1] = Colon THEN 1 ELSE 0
      st  == V6Loop(src, len, [i |-> i0, j |-> 0, val |-> 0, saw |-> FALSE, colonp |-> -1,
                               curtok |-> i0, dst |-> [k \in 0..(INADDR16SZ - 1) |-> 0],
                               out |-> "run"])
  IN IF pc = Len(src) - 1 THEN Null
     ELSE IF src[1] = Colon /\ src[2] # Colon THEN Null
     ELSE IF st.out = "null" THEN Null
     ELSE V6Finish(st)

IsIPv6LiteralAddress(src) == TextToNumericFormatV6(src) # Null

-----------------------------------------------------------------------------
(***************************************************************************)
(* The character masks.  A long is the set of its one bits; a hex literal *)
(* is converted by what it means, four bits per digit, the last digit    *)
(* holding bits 0..3.  & ~ is set difference, | is union.                *)
(***************************************************************************)
HexLong(digits) ==
  {b \in 0..63 : LET k == Len(digits) - b \div 4 IN
                   k >= 1 /\ (digits[k] \div 2^(b % 4)) % 2 = 1}

L_IPV6_DELIMS   == HexLong(<<0>>)
H_IPV6_DELIMS   == HexLong(<<2,8,0,0,0,0,0,0>>)
L_AUTH_DELIMS   == HexLong(<<4,0,0,0,0,0,0,0,0,0,0,0,0,0,0>>)
H_AUTH_DELIMS   == HexLong(<<2,8,0,0,0,0,0,1>>)
L_COLON         == HexLong(<<4,0,0,0,0,0,0,0,0,0,0,0,0,0,0>>)
H_COLON         == HexLong(<<0>>)
L_SLASH         == HexLong(<<8,0,0,0,0,0,0,0,0,0,0,0>>)
H_SLASH         == HexLong(<<0>>)
L_NON_PRINTABLE == HexLong(<<15,15,15,15,15,15,15,15>>)
H_NON_PRINTABLE == HexLong(<<8,0,0,0,0,0,0,0,0,0,0,0,0,0,0,0>>)
H_EXCLUDE       == HexLong(<<8,0,0,0,0,0,0,0,3,8,0,0,0,0,0,1>>)

(* Variant: one digit of the literal mistyped, dropping '#' and '/'. *)
L_EXCLUDE_Typo  == HexLong(<<8,4,0,0,0,0,0,0,15,15,15,15,15,15,15,15>>)

L_EXCLUDE       == HexLong(<<8,4,0,0,8,0,0,8,15,15,15,15,15,15,15,15>>)

OTHERS == <<8263, 8264, 8265, 8448, 8449, 8453, 8454, 10868,
            65109, 65110, 65119, 65131, 65283, 65295, 65306, 65311, 65312>>

(* match: ASCII characters by their bit; other characters never match. *)
Match(c, lowMask, highMask) ==
  IF c < 64 THEN c \in lowMask
  ELSE IF c < 128 THEN c - 64 \in highMask
  ELSE FALSE

(* java.util.Arrays.binarySearch on a sorted int array: index or -(insertion point) - 1. *)
RECURSIVE BinarySearch0(_, _, _, _)
BinarySearch0(a, key, low, high) ==
  IF low > high THEN -(low + 1) ELSE
  LET mid == (low + high) \div 2 IN
    IF a[mid + 1] < key THEN BinarySearch0(a, key, mid + 1, high)
    ELSE IF a[mid + 1] > key THEN BinarySearch0(a, key, low, mid - 1)
    ELSE mid

BinarySearch(a, key) == BinarySearch0(a, key, 0, Len(a) - 1)

(* scan: the 0-based index of the first matching character, -1 if none or null. *)
Scan(s, lowMask, highMask) ==
  IF s = Null THEN -1
  ELSE SelectInSeq(s, LAMBDA c : Match(c, lowMask, highMask)) - 1

(* Variant: the first element of others is skipped by the range test. *)
ScanOthersStrict(s, lowMask, highMask, others) ==
  IF s = Null THEN -1
  ELSE SelectInSeq(s, LAMBDA c : Match(c, lowMask, highMask) \/
                                 (c > others[1] /\ BinarySearch(others, c) > -1)) - 1

(* scan with others: a non-matching character is also looked up in others. *)
ScanOthers(s, lowMask, highMask, others) ==
  IF s = Null THEN -1
  ELSE SelectInSeq(s, LAMBDA c : Match(c, lowMask, highMask) \/
                                 (c >= others[1] /\ BinarySearch(others, c) > -1)) - 1

(***************************************************************************)
(* The check methods return null or a message naming the part and the    *)
(* offending character (describeChar's wording is left out); an exception *)
(* a method throws is recorded as its result.                             *)
(***************************************************************************)
Msg(what, c) == [kind |-> "msg", what |-> what, char |-> c]
Exc(name)    == [kind |-> "exc", what |-> name, char |-> -1]

MsgAt(what, s, index) == IF index >= 0 THEN Msg(what, s[index + 1]) ELSE Null

CheckUserInfo(str) ==
  MsgAt("user-info", str, Scan(str, L_EXCLUDE \ L_COLON, H_EXCLUDE \ H_COLON))

(***************************************************************************)
(* checkHost: str.startsWith("[") dereferences str; a bracketed host must *)
(* be an IPv6 literal whose scope has no control character or bracket.  *)
(* Any other host may not hold an excluded character.                    *)
(***************************************************************************)
CheckHost(str) ==
  IF str = Null THEN Exc("NullPointerException")
  ELSE IF str # <<>> /\ str[1] = LBracket /\ str[Len(str)] = RBracket THEN
    LET in == SubSeq(str, 2, Len(str) - 1)
        pc == IndexOf(in, Percent)
        scope == SubSeq(in, pc + 1, Len(in))
    IN IF ~IsIPv6LiteralAddress(in) THEN Msg("ipv6-format", -1)
       ELSE IF pc < 0 THEN Null
       ELSE MsgAt("ipv6-scope", scope,
                  Scan(scope, L_NON_PRINTABLE \cup L_IPV6_DELIMS, H_NON_PRINTABLE \cup H_IPV6_DELIMS))
  ELSE MsgAt("host", str, Scan(str, L_EXCLUDE, H_EXCLUDE))

CheckAuth(str) ==
  MsgAt("authority", str, Scan(str, L_EXCLUDE \ L_AUTH_DELIMS, H_EXCLUDE \ H_AUTH_DELIMS))

(* checkAuthority: user info, then host, then the authority when both are null. *)
CheckAuthority(url) ==
  IF CheckUserInfo(url.userInfo) # Null THEN CheckUserInfo(url.userInfo)
  ELSE IF CheckHost(url.host) # Null THEN CheckHost(url.host)
  ELSE IF url.host = Null /\ url.userInfo = Null THEN CheckAuth(url.authority)
  ELSE Null

CheckHostString(host) ==
  IF host = Null THEN Null
  ELSE MsgAt("host", host, ScanOthers(host, L_NON_PRINTABLE \cup L_SLASH,
                                      H_NON_PRINTABLE \cup H_SLASH, OTHERS))

CheckExternalForm(url) ==
  LET index == Scan(url.userInfo, L_NON_PRINTABLE \cup L_SLASH, H_NON_PRINTABLE \cup H_SLASH)
  IN IF index >= 0 THEN Msg("authority", url.userInfo[index + 1])
     ELSE CheckHostString(url.host)

-----------------------------------------------------------------------------
(* Each public method called on one input; last is the call and its result, *)
(* which the caller reads before the next call.  Its fields are named     *)
(* after the method's parameter and result.                                *)
VARIABLE last

Ops == {"none", "textToNumericFormatV4", "textToNumericFormatV6",
        "checkAuthority", "checkExternalForm", "checkHostString"}

NoCall == [op |-> "none"]

Init == last = NoCall

ReadResult == last # NoCall /\ last' = NoCall

CallTextToNumericFormatV4 ==
  /\ last = NoCall
  /\ \E src \in V4Inputs : last' = [op |-> "textToNumericFormatV4", src |-> src, addr |-> TextToNumericFormatV4(src)]

CallTextToNumericFormatV6 ==
  /\ last = NoCall
  /\ \E src \in V6Inputs : last' = [op |-> "textToNumericFormatV6", src |-> src, addr |-> TextToNumericFormatV6(src)]

CallCheckAuthority ==
  /\ last = NoCall
  /\ \E url \in URLs : last' = [op |-> "checkAuthority", url |-> url, msg |-> CheckAuthority(url)]

CallCheckExternalForm ==
  /\ last = NoCall
  /\ \E url \in URLs : last' = [op |-> "checkExternalForm", url |-> url, msg |-> CheckExternalForm(url)]

CallCheckHostString ==
  /\ last = NoCall
  /\ \E host \in HostStrings : last' = [op |-> "checkHostString", host |-> host, msg |-> CheckHostString(host)]

Next ==
  \/ CallTextToNumericFormatV4
  \/ CallTextToNumericFormatV6
  \/ CallCheckAuthority
  \/ CallCheckExternalForm
  \/ CallCheckHostString
  \/ ReadResult

Spec == Init /\ [][Next]_last

-----------------------------------------------------------------------------
(***************************************************************************)
(* Reference definitions, written from the textual forms the comments    *)
(* name (inet_aton's a, a.b, a.b.c and a.b.c.d in decimal; RFC 4291      *)
(* section 2.2 for IPv6, with an RFC 4007 zone after '%') and from the   *)
(* character classes the comments of the masks list.  They use ASCII     *)
(* digits only, split strings by the positions of the separator, and     *)
(* share no operator with the code's definitions above.                  *)
(***************************************************************************)
RefSplit(s, c) ==
  LET b == <<0>> \o SetToSortSeq({k \in 1..Len(s) : s[k] = c}, <) \o <<Len(s) + 1>>
  IN [k \in 1..(Len(b) - 1) |-> SubSeq(s, b[k] + 1, b[k + 1] - 1)]

AsciiDigits == 48..57
AsciiHex    == AsciiDigits \cup 65..70 \cup 97..102
AsciiValue(c) == IF c \in AsciiDigits THEN c - 48 ELSE IF c \in 65..70 THEN c - 55 ELSE c - 87
NumValue(s, base) == FoldLeft(LAMBDA v, c : base * v + AsciiValue(c), 0, s)
AllIn(s, S) == s # <<>> /\ \A k \in DOMAIN s : s[k] \in S

(* The largest value of part k of an n-part address; the one part of a   *)
(* one-part address is any 32-bit value.                                 *)
FitsRef(n, k, v) ==
  IF k < n THEN v <= 255
  ELSE CASE n = 1 -> v \div 65536 < 65536
         [] n = 2 -> v <= 16777215
         [] n = 3 -> v <= 65535
         [] n = 4 -> v <= 255

V4Ref(src) ==
  LET p == RefSplit(src, Dot)
      n == Len(p)
  IN IF src = <<>> \/ n > 4 \/ \E k \in 1..n : ~AllIn(p[k], AsciiDigits) THEN Null
     ELSE IF \E k \in 1..n : ~FitsRef(n, k, NumValue(p[k], 10)) THEN Null
     ELSE [q \in 1..4 |-> IF q < n THEN NumValue(p[q], 10)
                          ELSE (NumValue(p[n], 10) \div 256^(4 - q)) % 256]

H16(f)      == AllIn(f, AsciiHex) /\ Len(f) <= 4
DecOctet(f) == AllIn(f, AsciiDigits) /\ Len(f) <= 3 /\ NumValue(f, 10) <= 255
Dotted(f)   == Len(RefSplit(f, Dot)) = 4 /\ \A k \in 1..4 : DecOctet(RefSplit(f, Dot)[k])
Fields(s)   == IF s = <<>> THEN <<>> ELSE RefSplit(s, Colon)

(* Fields are h16, and the last may be a dotted IPv4 address (ls32). *)
FieldsOk(fs, tail) ==
  \A k \in DOMAIN fs : H16(fs[k]) \/ (tail /\ k = Len(fs) /\ Dotted(fs[k]))

FieldBytes(fs) ==
  FlattenSeq([k \in DOMAIN fs |->
                IF H16(fs[k]) THEN <<NumValue(fs[k], 16) \div 256, NumValue(fs[k], 16) % 256>>
                ELSE [i \in 1..4 |-> NumValue(RefSplit(fs[k], Dot)[i], 10)]])

V6FullRef(addr) ==
  LET dc == {k \in 1..(Len(addr) - 1) : addr[k] = Colon /\ addr[k + 1] = Colon} IN
  IF dc = {} THEN
    IF addr # <<>> /\ FieldsOk(Fields(addr), TRUE) /\ Len(FieldBytes(Fields(addr))) = INADDR16SZ
    THEN FieldBytes(Fields(addr)) ELSE Null
  ELSE IF Cardinality(dc) > 1 THEN Null
  ELSE LET k  == CHOOSE x \in dc : TRUE
           lf == Fields(SubSeq(addr, 1, k - 1))
           rf == Fields(SubSeq(addr, k + 2, Len(addr)))
           zeros == INADDR16SZ - Len(FieldBytes(lf)) - Len(FieldBytes(rf))
       IN IF FieldsOk(lf, FALSE) /\ FieldsOk(rf, TRUE) /\ zeros >= 2
          THEN FieldBytes(lf) \o [i \in 1..zeros |-> 0] \o FieldBytes(rf) ELSE Null

V6Ref(src) ==
  LET pc   == SelectInSeq(src, LAMBDA c : c = Percent)
      addr == IF pc = 0 THEN src ELSE SubSeq(src, 1, pc - 1)
      full == V6FullRef(addr)
      n    == INADDR16SZ
  IN IF pc # 0 /\ pc = Len(src) THEN Null
     ELSE IF full = Null THEN Null
     ELSE IF SubSeq(full, 1, n - 6) = [i \in 1..(n - 6) |-> 0] /\ SubSeq(full, n - 5, n - 4) = <<255, 255>>
     THEN SubSeq(full, n - 3, n) ELSE full

NonPrintable == (0..31) \cup {127}
GenDelims    == {58, 47, 63, 35, 91, 93, 64}   \* : / ? # [ ] @
Excluded     == NonPrintable \cup GenDelims \cup {92}

FirstIn(what, s, S) ==
  IF s = Null THEN Null
  ELSE LET k == SelectInSeq(s, LAMBDA c : c \in S) IN IF k = 0 THEN Null ELSE Msg(what, s[k])

HostRef(h) ==
  IF h # <<>> /\ h[1] = LBracket /\ h[Len(h)] = RBracket THEN
    LET in == SubSeq(h, 2, Len(h) - 1)
        pc == SelectInSeq(in, LAMBDA c : c = Percent)
    IN IF V6Ref(in) = Null THEN Msg("ipv6-format", -1)
       ELSE IF pc = 0 THEN Null
       ELSE FirstIn("ipv6-scope", SubSeq(in, pc, Len(in)), NonPrintable \cup {91, 93})
  ELSE FirstIn("host", h, Excluded)

AuthorityRef(url) ==
  CASE FirstIn("user-info", url.userInfo, Excluded \ {58}) # Null ->
         FirstIn("user-info", url.userInfo, Excluded \ {58})
    [] HostRef(url.host) # Null -> HostRef(url.host)
    [] url.host = Null /\ url.userInfo = Null ->
         FirstIn("authority", url.authority, Excluded \ {64, 91, 93, 58})
    [] OTHER -> Null

HostStringRef(h) == FirstIn("host", h, NonPrintable \cup {47} \cup ToSet(OTHERS))

ExternalFormRef(url) ==
  IF FirstIn("authority", url.userInfo, NonPrintable \cup {47}) # Null
  THEN FirstIn("authority", url.userInfo, NonPrintable \cup {47})
  ELSE HostStringRef(url.host)

-----------------------------------------------------------------------------
(* Type invariant: every result is null, an address, a message or an exception. *)
TypeOK ==
  /\ last.op \in Ops
  /\ last.op \in {"textToNumericFormatV4", "textToNumericFormatV6"} =>
       last.addr \in {Null} \cup [1..INADDR4SZ -> 0..255] \cup [1..INADDR16SZ -> 0..255]
  /\ last.op \in {"checkAuthority", "checkExternalForm", "checkHostString"} =>
       last.msg \in {Null} \cup [kind : {"msg", "exc"}, what : STRING, char : Int]

(***************************************************************************)
(* The text on which the parsers are claimed to follow the notation.  The *)
(* code parses with Long.parseLong and Character.digit, which accept a    *)
(* sign and non-ASCII digits (IPAddressUtil.java:60 and :175), and, like  *)
(* inet_pton, a group of five or more hex digits with leading zeros; no  *)
(* address notation has these, so text holding them is left out.        *)
(***************************************************************************)
AsciiUnsigned(s) == \A k \in DOMAIN s : s[k] < 128 /\ s[k] \notin {Plus, Minus}

ZeroPaddedGroup(s) ==
  LET pc   == SelectInSeq(s, LAMBDA c : c = Percent)
      addr == IF pc = 0 THEN s ELSE SubSeq(s, 1, pc - 1)
  IN \E f \in ToSet(RefSplit(addr, Colon)) : Len(f) > 4 /\ AllIn(f, AsciiHex) /\ f[1] = 48

(***************************************************************************)
(* On ASCII text without a sign, textToNumericFormatV4 accepts exactly    *)
(* the decimal forms a, a.b, a.b.c and a.b.c.d with each part in range,  *)
(* and returns their bytes.                                               *)
(***************************************************************************)
V4MatchesDottedDecimal ==
  last.op = "textToNumericFormatV4" /\ AsciiUnsigned(last.src) => last.addr = V4Ref(last.src)

(***************************************************************************)
(* On ASCII text without a sign or a zero-padded group,                  *)
(* textToNumericFormatV6 accepts exactly the RFC 4291 text forms (with at *)
(* most one "::" standing for at least one zero group, an optional       *)
(* dotted IPv4 tail, and a non-empty zone after '%'), returns the address *)
(* bytes with "::" expanded in place, and an IPv4-mapped address as its   *)
(* IPv4 bytes.                                                            *)
(***************************************************************************)
V6MatchesRFC4291 ==
  /\ last.op = "textToNumericFormatV6"
  /\ AsciiUnsigned(last.src) /\ ~ZeroPaddedGroup(last.src)
  => last.addr = V6Ref(last.src)

(***************************************************************************)
(* checkAuthority rejects a URL exactly when its user info holds a       *)
(* control character, a gen-delim other than ':' or a backslash, or its  *)
(* host does (a bracketed host: is no IPv6 literal, or has a control     *)
(* character or bracket in its scope), and names the first such          *)
(* character: the 64-bit masks mean the sets their comments list.        *)
(***************************************************************************)
AuthorityCheckRejectsCommentedCharacters ==
  last.op = "checkAuthority" => last.msg = AuthorityRef(last.url)

(***************************************************************************)
(* checkExternalForm and checkHostString reject exactly the user info    *)
(* and hosts holding a control character or '/', and hosts holding one  *)
(* of the look-alike characters of OTHERS, found by binary search.       *)
(***************************************************************************)
HostStringCheckRejectsCommentedCharacters ==
  /\ last.op = "checkHostString" => last.msg = HostStringRef(last.host)
  /\ last.op = "checkExternalForm" => last.msg = ExternalFormRef(last.url)

(***************************************************************************)
(* checkAuthority reports what it finds as a message and throws nothing; *)
(* its final test, host and user info both null, expects a null host to  *)
(* get through checkHost.                                                 *)
(***************************************************************************)
CheckAuthorityReturnsVerdict ==
  last.op = "checkAuthority" =>
    last.msg \in {Null} \cup [kind : {"msg"}, what : STRING, char : Int]

====
