------------------- MODULE MC_DisabledAlgorithmConstraints -------------------
(***************************************************************************)
(* Two algorithms, key sizes around the bounds 1 and 2 of the keySize     *)
(* conditions (and 0 and unknown), three dates around the denyAfter date  *)
(* 2.  The property values are every entry for RSA with up to two         *)
(* conditions, and pairs of entries for RSA and EC, one of them with the  *)
(* largest bound, "keySize <= MaxInt", whose minSize = n + 1 wraps.       *)
(***************************************************************************)
EXTENDS DisabledAlgorithmConstraints

Cond(type, op, n, d, us) == [type |-> type, op |-> op, n |-> n, date |-> d, usages |-> us]
KeySize(op, n) == Cond("keySize", op, n, 0, <<>>)
JdkCA          == Cond("jdkCA", "", 0, 0, <<>>)
DenyAfter(d)   == Cond("denyAfter", "", 0, d, <<>>)
Usage(us)      == Cond("usage", "", 0, 0, us)
Unknown        == Cond("unknown", "", 0, 0, <<>>)

MCAlgorithms == {"RSA", "EC"}
MCVariants   == {"generic", "tls_server", "tls_client", "code_signing"}
MCDates      == {1, 2, 3}
MCSizes      == {-1, 0, 1, 2, 3}

(* The conditions an entry may have, with keySize bounds KeySizeNs. *)
Conditions(KeySizeNs, UsageLists) ==
  {KeySize(op, n) : op \in Operators \cup {"=<"}, n \in KeySizeNs}
  \cup {JdkCA, DenyAfter(2), Unknown} \cup {Usage(us) : us \in UsageLists}

Entries(alg, conds) ==
  {[alg |-> alg, conds |-> cs] : cs \in {<<>>} \cup {<<c>> : c \in conds} \cup (conds \X conds)}

PairEntries ==
  {[alg |-> "RSA", conds |-> <<>>], [alg |-> "RSA", conds |-> <<KeySize("<=", MaxInt)>>],
   [alg |-> "EC", conds |-> <<KeySize("<", 2), DenyAfter(2)>>],
   [alg |-> "EC", conds |-> <<Usage(<<"TLSServer">>), JdkCA>>]}

PropertiesWith(KeySizeNs, UsageLists) ==
  {<<e>> : e \in Entries("RSA", Conditions(KeySizeNs, UsageLists))}
  \cup {<<e, f>> : e, f \in PairEntries}

ValidUsages == {<<"TLSServer">>, <<"SignedJAR", "TLSClient">>}

MCPropertyValues == PropertiesWith({1, 2}, ValidUsages)
====
