----------------------------- MODULE MC_ClassInit -----------------------------
(***************************************************************************)
(* Two threads; A, its subclass B, and C.  The initializers: none        *)
(* initializes anything; A's initializes C (acyclic); A's and C's         *)
(* initialize each other; A's initializes its subclass B.  C's            *)
(* initializer throws or not.                                              *)
(***************************************************************************)
EXTENDS ClassInit

MCThreads == {"t1", "t2"}
MCKlasses == {"Object", "A", "B", "C"}
MCSuperOf == [k \in MCKlasses |-> CASE k = "Object" -> "NoKlass"
                                    [] k = "B"      -> "A"
                                    [] OTHER        -> "Object"]

NeedsOf(a, c) == [k \in MCKlasses |-> CASE k = "A" -> a [] k = "C" -> c [] OTHER -> <<>>]

MCPrograms ==
  {[needs |-> n, fails |-> f] :
     n \in {NeedsOf(<<>>, <<>>), NeedsOf(<<"C">>, <<>>), NeedsOf(<<"C">>, <<"A">>),
            NeedsOf(<<"B">>, <<>>)},
     f \in {{}, {"C"}}}
====
