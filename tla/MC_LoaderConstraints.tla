------------------------- MODULE MC_LoaderConstraints -------------------------
(***************************************************************************)
(* Three loaders and two class names.  L1 and L2 define T each on their  *)
(* own, L3 delegates T to L1, and every loader gets L1's U.  So an access  *)
(* from L2 to a member of L3 mentioning T conflicts with one from L1, and *)
(* a signature (U, T) adds its U constraint before the T one fails.       *)
(***************************************************************************)
EXTENDS LoaderConstraints

CONSTANTS L1, L2, L3, t1, t2

MCThreads == {t1, t2}

MCLoaders == {L1, L2, L3}
MCNames == {"T", "U"}

MCYields == [l \in MCLoaders |->
               [n \in MCNames |-> IF l = L1 \/ (l = L2 /\ n = "T") THEN <<n, l>>
                                  ELSE IF n = "U" THEN <<"U", L1>> ELSE <<"T", L1>>]]

(***************************************************************************)
(* Members declared by a class of L3, used from classes of L1 and of L2.  *)
(* A method is referenced through L3's class or through a subclass that  *)
(* the caller's own loader defined and that inherits it.                  *)
(***************************************************************************)
MCRequests ==
  {r \in [kind : {"method"}, current : {L1, L2}, resolved : {L1, L2, L3},
          holder : {L3}, sig : {<<"U", "T">>}] : r.resolved \in {r.current, L3}}
  \cup [kind : {"static call", "static field"}, current : {L1, L2}, resolved : {L3},
       holder : {L3}, sig : {<<"T">>}]
  \cup [kind : {"field"}, current : {L2}, resolved : {L3}, holder : {L3}, sig : {<<"T">>}]
====
