------------------------ MODULE MC_LoaderDependencies ------------------------
(***************************************************************************)
(* Three loaders: L1 is a child of the boot loader, L2 a child of L1, and *)
(* L3 another child of the boot loader.  Three threads, each recording    *)
(* one dependency among the loaders and the boot loader.                  *)
(***************************************************************************)
EXTENDS LoaderDependencies

CONSTANTS L1, L2, L3, T1, T2, T3

MCLoaders == {L1, L2, L3}
MCThreads == {T1, T2, T3}
MCParentOf == [l \in MCLoaders |-> IF l = L2 THEN L1 ELSE NullLoader]

\* Every pair of the three loaders and the boot loader.
MCRequests ==
  {[from |-> f, to |-> d] : f \in MCLoaders \cup {NullLoader}, d \in MCLoaders \cup {NullLoader}}

\* The requests that reach the list of L2: a parent, itself, L3 twice.
MCRequestsOneList ==
  {[from |-> L2, to |-> d] : d \in MCLoaders} \cup {[from |-> L3, to |-> L1]}
=============================================================================
