------------------------- MODULE LoaderDependencySet -------------------------
(***************************************************************************)
(* What ClassLoaderDependencies promises: every class loader has a set of *)
(* loaders it depends on, and recording a dependency adds one loader to    *)
(* that set in a single step.  A dependency on the null (boot) loader, or *)
(* on the loader itself or one of its parents, is never recorded, because *)
(* those loaders outlive it anyway.                                        *)
(***************************************************************************)
EXTENDS FiniteSets

CONSTANTS
  Loaders,      \* the class loader oops
  NullLoader,   \* the NULL oop: the boot loader
  ParentOf      \* [Loaders -> Loaders \cup {NullLoader}], java.lang.ClassLoader.parent

VARIABLE recorded   \* [Loaders -> SUBSET Loaders]

RECURSIVE AncestorsOf(_)
\* The loader and its parents up to (excluding) the boot loader.
AncestorsOf(l) ==
  IF l = NullLoader THEN {} ELSE {l} \cup AncestorsOf(ParentOf[l])

Init == recorded = [l \in Loaders |-> {}]

Record(from, to) ==
  /\ to \in Loaders /\ from \in Loaders
  /\ to \notin AncestorsOf(from)
  /\ recorded' = [recorded EXCEPT ![from] = @ \cup {to}]

Next == \E from, to \in Loaders : Record(from, to)

Spec == Init /\ [][Next]_recorded

=============================================================================
