------------------------------ MODULE CallSite ------------------------------
(***************************************************************************)
(* What the linkage of one invokedynamic call site promises (spec 4.5):   *)
(* a resolution either fails with an error of the translated kinds, or    *)
(* returns the target the site is bound to, binding it first if it is not *)
(* bound yet.  The site is bound at most once and never changes after.    *)
(***************************************************************************)
CONSTANTS
  Threads,
  Targets,     \* the call sites a bootstrap method may produce
  Errors,      \* the errors a resolution may end with
  NullTarget,  \* f1 is NULL: the site is not bound
  NoResult     \* a thread that has not resolved yet

VARIABLES
  site,     \* NullTarget or the bound target
  result    \* [Threads -> NoResult, [ok |-> target] or [err |-> error]]

Init ==
  /\ site = NullTarget
  /\ result = [t \in Threads |-> NoResult]

LinkOk(t) ==
  /\ \/ site = NullTarget /\ \E g \in Targets : site' = g
     \/ site # NullTarget /\ site' = site
  /\ result' = [result EXCEPT ![t] = [ok |-> site']]

LinkFail(t) ==
  /\ \E e \in Errors : result' = [result EXCEPT ![t] = [err |-> e]]
  /\ UNCHANGED site

Next == \E t \in Threads : LinkOk(t) \/ LinkFail(t)

Spec == Init /\ [][Next]_<<site, result>>

=============================================================================
