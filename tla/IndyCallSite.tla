---------------------------- MODULE IndyCallSite ----------------------------
(***************************************************************************)
(* LinkResolver::resolve_invokedynamic and resolve_dynamic_call for       *)
(* threads that execute the same invokedynamic instruction concurrently.  *)
(*                                                                         *)
(* f1 is the f1 field of the site's constant-pool-cache entry: NULL until *)
(* a call site is published.  resolve_invokedynamic tests it twice with    *)
(* no lock, before and after resolving the bootstrap specifier; a thread   *)
(* that finds it NULL both times calls the bootstrap method through        *)
(* find_dynamic_call_site_invoker and translates its exception.  The       *)
(* interpreter then publishes the thread's CallInfo with                   *)
(* ConstantPoolCacheEntry::set_dynamic_call, where the first writer wins   *)
(* and a loser uses the winner's entry (that code is outside this          *)
(* repository; it is modelled from spec 3 and 4.5).  A thread whose        *)
(* resolution failed executes the instruction again, up to MaxAttempts.   *)
(***************************************************************************)
EXTENDS Integers, FiniteSets

CONSTANTS
  Threads,
  MaxAttempts,       \* executions of the instruction per thread
  SpecifierMayFail,  \* whether resolve_bootstrap_specifier_at may throw
  NullTarget, NoResult

(* What the bootstrap method may throw. *)
Thrown == {"BootstrapMethodError", "LinkageError", "OtherError"}

(* The errors a resolution ends with. *)
Errors == {"BootstrapMethodError", "OtherError", "SpecifierError"}

(* A call site made by the i-th bootstrap invocation is the value i. *)
MaxCalls == MaxAttempts * Cardinality(Threads)
Targets  == 1..MaxCalls

VARIABLES
  f1,        \* NullTarget or the published call site
  pc,        \* [Threads -> program point]
  result,    \* [Threads -> the CallInfo or error of the last resolution]
  mine,      \* [Threads -> call site from the thread's own bootstrap call]
  attempts,  \* [Threads -> executions so far]
  bsmCalls   \* bootstrap method invocations so far, on any thread

vars == <<f1, pc, result, mine, attempts, bsmCalls>>

CS == INSTANCE CallSite WITH site <- f1

Init ==
  /\ f1 = NullTarget
  /\ pc = [t \in Threads |-> "idle"]
  /\ result = [t \in Threads |-> NoResult]
  /\ mine = [t \in Threads |-> NullTarget]
  /\ attempts = [t \in Threads |-> 0]
  /\ bsmCalls = 0

Goto(t, p) == pc' = [pc EXCEPT ![t] = p]
Return(t, r) == result' = [result EXCEPT ![t] = r] /\ Goto(t, "idle")

(* A linked instruction is not resolved again; a failed one is. *)
MayExecute(t) ==
  /\ attempts[t] < MaxAttempts
  /\ result[t] \notin [ok : Targets]

(* resolve_invokedynamic: the first is_f1_null() test. *)
ResolveInvokedynamic(t) ==
  /\ pc[t] = "idle" /\ MayExecute(t)
  /\ attempts' = [attempts EXCEPT ![t] = @ + 1]
  /\ Goto(t, IF f1 = NullTarget THEN "specifier" ELSE "recheck")
  /\ UNCHANGED <<f1, result, mine, bsmCalls>>

(* resolve_bootstrap_specifier_at(pool_index, CHECK) *)
ResolveBootstrapSpecifier(t) ==
  /\ pc[t] = "specifier"
  /\ \/ Goto(t, "recheck") /\ UNCHANGED result
     \/ SpecifierMayFail /\ Return(t, [err |-> "SpecifierError"])
  /\ UNCHANGED <<f1, mine, attempts, bsmCalls>>

CheckBoundUnchecked(t) ==
  /\ pc[t] = "recheck"
  /\ Return(t, [ok |-> f1])
  /\ UNCHANGED <<f1, mine, attempts, bsmCalls>>

(* The second test: a bound site is returned from the cache entry. *)
CheckBound(t) ==
  /\ pc[t] = "recheck"
  /\ IF f1 # NullTarget THEN Return(t, [ok |-> f1])
     ELSE Goto(t, "bootstrap") /\ UNCHANGED result
  /\ UNCHANGED <<f1, mine, attempts, bsmCalls>>

(***************************************************************************)
(* resolve_dynamic_call's handling of a pending exception: a              *)
(* BootstrapMethodError is thrown as it is, an exception that is not a    *)
(* LinkageError is not intercepted, a LinkageError is wrapped in a        *)
(* BootstrapMethodError.                                                   *)
(***************************************************************************)
TranslateUnwrapped(e) == e

Translate(e) ==
  CASE e = "BootstrapMethodError" -> e
    [] e # "LinkageError"         -> "OtherError"
    [] OTHER                      -> "BootstrapMethodError"

(* resolve_dynamic_call: find_dynamic_call_site_invoker runs the bootstrap *)
(* method, which returns a fresh call site or throws.                      *)
ResolveDynamicCall(t) ==
  /\ pc[t] = "bootstrap"
  /\ bsmCalls' = bsmCalls + 1
  /\ \/ mine' = [mine EXCEPT ![t] = bsmCalls + 1] /\ Goto(t, "publish") /\ UNCHANGED result
     \/ \E e \in Thrown : Return(t, [err |-> Translate(e)]) /\ UNCHANGED mine
  /\ UNCHANGED <<f1, attempts>>

(* set_dynamic_call: the first writer binds f1, a loser takes the winner's. *)
SetDynamicCall(t) ==
  /\ pc[t] = "publish"
  /\ f1' = IF f1 = NullTarget THEN mine[t] ELSE f1
  /\ Return(t, [ok |-> f1'])
  /\ UNCHANGED <<mine, attempts, bsmCalls>>

(* No thread has an instruction left to execute. *)
Terminated ==
  /\ \A t \in Threads : pc[t] = "idle" /\ ~MayExecute(t)
  /\ UNCHANGED vars

Next ==
  \/ \E t \in Threads :
       \/ ResolveInvokedynamic(t)
       \/ ResolveBootstrapSpecifier(t)
       \/ CheckBound(t)
       \/ ResolveDynamicCall(t)
       \/ SetDynamicCall(t)
  \/ Terminated

Spec == Init /\ [][Next]_vars

-----------------------------------------------------------------------------
(* Type invariant. *)
TypeOK ==
  /\ f1 \in Targets \cup {NullTarget}
  /\ pc \in [Threads -> {"idle", "specifier", "recheck", "bootstrap", "publish"}]
  /\ \A t \in Threads :
       result[t] \in {NoResult} \cup [ok : Targets] \cup [err : Errors]
  /\ mine \in [Threads -> Targets \cup {NullTarget}]
  /\ attempts \in [Threads -> 0..MaxAttempts]
  /\ bsmCalls \in 0..MaxCalls

(***************************************************************************)
(* Concurrent resolution of one site implements the once-bound call site: *)
(* every thread that links gets the one published target, the target      *)
(* never changes once published, and every error a thread sees is         *)
(* translated as resolve_dynamic_call promises (no bare LinkageError).    *)
(***************************************************************************)
ImplementsCallSite == CS!Spec

=============================================================================
