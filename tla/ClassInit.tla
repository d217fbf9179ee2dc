------------------------------ MODULE ClassInit ------------------------------
(***************************************************************************)
(* Class initialization from several threads, the procedure the comment  *)
(* of instanceKlass::ClassState points to (JVMS 2.16.5, spec section 5):  *)
(* under the class's init lock a thread waits while another thread is    *)
(* initializing the class, returns at once when it is itself initializing *)
(* it (the recursive request) or when the class is initialized, fails    *)
(* when the class is in the error state, and otherwise marks it           *)
(* being_initialized with itself as _init_thread.  Outside the lock it    *)
(* then initializes the superclass and runs <clinit>, whose own static    *)
(* linkage initializes further classes; then it records the outcome      *)
(* under the lock and wakes the waiters.                                   *)
(*                                                                         *)
(* Each thread starts with one static access to a class.  A <clinit> is  *)
(* the sequence of classes it initializes, Needs[k], and whether it then *)
(* throws.  The call stack of initialize is a sequence of frames.          *)
(***************************************************************************)
EXTENDS Integers, Sequences, FiniteSets

CONSTANTS
  Threads,       \* the Java threads
  Klasses,       \* the classes, ObjectKlass included
  ObjectKlass,   \* initialized before any thread runs
  SuperOf,       \* [Klasses -> Klasses \cup {NoKlass}]
  NoKlass,
  NoThread,
  Programs       \* candidate [needs: [Klasses -> Seq(Klasses)], fails: SUBSET Klasses]

VARIABLES
  prog,        \* the <clinit> behaviour of each class, fixed
  target,      \* the class each thread's static access initializes
  initState,   \* instanceKlass::_init_state
  initThread,  \* instanceKlass::_init_thread
  clinitRuns,  \* how often each <clinit> has started
  stack,       \* per thread: frames [k, pc, i] of initialize calls
  ret,         \* per thread: the result of the call that just returned
  started      \* per thread: whether its static access has begun

ciVars == <<prog, target, initState, initThread, clinitRuns, stack, ret, started>>

NoRet == [k |-> NoKlass, val |-> "none"]

-----------------------------------------------------------------------------
(* instanceKlass's state predicates (part_001). *)
IsInitialized(k)                  == initState[k] = "fully_initialized"

(* Variant: _init_state >= being_initialized. *)
IsBeingInitializedOrLater(k) ==
  initState[k] \in {"being_initialized", "fully_initialized", "initialization_error"}

IsBeingInitialized(k)             == initState[k] = "being_initialized"
IsInErrorState(k)                 == initState[k] = "initialization_error"

(* Variant: any thread initializing the class counts as the current one. *)
IsReentrantInitializationAnyThread(k, t) == initThread[k] # NoThread

IsReentrantInitialization(k, t)   == initThread[k] = t

(* Step 2: wait while another thread is initializing the class. *)
MustWait(k, t) == IsBeingInitialized(k) /\ ~IsReentrantInitialization(k, t)

(* Variant: an initializer that threw leaves the class being_initialized. *)
OutcomeStateLeftLocked(ok) ==
  IF ok THEN "fully_initialized" ELSE "being_initialized"

(* Steps 10 and 11: the state recorded under the lock after <clinit>. *)
OutcomeState(ok) == IF ok THEN "fully_initialized" ELSE "initialization_error"

Top(t)      == stack[t][Len(stack[t])]
Pop(t)      == SubSeq(stack[t], 1, Len(stack[t]) - 1)
SetTop(t, f) == [stack EXCEPT ![t] = Append(Pop(t), f)]
Call(t, f, k) == [stack EXCEPT ![t] = Append(Append(Pop(t), f), [k |-> k, pc |-> "lock", i |-> 0])]

(* Return from the innermost initialize with val. *)
Return(t, k, val) ==
  /\ stack' = [stack EXCEPT ![t] = Pop(t)]
  /\ ret' = [ret EXCEPT ![t] = [k |-> k, val |-> val]]

-----------------------------------------------------------------------------
CIInit ==
  /\ prog \in Programs
  /\ target \in [Threads -> Klasses \ {ObjectKlass}]
  /\ initState = [k \in Klasses |-> IF k = ObjectKlass THEN "fully_initialized" ELSE "linked"]
  /\ initThread = [k \in Klasses |-> NoThread]
  /\ clinitRuns = [k \in Klasses |-> 0]
  /\ stack = [t \in Threads |-> <<>>]
  /\ ret = [t \in Threads |-> NoRet]
  /\ started = [t \in Threads |-> FALSE]

(* The thread's first static access calls initialize on its target. *)
StaticAccess(t) ==
  /\ ~started[t]
  /\ started' = [started EXCEPT ![t] = TRUE]
  /\ stack' = [stack EXCEPT ![t] = <<[k |-> target[t], pc |-> "lock", i |-> 0]>>]
  /\ UNCHANGED <<prog, target, initState, initThread, clinitRuns, ret>>

(***************************************************************************)
(* Steps 1 to 6, one atomic step under the init lock; not enabled while   *)
(* the thread waits, so a waiter sleeps until the state changes.           *)
(***************************************************************************)
LockAndCheck(t) ==
  /\ stack[t] # <<>>
  /\ Top(t).pc = "lock"
  /\ LET k == Top(t).k IN
     /\ ~MustWait(k, t)
     /\ \/ /\ IsBeingInitialized(k) \/ IsInitialized(k)
           /\ Return(t, k, "ok")
           /\ UNCHANGED <<initState, initThread>>
        \/ /\ IsInErrorState(k)
           /\ Return(t, k, "error")
           /\ UNCHANGED <<initState, initThread>>
        \/ /\ initState[k] = "linked"
           /\ initState' = [initState EXCEPT ![k] = "being_initialized"]
           /\ initThread' = [initThread EXCEPT ![k] = t]
           /\ stack' = SetTop(t, [Top(t) EXCEPT !.pc = "super"])
           /\ UNCHANGED ret
  /\ UNCHANGED <<prog, target, clinitRuns, started>>

(* Step 7: initialize the superclass when it is not initialized yet. *)
InitSuper(t) ==
  /\ stack[t] # <<>>
  /\ Top(t).pc = "super"
  /\ LET f == Top(t) IN
       IF SuperOf[f.k] # NoKlass /\ ~IsInitialized(SuperOf[f.k])
       THEN stack' = Call(t, [f EXCEPT !.pc = "superDone"], SuperOf[f.k])
       ELSE stack' = SetTop(t, [f EXCEPT !.pc = "superDone"])
  /\ ret' = [ret EXCEPT ![t] = NoRet]
  /\ UNCHANGED <<prog, target, initState, initThread, clinitRuns, started>>

(* Steps 7 and 11: a failed superclass, or <clinit> throwing, puts the    *)
(* class in the error state under the lock, wakes the waiters, and throws. *)
Fail(t) ==
  LET k == Top(t).k IN
  /\ initState' = [initState EXCEPT ![k] = OutcomeState(FALSE)]
  /\ initThread' = [initThread EXCEPT ![k] = NoThread]
  /\ Return(t, k, "error")
  /\ UNCHANGED clinitRuns

(* Step 8 and 9: after the superclass, call_class_initializer. *)
SuperDone(t) ==
  /\ stack[t] # <<>>
  /\ Top(t).pc = "superDone"
  /\ \/ /\ ret[t].val = "error"
        /\ Fail(t)
     \/ /\ ret[t].val # "error"
        /\ clinitRuns' = [clinitRuns EXCEPT ![Top(t).k] = @ + 1]
        /\ stack' = SetTop(t, [Top(t) EXCEPT !.pc = "clinit", !.i = 1])
        /\ ret' = [ret EXCEPT ![t] = NoRet]
        /\ UNCHANGED <<initState, initThread>>
  /\ UNCHANGED <<prog, target, started>>

(***************************************************************************)
(* One step of <clinit>: the static linkage of its next class, an         *)
(* exception from the class it just initialized, or its end: step 10     *)
(* records fully_initialized, step 11 the error.                           *)
(***************************************************************************)
Clinit(t) ==
  /\ stack[t] # <<>>
  /\ Top(t).pc = "clinit"
  /\ LET f == Top(t)
         needs == prog.needs[f.k]
     IN  \/ /\ ret[t].val = "error"
            /\ Fail(t)
         \/ /\ ret[t].val # "error"
            /\ f.i <= Len(needs)
            /\ stack' = Call(t, [f EXCEPT !.i = f.i + 1], needs[f.i])
            /\ ret' = [ret EXCEPT ![t] = NoRet]
            /\ UNCHANGED <<initState, initThread, clinitRuns>>
         \/ /\ ret[t].val # "error"
            /\ f.i > Len(needs)
            /\ initState' = [initState EXCEPT ![f.k] = OutcomeState(f.k \notin prog.fails)]
            /\ initThread' = [initThread EXCEPT ![f.k] = NoThread]
            /\ Return(t, f.k, IF f.k \in prog.fails THEN "error" ELSE "ok")
            /\ UNCHANGED clinitRuns
  /\ UNCHANGED <<prog, target, started>>

CIStep(t) == StaticAccess(t) \/ LockAndCheck(t) \/ InitSuper(t) \/ SuperDone(t) \/ Clinit(t)

CINext == \E t \in Threads : CIStep(t)

(* Every thread that can step is scheduled eventually. *)
CISpec == CIInit /\ [][CINext]_ciVars /\ \A t \in Threads : WF_ciVars(CIStep(t))

-----------------------------------------------------------------------------
Finished(t) == started[t] /\ stack[t] = <<>>

(* A thread that cannot step: it waits for another thread's class. *)
Waiting(t) == stack[t] # <<>> /\ Top(t).pc = "lock"
              /\ initState[Top(t).k] = "being_initialized" /\ initThread[Top(t).k] # t

(* The classes a thread has claimed: those on its stack past the lock. *)
Claimed(t) == {stack[t][j].k : j \in {j \in DOMAIN stack[t] : stack[t][j].pc # "lock"}}

(***************************************************************************)
(* No <clinit> runs twice, however the threads interleave; an initialize *)
(* that returns normally leaves its class initialized, or being           *)
(* initialized by the same thread (the recursive request of step 3), and *)
(* one that throws leaves its class in the error state.                   *)
(***************************************************************************)
InitializerRunsOnceAndResultsHold ==
  /\ \A k \in Klasses : clinitRuns[k] <= 1
  /\ \A t \in Threads :
       /\ ret[t].val = "ok" =>
            initState[ret[t].k] = "fully_initialized" \/ initThread[ret[t].k] = t
       /\ ret[t].val = "error" => initState[ret[t].k] = "initialization_error"

(***************************************************************************)
(* A class is being initialized exactly while one thread has claimed it   *)
(* and not yet recorded the outcome, so a waiting thread always waits on  *)
(* a thread that is still running its initializer: the init lock is      *)
(* never left held by a thread that returned, on success or on failure.   *)
(***************************************************************************)
WaitsOnlyOnLiveInitializer ==
  \A k \in Klasses :
    initState[k] = "being_initialized" <=>
      \E t \in Threads : k \in Claimed(t) /\ initThread[k] = t

(* The classes whose initialization may need another's: its superclass   *)
(* and the classes its <clinit> initializes.                              *)
DependsOn(k, j) ==
  j = SuperOf[k] \/ \E i \in DOMAIN prog.needs[k] : prog.needs[k][i] = j

(* Reach[n]: the pairs <<k, j>> joined by a dependency path of 1..n+1 edges. *)
Reach[n \in 0..Cardinality(Klasses)] ==
  IF n = 0 THEN {<<k, j>> \in Klasses \X Klasses : DependsOn(k, j)}
  ELSE Reach[n - 1] \cup {<<k, j>> \in Klasses \X Klasses :
                            \E m \in Klasses : <<k, m>> \in Reach[n - 1] /\ DependsOn(m, j)}

AcyclicDependencies == \A k \in Klasses : <<k, k>> \notin Reach[Cardinality(Klasses)]

(***************************************************************************)
(* When no class's initialization depends on itself, every static access *)
(* a thread has begun eventually completes, normally or with an error: waits  *)
(* end because the class's initializer records its outcome and wakes     *)
(* the waiters, the error state included.  With a dependency cycle two    *)
(* threads may wait on each other for ever, as the JVM does.              *)
(***************************************************************************)
EveryAccessCompletes ==
  \A t \in Threads : started[t] /\ AcyclicDependencies ~> Finished(t)

====
