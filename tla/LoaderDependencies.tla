------------------------- MODULE LoaderDependencies -------------------------
(***************************************************************************)
(* ClassLoaderDependencies (classLoaderDependencies.cpp): threads record  *)
(* that one class loader depends on another, by appending to a linked     *)
(* list of two-element object arrays [loader, next] that hangs off the    *)
(* from-loader.  The list is searched without a lock (add), then searched *)
(* again from the last node seen and extended under the monitor of the     *)
(* list head (locked_add).                                                 *)
(*                                                                         *)
(* deps[l] lists element 0 of every node of l's list, in list order; the  *)
(* next pointer of node i is node i+1.  The head node exists from the     *)
(* start with a NULL element 0, which the first dependency fills in.       *)
(* Every write to a list happens under its head's monitor, so locked_add   *)
(* is one step; the unlocked search reads one field per step, in the      *)
(* order of the code, so that appends can happen between its reads.      *)
(* Those reads have no barrier: on a weakly ordered processor (the PPC    *)
(* ports) a field another thread wrote may still read as the NULL it held *)
(* when the node was allocated.  With WeakMemory each unlocked read may   *)
(* return that NULL instead of the value written.                          *)
(***************************************************************************)
EXTENDS Integers, Sequences, SequencesExt, FiniteSets

CONSTANTS
  Loaders, NullLoader, ParentOf,
  Threads,       \* the Java threads that load classes
  Requests,      \* the (from, to) loader pairs a thread may record
  AllocMayFail,  \* whether oopFactory::new_objectArray may throw OOM
  WeakMemory     \* whether unlocked reads may miss other threads' writes

VARIABLES
  deps,   \* [Loaders -> Seq(Loaders \cup {NullLoader})]
  pc,     \* [Threads -> program point]
  req,    \* [Threads -> the thread's (from, to) pair]
  ok,     \* [Threads -> node index of the unlocked walk; 0 is NULL]
  last    \* [Threads -> last node seen by the unlocked walk; 0 is NULL]

vars == <<deps, pc, req, ok, last>>

(* The set of dependencies the lists stand for: the refinement mapping. *)
Recorded == [l \in Loaders |-> ToSet(deps[l]) \ {NullLoader}]

LDS == INSTANCE LoaderDependencySet WITH recorded <- Recorded

NoRequest == [from |-> NullLoader, to |-> NullLoader]

Init ==
  /\ deps = [l \in Loaders |-> <<NullLoader>>]
  /\ pc = [t \in Threads |-> "idle"]
  /\ req = [t \in Threads |-> NoRequest]
  /\ ok = [t \in Threads |-> 0]
  /\ last = [t \in Threads |-> 0]

From(t) == req[t].from
To(t)   == req[t].to

Goto(t, p) == pc' = [pc EXCEPT ![t] = p]

(* What an unlocked read of a field holding v may return. *)
UnlockedRead(v, null) == {v} \cup (IF WeakMemory THEN {null} ELSE {})

(***************************************************************************)
(* record_dependency: nothing to record for the boot loader on either     *)
(* side, or for a loader on the from-loader's parent chain.  Otherwise    *)
(* add starts its unlocked walk at list_head, node 1.                     *)
(***************************************************************************)
NeedsRecordingSelfOnly(from, to) ==
  /\ to # NullLoader
  /\ from # NullLoader
  /\ to # from

NeedsRecording(from, to) ==
  /\ to # NullLoader
  /\ from # NullLoader
  /\ to \notin LDS!AncestorsOf(from)

RecordDependency(t, r) ==
  /\ pc[t] = "idle"
  /\ req' = [req EXCEPT ![t] = r]
  /\ IF NeedsRecording(r.from, r.to)
     THEN Goto(t, "walk") /\ ok' = [ok EXCEPT ![t] = 1] /\ last' = [last EXCEPT ![t] = 0]
     ELSE Goto(t, "done") /\ UNCHANGED <<ok, last>>
  /\ UNCHANGED deps

(* add: last = ok; if (ok->obj_at(0) == dependency()) return; *)
WalkElement(t) ==
  /\ pc[t] = "walk"
  /\ last' = [last EXCEPT ![t] = ok[t]]
  /\ \E seen \in UnlockedRead(deps[From(t)][ok[t]], NullLoader) :
       Goto(t, IF seen = To(t) THEN "done" ELSE "next")
  /\ UNCHANGED <<deps, req, ok>>

(* add: ok = ok->obj_at(1), and the loop test ok != NULL *)
WalkNextNoAdvance(t) ==
  /\ pc[t] = "next"
  /\ Goto(t, "walk")
  /\ UNCHANGED <<deps, req, ok, last>>

WalkNextPastEnd(t) ==
  /\ pc[t] = "next"
  /\ \E nxt \in UnlockedRead(IF ok[t] <= Len(deps[From(t)]) THEN ok[t] + 1 ELSE 0, 0) :
       /\ ok' = [ok EXCEPT ![t] = nxt]
       /\ Goto(t, IF nxt # 0 THEN "walk" ELSE "alloc")
  /\ UNCHANGED <<deps, req, last>>

WalkNext(t) ==
  /\ pc[t] = "next"
  /\ \E nxt \in UnlockedRead(IF ok[t] < Len(deps[From(t)]) THEN ok[t] + 1 ELSE 0, 0) :
       /\ ok' = [ok EXCEPT ![t] = nxt]
       /\ Goto(t, IF nxt # 0 THEN "walk" ELSE "alloc")
  /\ UNCHANGED <<deps, req, last>>

(* add: new_objectArray(2, CHECK); an OOM propagates out of record_dependency *)
Allocate(t) ==
  /\ pc[t] = "alloc"
  /\ \/ Goto(t, "lock")
     \/ AllocMayFail /\ Goto(t, "oom")
  /\ UNCHANGED <<deps, req, ok, last>>

(***************************************************************************)
(* locked_add: under the head's monitor, walk again from the last node    *)
(* the unlocked walk saw; if the loader is not there, fill element 0 of   *)
(* the final node when it is NULL (only the head's can be), else link a   *)
(* new node after it.                                                      *)
(***************************************************************************)
LockedAddOverwrite(t) ==
  /\ pc[t] = "lock"
  /\ LET l == deps[From(t)] IN
       IF Contains(SubSeq(l, last[t], Len(l)), To(t))
       THEN UNCHANGED deps
       ELSE deps' = [deps EXCEPT ![From(t)][Len(l)] = To(t)]
  /\ Goto(t, "done")
  /\ UNCHANGED <<req, ok, last>>

LockedAdd(t) ==
  /\ pc[t] = "lock"
  /\ LET l == deps[From(t)] IN
       IF Contains(SubSeq(l, last[t], Len(l)), To(t))
       THEN UNCHANGED deps
       ELSE IF l[Len(l)] = NullLoader
       THEN deps' = [deps EXCEPT ![From(t)][Len(l)] = To(t)]
       ELSE deps' = [deps EXCEPT ![From(t)] = Append(l, To(t))]
  /\ Goto(t, "done")
  /\ UNCHANGED <<req, ok, last>>

Finished == \A t \in Threads : pc[t] \in {"done", "oom"}

(* Every thread has returned: the model stutters. *)
Terminated == Finished /\ UNCHANGED vars

ThreadStep(t) ==
  \/ \E r \in Requests : RecordDependency(t, r)
  \/ WalkElement(t)
  \/ WalkNext(t)
  \/ Allocate(t)
  \/ LockedAdd(t)

Next == (\E t \in Threads : ThreadStep(t)) \/ Terminated

Spec == Init /\ [][Next]_vars

(* Threads are scheduled fairly by the OS; a thread that can step does. *)
FairSpec == Spec /\ \A t \in Threads : WF_vars(ThreadStep(t))

-----------------------------------------------------------------------------
(***************************************************************************)
(* Type invariant.  The unlocked walk's cursor always names a node of the *)
(* list it walks, and the locked walk starts at a node of it.             *)
(***************************************************************************)
TypeOK ==
  /\ pc \in [Threads -> {"idle", "walk", "next", "alloc", "lock", "done", "oom"}]
  /\ req \in [Threads -> Requests \cup {NoRequest}]
  /\ \A l \in Loaders : deps[l] \in Seq(Loaders \cup {NullLoader}) /\ Len(deps[l]) >= 1
  /\ \A t \in Threads :
       /\ pc[t] \in {"walk", "next"} => ok[t] \in 1..Len(deps[From(t)])
       /\ pc[t] \in {"alloc", "lock"} => last[t] \in 1..Len(deps[From(t)])

(***************************************************************************)
(* A thread that returned from record_dependency without an exception has *)
(* its dependency in the from-loader's list, whatever the other threads   *)
(* appended to or filled into that list meanwhile.                        *)
(***************************************************************************)
DependencyRecorded ==
  \A t \in Threads :
    pc[t] = "done" /\ NeedsRecording(From(t), To(t)) => To(t) \in Recorded[From(t)]

(***************************************************************************)
(* The lists implement the set of dependencies: a step adds at most one   *)
(* loader, never one on the from-loader's parent chain, and never loses   *)
(* one.                                                                    *)
(***************************************************************************)
ImplementsDependencySet == LDS!Spec

(* Every thread eventually returns from record_dependency. *)
AllRecordingsReturn == <>Finished

=============================================================================
