----------------------------- MODULE MC_VMSupport -----------------------------
(***************************************************************************)
(* Four VM services that share no state, checked in one run, one after   *)
(* the other: loader constraints at linkage from two threads              *)
(* (MC_LoaderConstraints), C2's post-matching hook over every modelled    *)
(* graph and platform (MC_PdCompile), class initialization from two      *)
(* threads over every modelled program (MC_ClassInit), and one            *)
(* invokedynamic site resolved by three threads (IndyCallSite).  When a   *)
(* stage ends its state is reset to a single value (the threads' results *)
(* are dropped, the Compile object dies), so the states of the stages add *)
(* up rather than multiply.  Since they share nothing, each stage reaches *)
(* the same states as alone.  The last stage is not reset.                *)
(***************************************************************************)
EXTENDS MC_ClassInit

CONSTANTS PdNull, LcNoClass, LcNoRequest, IndyNullTarget, IndyNoResult

VARIABLES
  stage,
  platform, graph, in, rms, cbNode, visited, pstack, asserted, phase,
  loaded, constraints, req, lcpc, next, outcome, initializer, links,
  f1, pc, result, mine, attempts, bsmCalls

pdVars   == <<platform, graph, in, rms, cbNode, visited, pstack, asserted, phase>>
lcVars   == <<loaded, constraints, req, lcpc, next, outcome, initializer, links>>
indyVars == <<f1, pc, result, mine, attempts, bsmCalls>>
allVars  == <<stage, ciVars, pdVars, lcVars, indyVars>>

PdGraphs == INSTANCE MC_PdCompile WITH
  stack <- pstack, Nodes <- 0..7, RootNode <- 0, TopNode <- 1, ConstBase <- 2,
  NULL <- PdNull, MatchedGraphs <- {}, Platforms <- {"ppc", "x86"}
PD == INSTANCE MC_PdCompile WITH
  stack <- pstack, Nodes <- 0..7, RootNode <- 0, TopNode <- 1, ConstBase <- 2,
  NULL <- PdNull, MatchedGraphs <- PdGraphs!MCMatchedGraphs, Platforms <- {"ppc", "x86"}

LcDefs == INSTANCE MC_LoaderConstraints WITH
  pc <- lcpc, L1 <- "L1", L2 <- "L2", L3 <- "L3", t1 <- "t1", t2 <- "t2",
  Loaders <- {}, Names <- {}, Yields <- {}, NoClass <- LcNoClass, Threads <- {},
  Requests <- {}, NoRequest <- LcNoRequest
LC == INSTANCE MC_LoaderConstraints WITH
  pc <- lcpc, L1 <- "L1", L2 <- "L2", L3 <- "L3", t1 <- "t1", t2 <- "t2",
  Loaders <- LcDefs!MCLoaders, Names <- LcDefs!MCNames, Yields <- LcDefs!MCYields,
  NoClass <- LcNoClass, Threads <- LcDefs!MCThreads, Requests <- LcDefs!MCRequests,
  NoRequest <- LcNoRequest

IC == INSTANCE IndyCallSite WITH
  Threads <- {"i1", "i2", "i3"}, MaxAttempts <- 2, SpecifierMayFail <- TRUE,
  NullTarget <- IndyNullTarget, NoResult <- IndyNoResult

(* Before the Java threads start: the first program, every target A. *)
CIIdle ==
  /\ CIInit
  /\ prog = CHOOSE p \in Programs : TRUE
  /\ target = [t \in Threads |-> "A"]

(* No graph: the compilation's state before it starts and after it ended. *)
NoGraph == [in |-> [n \in 0..7 |-> <<>>], mach |-> {}, toc |-> {},
            rule |-> [n \in 0..7 |-> "none"]]

PdIdle ==
  /\ platform = "none" /\ graph = NoGraph /\ in = NoGraph.in
  /\ rms = [n \in 0..7 |-> "matcher"]
  /\ cbNode = PdNull /\ visited = {} /\ pstack = <<>> /\ asserted = TRUE /\ phase = "none"

VMInit == stage = "loaders" /\ LC!LCInit /\ PdIdle /\ CIIdle /\ IC!Init

LoaderStep == stage = "loaders" /\ LC!LCNext /\ UNCHANGED <<stage, ciVars, pdVars, indyVars>>

(* Both resolutions have ended; their results are dropped; C2 matches. *)
EndLoaders ==
  /\ stage = "loaders" /\ LC!LCDone
  /\ stage' = "compile"
  /\ loaded' = [l \in LcDefs!MCLoaders |-> [n \in LcDefs!MCNames |-> LcNoClass]]
  /\ constraints' = {} /\ links' = {}
  /\ req' = [t \in LcDefs!MCThreads |-> LcNoRequest]
  /\ lcpc' = [t \in LcDefs!MCThreads |-> "idle"]
  /\ next' = [t \in LcDefs!MCThreads |-> 1]
  /\ outcome' = [t \in LcDefs!MCThreads |-> "none"]
  /\ initializer' = [l \in LcDefs!MCLoaders |-> NoThread]
  /\ platform' \in {"ppc", "x86"}
  /\ graph' \in PdGraphs!MCMatchedGraphs
  /\ in' = graph'.in /\ rms' = [n \in 0..7 |-> "matcher"] /\ cbNode' = PdNull
  /\ visited' = {} /\ pstack' = <<>> /\ asserted' = TRUE /\ phase' = "matched"
  /\ UNCHANGED <<ciVars, indyVars>>

HookStep == stage = "compile" /\ PD!PdNext /\ UNCHANGED <<stage, ciVars, lcVars, indyVars>>

(* The compilation ends and its graph is gone; the Java threads start. *)
EndCompile ==
  /\ stage = "compile" /\ phase = "done"
  /\ stage' = "threads"
  /\ platform' = "none" /\ graph' = NoGraph /\ in' = NoGraph.in
  /\ rms' = [n \in 0..7 |-> "matcher"]
  /\ cbNode' = PdNull /\ visited' = {} /\ pstack' = <<>> /\ asserted' = TRUE /\ phase' = "none"
  /\ prog' \in Programs
  /\ target' \in [Threads -> Klasses \ {ObjectKlass}]
  /\ UNCHANGED <<initState, initThread, clinitRuns, stack, ret, started, lcVars, indyVars>>

ThreadStep(t) == stage = "threads" /\ CIStep(t) /\ UNCHANGED <<stage, pdVars, lcVars, indyVars>>

(* Every static access has completed; the invokedynamic threads start. *)
EndThreads ==
  /\ stage = "threads" /\ \A t \in Threads : Finished(t)
  /\ stage' = "indy"
  /\ prog' = CHOOSE p \in Programs : TRUE
  /\ target' = [t \in Threads |-> "A"]
  /\ initState' = [k \in Klasses |-> IF k = ObjectKlass THEN "fully_initialized" ELSE "linked"]
  /\ initThread' = [k \in Klasses |-> NoThread]
  /\ clinitRuns' = [k \in Klasses |-> 0]
  /\ stack' = [t \in Threads |-> <<>>]
  /\ ret' = [t \in Threads |-> NoRet]
  /\ started' = [t \in Threads |-> FALSE]
  /\ UNCHANGED <<pdVars, lcVars, indyVars>>

IndyStep == stage = "indy" /\ IC!Next /\ UNCHANGED <<stage, ciVars, pdVars, lcVars>>

VMNext ==
  \/ LoaderStep \/ EndLoaders \/ HookStep \/ EndCompile \/ EndThreads \/ IndyStep
  \/ \E t \in Threads : ThreadStep(t)

(* The compiler thread, the stage changes and every Java thread that can *)
(* step eventually do; the resolving threads need no fairness here.       *)
VMSpec == VMInit /\ [][VMNext]_allVars
          /\ WF_allVars(HookStep \/ EndCompile \/ EndLoaders \/ EndThreads)
          /\ \A t \in Threads : WF_allVars(ThreadStep(t))

(***************************************************************************)
(* pd_post_matching_hook connects the TOC to every reachable call of the  *)
(* four rules, with the mask of its rule, once, and nothing else changes; *)
(* on x86 nothing changes (see PdCompile).                                 *)
(***************************************************************************)
HookConnectsEveryTocCall == PD!HookConnectsEveryTocCall

(* Linked accesses tie their loaders' classes together (see LoaderConstraints). *)
LinkedTypesAgree == LC!LinkedTypesAgree

(* The invokedynamic site's type invariant (see IndyCallSite). *)
IndyTypeOK == IC!TypeOK

(* The invokedynamic site implements CallSite (see IndyCallSite). *)
ImplementsCallSite == IC!ImplementsCallSite
====
