------------------------------ MODULE PdCompile ------------------------------
(***************************************************************************)
(* PdCompile::pd_post_matching_hook, which C2 calls once after matching   *)
(* (compile_ppc.cpp, compile_x86.hpp).  On x86 it is empty.  On PPC it    *)
(* walks the node graph from the root with Node::walk (depth first over   *)
(* the _max inputs, each node once, the callback before the inputs) and,  *)
(* for every Mach node whose ins_requires_toc() is nonzero, gets the      *)
(* MachConstantBaseNode, created on first use with the root as its only   *)
(* input.  A call node of one of four rules then gets that node on its    *)
(* ReturnAdr input, which the matcher left on top, and the register mask  *)
(* of that input set.  The walk reads a node's inputs after the callback  *)
(* has rewired them.                                                       *)
(*                                                                         *)
(* A graph is [in, mach, toc, rule]: in[n] the inputs of node n, NULL for *)
(* an empty slot; mach the Mach nodes; toc those needing the TOC; rule[n] *)
(* the matcher rule.                                                       *)
(***************************************************************************)
EXTENDS Integers, Sequences, FiniteSets

CONSTANTS
  Nodes,          \* node indices, ConstBase included
  RootNode,       \* C->root()
  TopNode,        \* C->top()
  ConstBase,      \* the node mach_constant_base_node() creates
  NULL,
  MatchedGraphs,  \* graphs as the matcher leaves them
  Platforms       \* the CPUs the hook is built for

VARIABLES
  platform,  \* the CPU of this build
  graph,     \* the graph the matcher left, fixed
  in,        \* the inputs now
  rms,       \* call->_in_rms[TypeFunc::ReturnAdr] of each node
  cbNode,    \* C->_mach_constant_base_node: NULL or ConstBase
  visited,   \* the walk's VectorSet
  stack,     \* walk_ activations [node, i]: i the input walked next
  asserted,  \* FALSE once assert(in(ReturnAdr)->is_top()) has failed
  phase      \* "matched", "walking" or "done"

pdVars == <<platform, graph, in, rms, cbNode, visited, stack, asserted, phase>>

ReturnAdr == 4   \* TypeFunc::ReturnAdr; in[n][ReturnAdr + 1] is in(ReturnAdr)

LeafRules    == {"CallLeafDirect_Ex", "CallLeafNoFPDirect_Ex"}
DynamicRules == {"CallDynamicJavaDirect", "CallDynamicJavaDirectSched_Ex"}

(* The call rules whose ReturnAdr input is made to carry the TOC. *)
TocCallRules == LeafRules \cup DynamicRules

(* Variant: only CallLeafDirect_Ex gets the leaf call mask. *)
MaskForLeafDirectOnly(rule) ==
  IF rule = "CallLeafDirect_Ex" THEN "BITS64_REG_LEAF_CALL_mask" ELSE "BITS64_REG_DYNAMIC_CALL_mask"

(* The mask _in_rms[ReturnAdr] gets for a call of that rule. *)
MaskFor(rule) ==
  IF rule \in LeafRules THEN "BITS64_REG_LEAF_CALL_mask" ELSE "BITS64_REG_DYNAMIC_CALL_mask"

(* Compile::mach_constant_base_node(): created with add_req(root) once. *)
MachConstantBaseNode(i0, cb0) ==
  IF cb0 = NULL THEN [i0 EXCEPT ![ConstBase] = <<RootNode>>] ELSE i0

(***************************************************************************)
(* visit_node_and_connect_toc(n): the inputs, masks, constant base node   *)
(* and assertion flag after visiting n.                                    *)
(***************************************************************************)
VisitNodeAndConnectToc(n, i0, r0, cb0, ok0) ==
  IF n \notin graph.mach \/ n \notin graph.toc
  THEN [in |-> i0, rms |-> r0, cb |-> cb0, ok |-> ok0]
  ELSE LET i1 == MachConstantBaseNode(i0, cb0) IN
       IF graph.rule[n] \notin TocCallRules
       THEN [in |-> i1, rms |-> r0, cb |-> ConstBase, ok |-> ok0]
       ELSE [in  |-> [i1 EXCEPT ![n][ReturnAdr + 1] = ConstBase],
             rms |-> [r0 EXCEPT ![n] = MaskFor(graph.rule[n])],
             cb  |-> ConstBase,
             ok  |-> ok0 /\ i0[n][ReturnAdr + 1] = TopNode]

(***************************************************************************)
(* Node::walk_(n) on entry: return if visited.test_set(n); else pre(n),   *)
(* then the loop over the inputs starts (a new activation on the stack).  *)
(***************************************************************************)
WalkEnter(n, s) ==
  IF n \in visited
  THEN stack' = s /\ UNCHANGED <<in, rms, cbNode, visited, asserted>>
  ELSE LET v == VisitNodeAndConnectToc(n, in, rms, cbNode, asserted) IN
       /\ visited' = visited \cup {n}
       /\ in' = v.in
       /\ rms' = v.rms
       /\ cbNode' = v.cb
       /\ asserted' = v.ok
       /\ stack' = Append(s, [node |-> n, i |-> 0])

PdInit ==
  /\ platform \in Platforms
  /\ graph \in MatchedGraphs
  /\ in = graph.in
  /\ rms = [n \in Nodes |-> "matcher"]
  /\ cbNode = NULL
  /\ visited = {}
  /\ stack = <<>>
  /\ asserted = TRUE
  /\ phase = "matched"

(* PdCompile::pd_post_matching_hook on PPC: root->walk(visit_..., nop). *)
PdPostMatchingHook ==
  /\ phase = "matched"
  /\ platform = "ppc"
  /\ WalkEnter(RootNode, <<>>)
  /\ phase' = "walking"
  /\ UNCHANGED <<platform, graph>>

(* PdCompile::pd_post_matching_hook on x86: empty. *)
PdPostMatchingHookX86 ==
  /\ phase = "matched"
  /\ platform = "x86"
  /\ phase' = "done"
  /\ UNCHANGED <<platform, graph, in, rms, cbNode, visited, stack, asserted>>

(***************************************************************************)
(* One turn of walk_'s loop `for (i = 0; i < _max; i++) if (in(i))        *)
(* in(i)->walk_(...)`, reading in(i) as it is now, or the return of the   *)
(* innermost activation once i reaches _max.                               *)
(***************************************************************************)
WalkStep ==
  /\ phase = "walking"
  /\ LET f    == stack[Len(stack)]
         rest == SubSeq(stack, 1, Len(stack) - 1)
     IN  IF f.i < Len(in[f.node])
         THEN LET c    == in[f.node][f.i + 1]
                  next == Append(rest, [f EXCEPT !.i = f.i + 1])
              IN  IF c = NULL
                  THEN stack' = next /\ UNCHANGED <<in, rms, cbNode, visited, asserted>>
                  ELSE WalkEnter(c, next)
         ELSE stack' = rest /\ UNCHANGED <<in, rms, cbNode, visited, asserted>>
  /\ phase' = IF stack' = <<>> THEN "done" ELSE "walking"
  /\ UNCHANGED <<platform, graph>>

PdNext == PdPostMatchingHook \/ PdPostMatchingHookX86 \/ WalkStep

PdSpec == PdInit /\ [][PdNext]_pdVars

-----------------------------------------------------------------------------
(* The nodes reachable from the root over the matcher's input edges: the *)
(* reference the walk is checked against.                                  *)
RECURSIVE Closure(_, _)
Closure(g, S) ==
  LET T == S \cup (UNION {{g.in[n][i] : i \in DOMAIN g.in[n]} : n \in S} \cap Nodes)
  IN  IF T = S THEN S ELSE Closure(g, T)

Reachable(g) == Closure(g, {RootNode})

(* The TOC users and the TOC call nodes the hook must reach. *)
TocUsers(g) == {n \in Reachable(g) : n \in g.mach /\ n \in g.toc}
TocCalls(g) == {n \in TocUsers(g) : g.rule[n] \in TocCallRules}

(***************************************************************************)
(* pd_post_matching_hook's effect: on PPC every reachable call of the four *)
(* rules has the constant base node on ReturnAdr and the mask of its      *)
(* rule, the constant base node exists iff some reachable node needs the  *)
(* TOC, and no other input or mask changed; on x86 nothing changed.  The  *)
(* "not top?" assertion never fails on the way: the walk rewires each     *)
(* call once although it reaches it over several edges and cycles.        *)
(***************************************************************************)
HookConnectsEveryTocCall ==
  /\ asserted
  /\ phase = "done" =>
       LET calls == IF platform = "ppc" THEN TocCalls(graph) ELSE {}
           made  == platform = "ppc" /\ TocUsers(graph) # {}
       IN  /\ cbNode = IF made THEN ConstBase ELSE NULL
           /\ in = [n \in Nodes |->
                      IF n \in calls THEN [graph.in[n] EXCEPT ![ReturnAdr + 1] = ConstBase]
                      ELSE IF n = ConstBase /\ made THEN <<RootNode>>
                      ELSE graph.in[n]]
           /\ \A n \in Nodes :
                rms[n] = CASE n \notin calls                -> "matcher"
                          [] graph.rule[n] \in LeafRules -> "BITS64_REG_LEAF_CALL_mask"
                          [] OTHER                       -> "BITS64_REG_DYNAMIC_CALL_mask"

====
