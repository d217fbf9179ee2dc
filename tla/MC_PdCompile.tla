---------------------------- MODULE MC_PdCompile ----------------------------
(***************************************************************************)
(* Node 0 is the root, 1 top, 2 the constant base node (no inputs until   *)
(* it is created).  Calls have the five TypeFunc inputs Control, I_O,     *)
(* Memory, FramePtr, ReturnAdr, then precedence edges.  The graphs have   *)
(* a loop through a call, two calls reaching the same TOC load, a call    *)
(* reachable only over a precedence edge, a dead TOC call, a Mach node    *)
(* that needs no TOC, and a graph without TOC users.                      *)
(***************************************************************************)
EXTENDS PdCompile

MCNodes == 0..7
N == NULL

Call(ctl, mem, prec) == <<ctl, N, mem, N, 1>> \o prec

(* 3: leaf call in a loop with 4, a TOC load whose precedence edge leads  *)
(* to 5, a dynamic call; 6 a dead TOC call; 7 a static Java call, Mach    *)
(* but needing no TOC.                                                     *)
LoopGraph(r3, r5) ==
  [in   |-> [n \in MCNodes |->
               CASE n = 0 -> <<N, 3, 7>>
                 [] n = 1 -> <<0>>
                 [] n = 2 -> <<>>
                 [] n = 3 -> Call(0, 4, <<>>)
                 [] n = 4 -> <<3, N, 5>>
                 [] n = 5 -> Call(4, 4, <<>>)
                 [] n = 6 -> Call(0, 4, <<>>)
                 [] n = 7 -> Call(0, N, <<5>>)],
   mach |-> {3, 4, 5, 6, 7},
   toc  |-> {3, 4, 5, 6},
   rule |-> [n \in MCNodes |->
               CASE n = 3 -> r3 [] n = 5 -> r5 [] n = 4 -> "loadConL_Ex"
                 [] n = 6 -> "CallLeafDirect_Ex" [] OTHER -> "CallStaticJavaDirect"]]

(* Only 7, which needs no TOC. *)
NoTocGraph ==
  [in   |-> [n \in MCNodes |->
               CASE n = 0 -> <<7>> [] n = 1 -> <<0>> [] n = 7 -> Call(0, N, <<>>)
                 [] OTHER -> <<>>],
   mach |-> {7}, toc |-> {},
   rule |-> [n \in MCNodes |-> "CallStaticJavaDirect"]]

MCMatchedGraphs ==
  {LoopGraph(r3, r5) : r3 \in LeafRules, r5 \in DynamicRules \cup {"CallLeafDirect_Ex"}}
  \cup {NoTocGraph}
====
