---------------------------- MODULE Reachability ----------------------------
(***************************************************************************)
(* What a depth-first search from a node finds.  Graphs!ConnectionsIn      *)
(* computes the same matrix for finite graphs by recursion over sets of    *)
(* nodes; here it is the least set that is closed under the edges, which   *)
(* proofs can use directly.  MCPrepareRules compares the two.              *)
(*                                                                         *)
(* A graph is a function from the nodes to their successors; successors    *)
(* that are no nodes are ignored.                                          *)
(***************************************************************************)

\* The sets of nodes that no edge leaves.
ClosedSets(succ) ==
  {S \in SUBSET DOMAIN succ : \A m \in S : succ[m] \cap DOMAIN succ \subseteq S}

\* For each node, the nodes at the end of a path from it; it is one of them.
Reachable(succ) ==
  LET closed == ClosedSets(succ)
  IN  [m \in DOMAIN succ |-> {n \in DOMAIN succ : \A S \in closed : m \in S => n \in S}]
=============================================================================
