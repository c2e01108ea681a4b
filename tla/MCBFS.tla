------------------------------- MODULE MCBFS -------------------------------
(***************************************************************************)
(* Breadth first searches of the small search trees.                       *)
(***************************************************************************)
EXTENDS BFS, MCTrees
=============================================================================
