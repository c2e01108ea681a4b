------------------------------- MODULE MCDFS -------------------------------
(***************************************************************************)
(* Depth first searches of the small search trees.                         *)
(***************************************************************************)
EXTENDS DFS, MCTrees
=============================================================================
