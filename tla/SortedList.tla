----------------------------- MODULE SortedList -----------------------------
(***************************************************************************)
(* std::sort, as it is used for lists of edges.  The comparison is a set of*)
(* pairs of positions of the list, the first to come before the second.    *)
(***************************************************************************)
EXTENDS Integers, Sequences, FiniteSets

(* How many elements come before the k-th.  Those that the comparison does *)
(* not tell apart keep their order; std::sort may change it, but where it  *)
(* is used they are equal.                                                 *)
Before(s, less, k) ==
  {j \in 1 .. Len(s) : <<j, k>> \in less \/ (<<k, j>> \notin less /\ j < k)}
Arranged(s, less) ==
  [i \in 1 .. Len(s) |->
     s[CHOOSE k \in 1 .. Len(s) : Cardinality(Before(s, less, k)) = i - 1]]
=============================================================================
