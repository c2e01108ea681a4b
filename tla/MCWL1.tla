------------------------------- MODULE MCWL1 -------------------------------
EXTENDS WL1, MCGraphs

(* What a sort is, beside the algorithms of Sorting: the range is in order,*)
(* the rest is as it was, and no element is lost or doubled.               *)
Ordered(p, q, first, last, key) ==
  /\ \A i \in first .. last - 2 : key[q.elements[i]] <= key[q.elements[i + 1]]
  /\ \A i \in Indices \ (first .. last - 1) : q.elements[i] = p.elements[i]
  /\ IsInjective(q.elements)
SortsAreRight(p, first, last, most) ==
  \A k \in [first .. last - 1 -> 0 .. most] :
    LET key == [v \in Indices |-> IF p.inverse[v] \in DOMAIN k THEN k[p.inverse[v]] ELSE 0]
    IN /\ Ordered(p, CountingSort(p, first, last, key), first, last, key)
       /\ most = 1 => Ordered(p, PartitionRange(p, first, last, key), first, last, key)

ASSUME SortingAssumption ==
  SortsAreRight(UnitPartition, 1, 6, 1) /\ SortsAreRight(UnitPartition, 1, 6, 3)
=============================================================================
