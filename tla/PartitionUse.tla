---------------------------- MODULE PartitionUse ----------------------------
(***************************************************************************)
(* The protocol that the users of a partition follow: elements are swapped *)
(* inside a cell, a cell is split by an object that lives while its splits *)
(* are added, and the cells of vertices are set again at some time after   *)
(* their cell was split.                                                   *)
(***************************************************************************)
EXTENDS Partition

VARIABLES
  pi,
  splitting,   \* whether there is an object of class cell_splitter
  cell_begin,  \* the last part of the cell that is split
  cell_end,
  opened,      \* for a property: the partition before, the cell,
  cell,        \*   and the splits that were added
  splits

vars == <<pi, splitting, cell_begin, cell_end, opened, cell, splits>>

Init ==
  /\ pi = UnitPartition
  /\ splitting = FALSE
  /\ cell_begin = 0 /\ cell_end = n
  /\ opened = pi /\ cell = 0 /\ splits = {}

Swap ==
  /\ ~splitting
  /\ \E c \in Cells(pi) : \E a, b \in Positions(pi, c) : pi' = SwapElements(pi, a, b)
  /\ UNCHANGED <<splitting, cell_begin, cell_end, opened, cell, splits>>

SetCell ==
  /\ ~splitting
  /\ \E c \in Cells(pi) : pi' = SetCellFromVIdx(pi, c)
  /\ UNCHANGED <<splitting, cell_begin, cell_end, opened, cell, splits>>

(* split_cell *)
Open(c) ==
  /\ ~splitting
  /\ splitting' = TRUE
  /\ cell_begin' = c /\ cell_end' = CellEnd(pi, c)
  /\ opened' = pi /\ cell' = c /\ splits' = {}
  /\ UNCHANGED pi

(* The splits are added in ascending order. *)
AddSplit(new) ==
  /\ splitting
  /\ cell_begin < new /\ new < cell_end
  /\ pi' = [pi EXCEPT !.next_cell_begin[cell_begin] = new, !.num_cells = @ + 1]
  /\ cell_begin' = new
  /\ splits' = splits \cup {new}
  /\ UNCHANGED <<splitting, cell_end, opened, cell>>

(* the destructor *)
LastEnds(p) == [p EXCEPT !.next_cell_begin[cell_begin] = cell_end]
Close ==
  /\ splitting
  /\ splitting' = FALSE
  /\ pi' = LastEnds(pi)
  /\ UNCHANGED <<cell_begin, cell_end, opened, cell, splits>>

Next ==
  \/ Swap
  \/ SetCell
  \/ \E c \in Cells(pi) : Open(c)
  \/ \E new \in Indices : AddSplit(new)
  \/ Close

Spec == Init /\ [][Next]_vars
-----------------------------------------------------------------------------
TypeOK ==
  /\ pi \in Partitions
  /\ splitting \in BOOLEAN
  /\ cell_begin \in Indices
  /\ cell_end \in 1 .. n

(* In whatever order they are used, the arrays of a partition agree unless *)
(* a cell is just being split: the inverse inverts, the cells follow each  *)
(* other and are counted, and the cell a vertex is taken to be in is one,  *)
(* and not after the vertex.                                               *)
AlwaysAgree == ~splitting => ArraysAgree(pi)

(* What splits one after the other come to is what SplitCell says of them  *)
(* together.                                                               *)
SplitsTogether == splitting => LastEnds(pi) = SplitCell(opened, cell, splits)
=============================================================================
