----------------------------- MODULE Partition -----------------------------
(***************************************************************************)
(* detail::partition: the vertices in an order that is cut into cells,     *)
(* with the inverse of the order, the cell that each vertex is in, and the *)
(* number of cells.  A cell is named by its first position.                *)
(*                                                                         *)
(* The arrays are changed one by one; that they agree depends on how they  *)
(* are used.                                                               *)
(***************************************************************************)
EXTENDS Integers, Sequences, FiniteSets

CONSTANT n  \* num_vertices

ASSUME SizeAssumption == n \in Nat \ {0}

Indices == 0 .. n - 1

UnitPartition ==
  [elements |-> [i \in Indices |-> i],
   inverse |-> [i \in Indices |-> i],
   next_cell_begin |-> [i \in Indices |-> IF i = 0 THEN n ELSE 0],
   cell_from_v_idx |-> [i \in Indices |-> 0],
   num_cells |-> 1]

CellEnd(p, cell) == p.next_cell_begin[cell]
CellSize(p, cell) == CellEnd(p, cell) - cell
IsCell(p, i) == p.next_cell_begin[i] # 0
Cells(p) == {i \in Indices : IsCell(p, i)}
Positions(p, cell) == cell .. CellEnd(p, cell) - 1

PutElementOnIndex(p, value, i) ==
  [p EXCEPT !.elements[i] = value, !.inverse[value] = i]
SwapWithoutInverse(p, a, b) ==
  [p EXCEPT !.elements[a] = p.elements[b], !.elements[b] = p.elements[a],
            !.inverse[p.elements[a]] = b]
SwapElements(p, a, b) ==
  PutElementOnIndex(PutElementOnIndex(p, p.elements[b], a), p.elements[a], b)

SetCellFromVIdx(p, cell) ==
  [p EXCEPT !.cell_from_v_idx =
     [v \in Indices |-> IF \E i \in Positions(p, cell) : p.elements[i] = v
                        THEN cell ELSE p.cell_from_v_idx[v]]]

(* cell_splitter, with all its splits: the end of each new cell is the next*)
(* split, or the end the cell had.                                         *)
Following(p, cell, splits, i) ==
  IF \E s \in splits : s > i
  THEN CHOOSE s \in splits : s > i /\ \A r \in splits : r > i => s <= r
  ELSE CellEnd(p, cell)
SplitCell(p, cell, splits) ==
  [p EXCEPT !.next_cell_begin =
              [i \in Indices |-> IF i \in splits \cup {cell} THEN Following(p, cell, splits, i)
                                                            ELSE p.next_cell_begin[i]],
            !.num_cells = @ + Cardinality(splits)]

(* The vertices of a cell, and the partition with given cells, their       *)
(* vertices in ascending order: splitByPredicate, for the labels of the    *)
(* user and for the degrees.                                               *)
Elements(p, a, b) == {p.elements[i] : i \in a .. b - 1}
CellsOf(p) == [c \in Cells(p) |-> Elements(p, c, CellEnd(p, c))]
Ascending(S) ==
  [i \in 1 .. Cardinality(S) |-> CHOOSE x \in S : Cardinality({y \in S : y < x}) = i - 1]

PartitionBy(C) ==
  LET cell(v) == CHOOSE c \in DOMAIN C : v \in C[c]
      inverse == [v \in Indices |-> cell(v) + Cardinality({u \in C[cell(v)] : u < v})]
  IN [elements |-> [i \in Indices |-> CHOOSE v \in Indices : inverse[v] = i],
      inverse |-> inverse,
      next_cell_begin |-> [i \in Indices |-> IF i \in DOMAIN C THEN i + Cardinality(C[i]) ELSE 0],
      cell_from_v_idx |-> [v \in Indices |-> cell(v)],
      num_cells |-> Cardinality(DOMAIN C)]

-----------------------------------------------------------------------------
Partitions ==
  [elements : [Indices -> Indices],
   inverse : [Indices -> Indices],
   next_cell_begin : [Indices -> 0 .. n],
   cell_from_v_idx : [Indices -> Indices],
   num_cells : Nat]

(* elements and inverse are inverse to each other, so each is a permutation*)
InverseAgrees(p) ==
  \A i \in Indices : p.inverse[p.elements[i]] = i /\ p.elements[p.inverse[i]] = i

(* The cells follow each other without a gap, from the first position to   *)
(* the last, and are as many as the counter says.                          *)
CellsFollow(p) ==
  /\ 0 \in Cells(p)
  /\ \A c \in Cells(p) :
       /\ CellEnd(p, c) > c
       /\ CellEnd(p, c) = n \/ CellEnd(p, c) \in Cells(p)
       /\ \A i \in Positions(p, c) : i \in Cells(p) => i = c
CellsCounted(p) == p.num_cells = Cardinality(Cells(p))

(* The cell a vertex is taken to be in was its cell at some time: it is a  *)
(* cell, and not after the vertex.                                         *)
CellsKnown(p) ==
  \A v \in Indices : p.cell_from_v_idx[v] \in Cells(p)
                     /\ p.cell_from_v_idx[v] <= p.inverse[v]

(* What every user of a partition relies on, at any time.                  *)
ArraysAgree(p) ==
  InverseAgrees(p) /\ CellsFollow(p) /\ CellsCounted(p) /\ CellsKnown(p)
=============================================================================
