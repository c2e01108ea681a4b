------------------------- MODULE PartitionUse_proofs -------------------------
(***************************************************************************)
(* The arrays of a partition agree, for every number of vertices.          *)
(*                                                                         *)
(* While a cell is split its last part has no end yet, so the invariant    *)
(* speaks of the partition as it would be if the splitting ended now.      *)
(***************************************************************************)
EXTENDS PartitionUse, FiniteSetTheorems, TLAPS

Closed == IF splitting THEN LastEnds(pi) ELSE pi

IInv ==
  /\ TypeOK
  /\ ArraysAgree(Closed)
  /\ splitting => cell_begin < cell_end /\ cell_begin \in Cells(Closed)

-----------------------------------------------------------------------------
(* The arrays of a partition, and the bounds of its cells.                 *)
LEMMA Arrays ==
  ASSUME NEW p \in Partitions
  PROVE  /\ p.elements \in [Indices -> Indices]
         /\ p.inverse \in [Indices -> Indices]
         /\ p.next_cell_begin \in [Indices -> 0 .. n]
         /\ p.cell_from_v_idx \in [Indices -> Indices]
         /\ p.num_cells \in Nat
BY DEF Partitions

LEMMA Bounds ==
  ASSUME NEW p \in Partitions, NEW c \in Cells(p)
  PROVE  /\ c \in Int /\ 0 <= c /\ c < n /\ c \in Indices
         /\ CellEnd(p, c) \in Int /\ 0 < CellEnd(p, c) /\ CellEnd(p, c) <= n
<1>1. c \in Indices /\ p.next_cell_begin[c] # 0
  BY DEF Cells, IsCell
<1>2. p.next_cell_begin[c] \in 0 .. n
  BY <1>1, Arrays
<1> QED
  BY <1>1, <1>2, SizeAssumption DEF CellEnd, Indices

(* The positions of a cell are positions of the partition.                 *)
LEMMA PositionsInside ==
  ASSUME NEW p \in Partitions, CellsFollow(p), NEW c \in Cells(p)
  PROVE  /\ c \in Positions(p, c)
         /\ Positions(p, c) \subseteq Indices
         /\ \A i \in Positions(p, c) : i \in Int /\ c <= i /\ i < CellEnd(p, c)
<1>1. c < CellEnd(p, c)
  BY DEF CellsFollow
<1> QED
  BY <1>1, Bounds, SizeAssumption DEF Positions, Indices

(* A cell that begins before a position of another one begins before that  *)
(* one: cells do not reach into each other.                                *)
LEMMA CellsApart ==
  ASSUME NEW p \in Partitions, CellsFollow(p),
         NEW c \in Cells(p), NEW i \in Positions(p, c),
         NEW d \in Cells(p), d <= i
  PROVE  d <= c
<1>1. c \in Int /\ d \in Int /\ CellEnd(p, c) \in Int
  BY Bounds
<1>2. i \in Int /\ i < CellEnd(p, c)
  BY PositionsInside
<1>3. d > c => d \in Positions(p, c)
  BY <1>1, <1>2 DEF Positions
<1>4. d \in Positions(p, c) => d = c
  BY DEF CellsFollow
<1> QED
  BY <1>1, <1>3, <1>4

(* put_element_on_index keeps the types.                                    *)
LEMMA PutIsPartition ==
  ASSUME NEW p \in Partitions, NEW v \in Indices, NEW i \in Indices
  PROVE  PutElementOnIndex(p, v, i) \in Partitions
<1>1. /\ [p.elements EXCEPT ![i] = v] \in [Indices -> Indices]
      /\ [p.inverse EXCEPT ![v] = i] \in [Indices -> Indices]
  BY DEF Partitions
<1> QED
  BY <1>1 DEF PutElementOnIndex, Partitions

(* swap_elements inside a cell leaves the arrays in agreement: the other   *)
(* vertex has no cell after the one in which they are swapped.             *)
LEMMA SwapAgrees ==
  ASSUME NEW p \in Partitions, ArraysAgree(p),
         NEW c \in Cells(p), NEW a \in Positions(p, c), NEW b \in Positions(p, c)
  PROVE  /\ SwapElements(p, a, b) \in Partitions
         /\ ArraysAgree(SwapElements(p, a, b))
<1> DEFINE q == SwapElements(p, a, b)
<1>1. a \in Indices /\ b \in Indices
  BY PositionsInside DEF ArraysAgree
<1>2. /\ q.next_cell_begin = p.next_cell_begin
      /\ q.cell_from_v_idx = p.cell_from_v_idx
      /\ q.num_cells = p.num_cells
      /\ q.elements = [[p.elements EXCEPT ![a] = p.elements[b]] EXCEPT ![b] = p.elements[a]]
      /\ q.inverse = [[p.inverse EXCEPT ![p.elements[b]] = a] EXCEPT ![p.elements[a]] = b]
  BY DEF SwapElements, PutElementOnIndex, Partitions
<1>3. q \in Partitions
  <2>1. p.elements[a] \in Indices /\ p.elements[b] \in Indices
    BY <1>1, Arrays
  <2> QED
    BY <1>1, <2>1, PutIsPartition DEF SwapElements
<1>4. InverseAgrees(q)
  BY <1>1, <1>2 DEF ArraysAgree, InverseAgrees, Partitions
<1>5. Cells(q) = Cells(p) /\ \A d : CellEnd(q, d) = CellEnd(p, d)
  BY <1>2 DEF Cells, IsCell, CellEnd, Partitions
<1>6. CellsFollow(q) /\ CellsCounted(q)
  BY <1>2, <1>5 DEF ArraysAgree, CellsFollow, CellsCounted, Positions, Partitions
<1>7. CellsKnown(q)
  <2> SUFFICES ASSUME NEW v \in Indices
               PROVE  q.cell_from_v_idx[v] \in Cells(q) /\ q.cell_from_v_idx[v] <= q.inverse[v]
    BY DEF CellsKnown
  <2> DEFINE d == p.cell_from_v_idx[v]
  <2>1. d \in Cells(p) /\ d <= p.inverse[v] /\ q.cell_from_v_idx[v] = d
    BY <1>2 DEF ArraysAgree, CellsKnown, Partitions
  <2>2. CASE p.inverse[v] \in {a, b}
    <3>1. d <= c
      BY <2>1, <2>2, CellsApart DEF ArraysAgree
    <3>2. q.inverse[v] \in {a, b}
      BY <1>1, <1>2, <2>2 DEF ArraysAgree, InverseAgrees, Partitions
    <3>3. c <= a /\ c <= b /\ c \in Int /\ d \in Int
      BY <2>1 DEF Positions, Cells, Indices
    <3> QED
      BY <1>1, <1>5, <2>1, <3>1, <3>2, <3>3 DEF Indices
  <2>3. CASE p.inverse[v] \notin {a, b}
    <3>1. v # p.elements[a] /\ v # p.elements[b]
      BY <1>1, <2>3 DEF ArraysAgree, InverseAgrees
    <3>2. q.inverse[v] = p.inverse[v]
      BY <1>1, <1>2, <3>1 DEF Partitions
    <3> QED
      BY <1>5, <2>1, <3>2
  <2> QED
    BY <2>2, <2>3
<1> QED
  BY <1>3, <1>4, <1>6, <1>7 DEF ArraysAgree

(* set_cell_from_v_idx of a cell leaves the arrays in agreement.           *)
LEMMA SetCellAgrees ==
  ASSUME NEW p \in Partitions, ArraysAgree(p), NEW c \in Cells(p)
  PROVE  /\ SetCellFromVIdx(p, c) \in Partitions
         /\ ArraysAgree(SetCellFromVIdx(p, c))
<1> DEFINE q == SetCellFromVIdx(p, c)
<1>1. Positions(p, c) \subseteq Indices /\ c \in Indices
  BY PositionsInside DEF ArraysAgree, Cells
<1>2. /\ q.elements = p.elements /\ q.inverse = p.inverse
      /\ q.next_cell_begin = p.next_cell_begin
      /\ q.num_cells = p.num_cells
      /\ q.cell_from_v_idx =
           [v \in Indices |-> IF \E i \in Positions(p, c) : p.elements[i] = v
                              THEN c ELSE p.cell_from_v_idx[v]]
  BY DEF SetCellFromVIdx, Partitions
<1>3. q \in Partitions
  <2>1. q.cell_from_v_idx \in [Indices -> Indices]
    BY <1>1, <1>2, Arrays
  <2> DEFINE f == q.cell_from_v_idx
  <2>2. q = [p EXCEPT !.cell_from_v_idx = f]
    BY <1>2 DEF SetCellFromVIdx
  <2> HIDE DEF f, q
  <2> QED
    BY <2>1, <2>2 DEF Partitions, f
<1>4. Cells(q) = Cells(p) /\ \A d : CellEnd(q, d) = CellEnd(p, d)
  BY <1>2 DEF Cells, IsCell, CellEnd, Partitions
<1>5. InverseAgrees(q) /\ CellsFollow(q) /\ CellsCounted(q)
  BY <1>2, <1>4
  DEF ArraysAgree, InverseAgrees, CellsFollow, CellsCounted, Positions, Partitions
<1>6. CellsKnown(q)
  <2> SUFFICES ASSUME NEW v \in Indices
               PROVE  q.cell_from_v_idx[v] \in Cells(q) /\ q.cell_from_v_idx[v] <= q.inverse[v]
    BY DEF CellsKnown
  <2>1. CASE \E i \in Positions(p, c) : p.elements[i] = v
    <3>1. PICK i \in Positions(p, c) : p.elements[i] = v
      BY <2>1
    <3>2. q.inverse[v] = i
      BY <1>1, <1>2, <3>1 DEF ArraysAgree, InverseAgrees, Partitions
    <3>3. q.cell_from_v_idx[v] = c /\ c <= i
      BY <1>2, <2>1 DEF Positions
    <3> QED
      BY <1>4, <3>2, <3>3
  <2>2. CASE ~ \E i \in Positions(p, c) : p.elements[i] = v
    BY <1>2, <1>4, <2>2 DEF ArraysAgree, CellsKnown, Partitions
  <2> QED
    BY <2>1, <2>2
<1> QED
  BY <1>3, <1>5, <1>6 DEF ArraysAgree

(* One more split of a cell leaves the arrays in agreement, without its    *)
(* new part being set as the cell of its vertices.                         *)
OneSplit(p, c, new) ==
  [p EXCEPT !.next_cell_begin = [[p.next_cell_begin EXCEPT ![c] = new] EXCEPT ![new] = CellEnd(p, c)],
            !.num_cells = @ + 1]
LEMMA OneSplitAgrees ==
  ASSUME NEW p \in Partitions, ArraysAgree(p),
         NEW c \in Cells(p), NEW new \in Positions(p, c), new # c
  PROVE  /\ OneSplit(p, c, new) \in Partitions
         /\ ArraysAgree(OneSplit(p, c, new))
         /\ new \in Cells(OneSplit(p, c, new))
<1> DEFINE q == OneSplit(p, c, new)
<1>1. /\ c \in Indices /\ new \in Indices /\ c < new
      /\ CellEnd(p, c) \in 1 .. n /\ new < CellEnd(p, c)
  <2>1. CellsFollow(p)
    BY DEF ArraysAgree
  <2>2. new \in Int /\ c <= new /\ new < CellEnd(p, c) /\ new \in Indices
    BY <2>1, PositionsInside
  <2> QED
    BY <2>2, Bounds, SizeAssumption
<1>2. /\ q.next_cell_begin = [[p.next_cell_begin EXCEPT ![c] = new] EXCEPT ![new] = CellEnd(p, c)]
      /\ q.num_cells = p.num_cells + 1
      /\ q.elements = p.elements /\ q.inverse = p.inverse
      /\ q.cell_from_v_idx = p.cell_from_v_idx
  BY DEF OneSplit, Partitions
<1>3. q \in Partitions
  <2> DEFINE f == [[p.next_cell_begin EXCEPT ![c] = new] EXCEPT ![new] = CellEnd(p, c)]
  <2>1. f \in [Indices -> 0 .. n]
    <3>1. new \in 0 .. n /\ CellEnd(p, c) \in 0 .. n
      BY <1>1, SizeAssumption DEF Indices
    <3> QED
      BY <1>1, <3>1, Arrays
  <2>2. q = [[p EXCEPT !.next_cell_begin = f] EXCEPT !.num_cells = p.num_cells + 1]
    BY DEF OneSplit, Partitions
  <2>3. p.num_cells + 1 \in Nat
    BY Arrays
  <2> HIDE DEF f, q
  <2>4. [p EXCEPT !.next_cell_begin = f] \in Partitions
    BY <2>1 DEF Partitions
  <2> QED
    BY <2>2, <2>3, <2>4 DEF Partitions
<1>4. /\ \A i \in Indices \ {c, new} : CellEnd(q, i) = CellEnd(p, i)
      /\ CellEnd(q, c) = new /\ CellEnd(q, new) = CellEnd(p, c)
  BY <1>1, <1>2 DEF CellEnd, Partitions
<1>5. Cells(q) = Cells(p) \cup {new}
  <2>1. \A i \in Indices : IsCell(q, i) <=> IsCell(p, i) \/ i = new
    <3>1. IsCell(p, c)
      BY DEF Cells
    <3>2. new # 0 /\ CellEnd(p, c) # 0
      BY <1>1 DEF Indices
    <3> QED
      BY <1>4, <3>1, <3>2 DEF IsCell, CellEnd
  <2> QED
    BY <1>1, <2>1 DEF Cells
<1>6. InverseAgrees(q)
  BY <1>2 DEF ArraysAgree, InverseAgrees
<1>7. CellsKnown(q)
  BY <1>2, <1>5 DEF ArraysAgree, CellsKnown
<1>8. new \notin Cells(p)
  BY DEF ArraysAgree, CellsFollow
<1>9. CellsCounted(q)
  <2>1. IsFiniteSet(Indices)
    BY FS_Interval, SizeAssumption DEF Indices
  <2>2. IsFiniteSet(Cells(p))
    BY <2>1, FS_Subset DEF Cells
  <2>3. Cardinality(Cells(p) \cup {new}) = Cardinality(Cells(p)) + 1
    BY <1>8, <2>2, FS_AddElement
  <2> QED
    BY <1>2, <1>5, <2>3 DEF ArraysAgree, CellsCounted
<1>10. CellsFollow(q)
  <2>1. 0 \in Cells(q)
    BY <1>5 DEF ArraysAgree, CellsFollow
  <2> SUFFICES ASSUME NEW d \in Cells(q)
               PROVE  /\ CellEnd(q, d) > d
                      /\ CellEnd(q, d) = n \/ CellEnd(q, d) \in Cells(q)
                      /\ \A i \in Positions(q, d) : i \in Cells(q) => i = d
    BY <2>1 DEF CellsFollow
  <2>2. CASE d = c
    BY <1>1, <1>4, <1>5, <2>2 DEF ArraysAgree, CellsFollow, Positions, Indices
  <2>3. CASE d = new
    BY <1>1, <1>4, <1>5, <2>3 DEF ArraysAgree, CellsFollow, Positions, Indices
  <2>4. CASE d \notin {c, new}
    <3>1. d \in Cells(p) /\ CellEnd(q, d) = CellEnd(p, d) /\ d \in Indices
      BY <1>4, <1>5, <2>4 DEF Cells
    <3>2. new \notin Positions(p, d)
      <4> SUFFICES ASSUME new \in Positions(p, d)
                   PROVE  FALSE
        OBVIOUS
      <4>1. c <= d
        BY <1>1, <3>1, CellsApart DEF ArraysAgree, Indices
      <4>2. d <= c
        BY <1>1, <3>1, CellsApart DEF ArraysAgree, Positions, Indices
      <4> QED
        BY <1>1, <2>4, <3>1, <4>1, <4>2 DEF Indices
    <3> QED
      BY <1>5, <3>1, <3>2 DEF ArraysAgree, CellsFollow, Positions
  <2> QED
    BY <2>2, <2>3, <2>4
<1> QED
  BY <1>3, <1>5, <1>6, <1>7, <1>9, <1>10 DEF ArraysAgree
-----------------------------------------------------------------------------
LEMMA InitInv == Init => IInv
<1> SUFFICES ASSUME Init
             PROVE  IInv
  OBVIOUS
<1>1. pi = UnitPartition /\ Closed = pi /\ ~splitting
  BY DEF Init, Closed
<1>2. UnitPartition \in Partitions
  BY SizeAssumption DEF UnitPartition, Partitions, Indices
<1>3. Cells(UnitPartition) = {0} /\ CellEnd(UnitPartition, 0) = n
  BY SizeAssumption DEF UnitPartition, Cells, IsCell, CellEnd, Indices
<1>4. CellsFollow(UnitPartition)
  BY <1>3, SizeAssumption DEF CellsFollow
<1>5. CellsCounted(UnitPartition)
  BY <1>3, FS_Singleton DEF CellsCounted, UnitPartition
<1>6. InverseAgrees(UnitPartition) /\ CellsKnown(UnitPartition)
  <2>1. \A v \in Indices : /\ UnitPartition.elements[v] = v
                           /\ UnitPartition.inverse[v] = v
                           /\ UnitPartition.cell_from_v_idx[v] = 0
    BY DEF UnitPartition
  <2>2. \A v \in Indices : 0 <= v
    BY SizeAssumption DEF Indices
  <2> QED
    BY <1>3, <2>1, <2>2 DEF InverseAgrees, CellsKnown
<1>7. TypeOK
  <2>1. 0 \in Indices /\ n \in 1 .. n
    BY SizeAssumption DEF Indices
  <2> QED
    BY <1>1, <1>2, <2>1 DEF Init, TypeOK
<1> QED
  BY <1>1, <1>4, <1>5, <1>6, <1>7 DEF IInv, ArraysAgree

(* Adding a split while the last part has no end, and giving it one, is    *)
(* what OneSplit does to the partition in which it has one.                *)
LEMMA NextInv == IInv /\ [Next]_vars => IInv'
<1> SUFFICES ASSUME IInv, [Next]_vars
             PROVE  IInv'
  OBVIOUS
<1>1. TypeOK /\ ArraysAgree(Closed) /\ pi \in Partitions
  BY DEF IInv, TypeOK
<1>2. CASE Swap
  <2>1. Closed = pi /\ Closed' = pi'
    BY <1>2 DEF Swap, Closed
  <2>2. PICK c \in Cells(pi) : \E a, b \in Positions(pi, c) : pi' = SwapElements(pi, a, b)
    BY <1>2 DEF Swap
  <2>3. pi' \in Partitions /\ ArraysAgree(pi')
    BY <1>1, <2>1, <2>2, SwapAgrees
  <2> QED
    BY <1>1, <1>2, <2>1, <2>3 DEF Swap, IInv, TypeOK
<1>3. CASE SetCell
  <2>1. Closed = pi /\ Closed' = pi'
    BY <1>3 DEF SetCell, Closed
  <2>2. PICK c \in Cells(pi) : pi' = SetCellFromVIdx(pi, c)
    BY <1>3 DEF SetCell
  <2>3. pi' \in Partitions /\ ArraysAgree(pi')
    BY <1>1, <2>1, <2>2, SetCellAgrees
  <2> QED
    BY <1>1, <1>3, <2>1, <2>3 DEF SetCell, IInv, TypeOK
<1>4. ASSUME NEW c \in Cells(pi), Open(c)
      PROVE  IInv'
  <2>1. Closed = pi
    BY <1>4 DEF Open, Closed
  <2>2. c \in Indices /\ CellEnd(pi, c) \in 1 .. n /\ c < CellEnd(pi, c)
    <3>1. c < CellEnd(pi, c)
      BY <1>1, <2>1 DEF ArraysAgree, CellsFollow
    <3> QED
      BY <1>1, <3>1, Bounds, SizeAssumption
  <2>3. Closed' = pi
    <3>1. Closed' = [pi EXCEPT !.next_cell_begin[c] = CellEnd(pi, c)]
      BY <1>4 DEF Open, Closed, LastEnds
    <3>2. [pi.next_cell_begin EXCEPT ![c] = CellEnd(pi, c)] = pi.next_cell_begin
      BY <1>1, <2>2, Arrays DEF CellEnd
    <3> QED
      BY <1>1, <3>1, <3>2 DEF Partitions
  <2>4. TypeOK'
    BY <1>1, <1>4, <2>2 DEF Open, TypeOK
  <2>5. (cell_begin < cell_end)' /\ (cell_begin \in Cells(Closed))'
    BY <1>4, <2>2, <2>3 DEF Open
  <2> QED
    BY <1>1, <2>1, <2>3, <2>4, <2>5 DEF IInv
<1>5. ASSUME NEW new \in Indices, AddSplit(new)
      PROVE  IInv'
  <2> DEFINE p == LastEnds(pi)
  <2>1. Closed = p /\ splitting /\ splitting' /\ cell_begin \in Cells(p)
    BY <1>5 DEF AddSplit, Closed, IInv
  <2>2. cell_begin \in Indices /\ cell_end \in 1 .. n /\ cell_begin < new /\ new < cell_end
    BY <1>1, <1>5 DEF AddSplit, TypeOK
  <2> DEFINE f == [pi.next_cell_begin EXCEPT ![cell_begin] = cell_end]
             g == [pi.next_cell_begin EXCEPT ![cell_begin] = new]
             h == [g EXCEPT ![new] = cell_end]
  <2>3. f \in [Indices -> 0 .. n] /\ g \in [Indices -> 0 .. n]
    <3>1. new \in 0 .. n /\ cell_end \in 0 .. n
      BY <2>2, SizeAssumption DEF Indices
    <3> QED
      BY <1>1, <2>2, <3>1, Arrays
  <2>4. p = [pi EXCEPT !.next_cell_begin = f] /\ p.next_cell_begin = f /\ p.num_cells = pi.num_cells
    BY <1>1 DEF LastEnds, Partitions
  <2>5. p \in Partitions
    <3> HIDE DEF f, p
    <3> QED
      BY <1>1, <2>3, <2>4 DEF Partitions
  <2>6. CellEnd(p, cell_begin) = cell_end
    BY <1>1, <2>2, <2>4, Arrays DEF CellEnd
  <2>7. new \in Positions(p, cell_begin) /\ new # cell_begin
    BY <2>2, <2>6 DEF Positions, Indices
  <2>8. OneSplit(p, cell_begin, new) \in Partitions
        /\ ArraysAgree(OneSplit(p, cell_begin, new))
        /\ new \in Cells(OneSplit(p, cell_begin, new))
    BY <1>1, <2>1, <2>5, <2>7, OneSplitAgrees
  <2>9. pi' = [pi EXCEPT !.next_cell_begin = g, !.num_cells = @ + 1]
    BY <1>1, <1>5 DEF AddSplit, Partitions
  <2>10. Closed' = [pi' EXCEPT !.next_cell_begin = h]
    <3>1. Closed' = [pi' EXCEPT !.next_cell_begin[new] = cell_end]
      BY <1>5, <2>1 DEF AddSplit, Closed, LastEnds
    <3>2. pi'.next_cell_begin = g
      BY <1>1, <2>9 DEF Partitions
    <3> QED
      BY <3>1, <3>2
  <2>11. Closed' = OneSplit(p, cell_begin, new)
    <3>1. [[f EXCEPT ![cell_begin] = new] EXCEPT ![new] = cell_end] = h
      BY <1>1, <2>2, Arrays
    <3>2. OneSplit(p, cell_begin, new) = [p EXCEPT !.next_cell_begin = h, !.num_cells = @ + 1]
      BY <2>4, <2>6, <3>1 DEF OneSplit
    <3> HIDE DEF f, g, h, p
    <3> QED
      BY <1>1, <2>4, <2>9, <2>10, <3>2 DEF Partitions
  <2>12. pi' \in Partitions
    <3>1. pi' = [[pi EXCEPT !.next_cell_begin = g] EXCEPT !.num_cells = pi.num_cells + 1]
      BY <1>1, <2>9 DEF Partitions
    <3>2. pi.num_cells + 1 \in Nat
      BY <1>1, Arrays
    <3> HIDE DEF g
    <3>3. [pi EXCEPT !.next_cell_begin = g] \in Partitions
      BY <1>1, <2>3 DEF Partitions
    <3> QED
      BY <3>1, <3>2, <3>3 DEF Partitions
  <2>13. TypeOK'
    BY <1>1, <1>5, <2>2, <2>12 DEF AddSplit, TypeOK
  <2> QED
    BY <1>5, <2>2, <2>8, <2>11, <2>13 DEF AddSplit, IInv
<1>6. CASE Close
  <2>1. Closed' = Closed /\ pi' = LastEnds(pi) /\ ~splitting'
    BY <1>6 DEF Close, Closed
  <2>2. pi' \in Partitions
    <3> DEFINE f == [pi.next_cell_begin EXCEPT ![cell_begin] = cell_end]
    <3>1. f \in [Indices -> 0 .. n]
      BY <1>1, Arrays, SizeAssumption DEF TypeOK
    <3>2. pi' = [pi EXCEPT !.next_cell_begin = f]
      BY <2>1 DEF LastEnds
    <3> HIDE DEF f
    <3> QED
      BY <1>1, <3>1, <3>2 DEF Partitions
  <2> QED
    BY <1>1, <1>6, <2>1, <2>2 DEF Close, IInv, TypeOK
<1>7. CASE UNCHANGED vars
  BY <1>7 DEF vars, IInv, TypeOK, Closed, LastEnds
<1> QED
  BY <1>2, <1>3, <1>4, <1>5, <1>6, <1>7 DEF Next

(* Type correctness of a partition and of an object that splits it.        *)
THEOREM AlwaysTyped == Spec => []TypeOK
<1>1. IInv => TypeOK
  BY DEF IInv
<1> QED
  BY <1>1, InitInv, NextInv, PTL DEF Spec

(* For every number of vertices: in whatever order elements are swapped,   *)
(* cells split and cells set, the arrays of a partition agree.             *)
THEOREM ArraysAlwaysAgree == Spec => []AlwaysAgree
<1>1. IInv => AlwaysAgree
  BY DEF IInv, AlwaysAgree, Closed
<1> QED
  BY <1>1, InitInv, NextInv, PTL DEF Spec

-----------------------------------------------------------------------------
(* The splits that were added to a cell: they ascend, up to the last part, *)
(* and each part but the last has a next one.                              *)
IsNext(S, i, s) == s \in S /\ s > i /\ \A r \in S : r > i => s <= r
SplitsAscend ==
  /\ opened \in Partitions
  /\ cell \in Indices
  /\ cell_end = CellEnd(opened, cell)
  /\ splits \subseteq Indices
  /\ IsFiniteSet(splits)
  /\ cell_begin \in splits \cup {cell}
  /\ \A i \in splits \cup {cell} : i <= cell_begin
  /\ \A i \in splits \cup {cell} : i # cell_begin => \E s \in splits : IsNext(splits, i, s)
SInv == splitting => SplitsAscend /\ LastEnds(pi) = SplitCell(opened, cell, splits)

(* The next split is the one that Following chooses.                       *)
LEMMA NextFollows ==
  ASSUME NEW p, NEW c, NEW S \in SUBSET Indices, NEW i \in Indices,
         NEW s \in S, IsNext(S, i, s)
  PROVE  Following(p, c, S, i) = s
<1> DEFINE x == CHOOSE r \in S : r > i /\ \A q \in S : q > i => r <= q
<1>1. x \in S /\ x > i /\ \A q \in S : q > i => x <= q
  BY DEF IsNext
<1> HIDE DEF x
<1>2. x = s
  BY <1>1, SizeAssumption DEF IsNext, Indices
<1> QED
  BY <1>2 DEF Following, IsNext, x

LEMMA LastFollows ==
  ASSUME NEW p, NEW c, NEW S \in SUBSET Indices, NEW i \in Indices, \A r \in S : r <= i
  PROVE  Following(p, c, S, i) = CellEnd(p, c)
<1>1. \A r \in S : ~(r > i)
  BY DEF Indices
<1> QED
  BY <1>1 DEF Following

(* A split after all the others changes the ends of two parts only.        *)
LEMMA SplitOnce ==
  ASSUME IInv, SInv, NEW new \in Indices, AddSplit(new)
  PROVE  SInv'
<1> DEFINE more == splits \cup {new}
           q == SplitCell(opened, cell, splits)
<1>1. /\ SplitsAscend /\ LastEnds(pi) = q
      /\ pi \in Partitions /\ cell_begin \in Indices /\ cell_end \in 1 .. n
      /\ cell_begin < new /\ new < cell_end
  BY DEF AddSplit, SInv, IInv, TypeOK
<1>2. splits' = more /\ cell_begin' = new /\ opened' = opened /\ cell' = cell /\ cell_end' = cell_end
  BY DEF AddSplit
<1>3. new \notin splits /\ new # cell /\ more \subseteq Indices
  BY <1>1 DEF SplitsAscend, Indices
<1>4. \A i \in splits \cup {cell} : i \in Indices /\ i <= cell_begin /\ i < new
  BY <1>1 DEF SplitsAscend, Indices
<1>5. IsNext(more, cell_begin, new)
  BY <1>1, <1>4 DEF IsNext, Indices
<1>6. \A i \in splits \cup {cell}, s \in splits : IsNext(splits, i, s) => IsNext(more, i, s)
  BY <1>1, <1>3, <1>4 DEF IsNext, Indices
<1>7. SplitsAscend'
  <2>1. IsFiniteSet(more)
    BY <1>1, FS_AddElement DEF SplitsAscend
  <2>2. \A i \in more \cup {cell} : i <= new
    BY <1>4 DEF Indices
  <2>3. \A i \in more \cup {cell} : i # new => \E s \in more : IsNext(more, i, s)
    BY <1>1, <1>5, <1>6 DEF SplitsAscend
  <2> QED
    BY <1>1, <1>2, <1>3, <2>1, <2>2, <2>3 DEF SplitsAscend
<1> DEFINE f == q.next_cell_begin
           h == SplitCell(opened, cell, more).next_cell_begin
<1>8. /\ f = [i \in Indices |-> IF i \in splits \cup {cell} THEN Following(opened, cell, splits, i)
                                 ELSE opened.next_cell_begin[i]]
      /\ h = [i \in Indices |-> IF i \in more \cup {cell} THEN Following(opened, cell, more, i)
                                 ELSE opened.next_cell_begin[i]]
  BY <1>1 DEF SplitCell, SplitsAscend, Partitions
<1>9. h = [[f EXCEPT ![cell_begin] = new] EXCEPT ![new] = cell_end]
  <2>1. Following(opened, cell, more, new) = cell_end
    <3>1. \A r \in more : r <= new
      BY <1>4 DEF Indices
    <3> QED
      BY <1>1, <1>3, <3>1, LastFollows DEF SplitsAscend
  <2>2. Following(opened, cell, more, cell_begin) = new
    BY <1>1, <1>3, <1>5, NextFollows
  <2>3. ASSUME NEW i \in splits \cup {cell}, i # cell_begin
        PROVE  Following(opened, cell, more, i) = Following(opened, cell, splits, i)
    <3>1. PICK s \in splits : IsNext(splits, i, s)
      BY <1>1, <2>3 DEF SplitsAscend
    <3>2. i \in Indices /\ splits \in SUBSET Indices /\ more \in SUBSET Indices /\ s \in more
      BY <1>1, <1>3, <1>4 DEF SplitsAscend
    <3>3. Following(opened, cell, splits, i) = s
      BY <3>1, <3>2, NextFollows
    <3>4. Following(opened, cell, more, i) = s
      BY <1>6, <3>1, <3>2, NextFollows
    <3> QED
      BY <3>3, <3>4
  <2>4. cell_begin \in splits \cup {cell}
    BY <1>1 DEF SplitsAscend
  <2> DEFINE e == [[f EXCEPT ![cell_begin] = new] EXCEPT ![new] = cell_end]
  <2>5. /\ \A i \in splits \cup {cell} : i \in more \cup {cell}
        /\ \A i \in more \cup {cell} : i = new \/ i \in splits \cup {cell}
        /\ new \in more
    OBVIOUS
  <2> HIDE DEF more, f, h
  <2>6. e = [i \in Indices |-> IF i = new THEN cell_end ELSE IF i = cell_begin THEN new ELSE f[i]]
    BY <1>1, <1>8
  <2>7. ASSUME NEW i \in Indices PROVE h[i] = e[i]
    <3>1. CASE i = new \/ i = cell_begin
      BY <1>1, <1>8, <2>1, <2>2, <2>4, <2>5, <2>6, <3>1
    <3>2. CASE i \in splits \cup {cell} /\ i # cell_begin /\ i # new
      BY <1>8, <2>3, <2>5, <2>6, <3>2
    <3>3. CASE i \notin splits \cup {cell} /\ i # cell_begin /\ i # new
      BY <1>8, <2>5, <2>6, <3>3
    <3> QED
      BY <3>1, <3>2, <3>3
  <2> HIDE DEF e
  <2>8. h = [i \in Indices |-> h[i]] /\ e = [i \in Indices |-> e[i]]
    BY <1>8, <2>6
  <2> QED
    BY <2>7, <2>8 DEF e
<1>10. Cardinality(more) = Cardinality(splits) + 1 /\ Cardinality(splits) \in Nat
  BY <1>1, <1>3, FS_AddElement, FS_CardinalityType DEF SplitsAscend
<1>11. /\ q.num_cells = opened.num_cells + Cardinality(splits)
       /\ opened.num_cells \in Nat
       /\ SplitCell(opened, cell, more)
            = [[opened EXCEPT !.next_cell_begin = h]
                 EXCEPT !.num_cells = opened.num_cells + Cardinality(more)]
  BY <1>1 DEF SplitCell, SplitsAscend, Partitions
<1>12. LastEnds(pi)' = [[q EXCEPT !.next_cell_begin = [[f EXCEPT ![cell_begin] = new] EXCEPT ![new] = cell_end]]
                          EXCEPT !.num_cells = q.num_cells + 1]
  <2>1. q.num_cells = pi.num_cells
        /\ f = [pi.next_cell_begin EXCEPT ![cell_begin] = cell_end]
    BY <1>1 DEF LastEnds, Partitions
  <2>2. pi' = [pi EXCEPT !.next_cell_begin = [pi.next_cell_begin EXCEPT ![cell_begin] = new],
                         !.num_cells = pi.num_cells + 1]
    BY <1>1 DEF AddSplit, Partitions
  <2>3. LastEnds(pi)' = [pi' EXCEPT !.next_cell_begin[new] = cell_end]
    BY <1>2 DEF LastEnds
  <2>4. [[f EXCEPT ![cell_begin] = new] EXCEPT ![new] = cell_end]
          = [[pi.next_cell_begin EXCEPT ![cell_begin] = new] EXCEPT ![new] = cell_end]
    BY <1>1, <2>1, Arrays
  <2>5. q = [pi EXCEPT !.next_cell_begin = f]
    BY <1>1, <2>1 DEF LastEnds, Partitions
  <2> HIDE DEF f, q
  <2>6. LastEnds(pi)' = [[pi EXCEPT !.next_cell_begin = [[pi.next_cell_begin EXCEPT ![cell_begin] = new] EXCEPT ![new] = cell_end]]
                           EXCEPT !.num_cells = pi.num_cells + 1]
    BY <1>1, <2>2, <2>3 DEF Partitions
  <2> QED
    BY <1>1, <2>1, <2>4, <2>5, <2>6 DEF Partitions
<1>13. LastEnds(pi)' = SplitCell(opened, cell, more)
  <2>1. q = [[opened EXCEPT !.next_cell_begin = f]
               EXCEPT !.num_cells = opened.num_cells + Cardinality(splits)]
    BY <1>1 DEF SplitCell, SplitsAscend, Partitions
  <2> HIDE DEF f, h, q, more
  <2>2. q.num_cells + 1 = opened.num_cells + Cardinality(more)
    BY <1>10, <1>11
  <2>3. ASSUME NEW g, NEW k
        PROVE  [[q EXCEPT !.next_cell_begin = g] EXCEPT !.num_cells = k]
                 = [[opened EXCEPT !.next_cell_begin = g] EXCEPT !.num_cells = k]
    BY <1>1, <2>1 DEF SplitsAscend, Partitions
  <2> QED
    BY <1>9, <1>11, <1>12, <2>2, <2>3
<1> QED
  BY <1>2, <1>7, <1>13 DEF SInv

LEMMA NextSInv == IInv /\ SInv /\ [Next]_vars => SInv'
<1> SUFFICES ASSUME IInv, SInv, [Next]_vars
             PROVE  SInv'
  OBVIOUS
<1>1. CASE Swap \/ SetCell \/ Close
  BY <1>1 DEF Swap, SetCell, Close, SInv
<1>2. ASSUME NEW c \in Cells(pi), Open(c)
      PROVE  SInv'
  <2>1. /\ pi \in Partitions /\ c \in Indices
        /\ pi' = pi /\ opened' = pi /\ cell' = c /\ splits' = {}
        /\ cell_begin' = c /\ cell_end' = CellEnd(pi, c)
    BY <1>2, Bounds DEF Open, IInv, TypeOK
  <2>2. SplitsAscend'
    BY <2>1, FS_EmptySet DEF SplitsAscend, Indices
  <2>3. SplitCell(pi, c, {}) = pi
    <3>1. Following(pi, c, {}, c) = pi.next_cell_begin[c]
      BY DEF Following, CellEnd
    <3>2. [i \in Indices |-> IF i \in {} \cup {c} THEN Following(pi, c, {}, i)
                             ELSE pi.next_cell_begin[i]] = pi.next_cell_begin
      BY <2>1, <3>1, Arrays
    <3>3. Cardinality({}) = 0 /\ pi.num_cells + 0 = pi.num_cells
      BY <2>1, FS_EmptySet, Arrays
    <3> QED
      BY <2>1, <3>2, <3>3 DEF SplitCell, Partitions
  <2>4. LastEnds(pi)' = pi
    <3>1. LastEnds(pi)' = [pi EXCEPT !.next_cell_begin = [pi.next_cell_begin EXCEPT ![c] = pi.next_cell_begin[c]]]
      BY <2>1 DEF LastEnds, CellEnd, Partitions
    <3>2. [pi.next_cell_begin EXCEPT ![c] = pi.next_cell_begin[c]] = pi.next_cell_begin
      BY <2>1, Arrays
    <3> QED
      BY <2>1, <3>1, <3>2 DEF Partitions
  <2> QED
    BY <2>1, <2>2, <2>3, <2>4 DEF SInv
<1>3. CASE UNCHANGED vars
  BY <1>3 DEF vars, SInv, SplitsAscend, LastEnds
<1> QED
  BY <1>1, <1>2, <1>3, SplitOnce DEF Next

(* However many splits a user adds to a cell one after the other, they     *)
(* come to what cell_splitter's operator says of them together: a split    *)
(* cell may be taken as one step, as the refinements do.                   *)
THEOREM SplitsComeTogether == Spec => []SplitsTogether
<1>1. Init => SInv
  BY DEF Init, SInv
<1>2. IInv /\ SInv => SplitsTogether
  BY DEF SInv, SplitsTogether
<1>3. IInv /\ SInv /\ [Next]_vars => (IInv /\ SInv)'
  BY NextInv, NextSInv
<1> QED
  BY <1>1, <1>2, <1>3, InitInv, PTL DEF Spec
=============================================================================
