-------------------------------- MODULE WL1 --------------------------------
(***************************************************************************)
(* refine_WL_1: the refinement of the partition of a node, with the data   *)
(* it shares between all nodes.  The neighbours of a refiner cell are      *)
(* counted; each cell that was hit is sorted by its counters, or, when few *)
(* of it were hit, its hit vertices are swapped to its end while the edges *)
(* are walked through again; it is split where the counters change, and    *)
(* the parts become refiners.  A visitor may find the node worse at each   *)
(* event, and the refinement is abandoned.                                 *)
(***************************************************************************)
EXTENDS Sorting, FiniteSetsExt

CONSTANTS
  Inputs,  \* graphs, as incidence lists, with the cells to start from
  None

VARIABLES
  input,
  pi,             \* the partition of the node, if there is one
  pc,             \* "idle", "refine" or "split"
  base,           \* the partition of the refined node that children are made of
  start,          \* the cells when the refinement began
  refiner_cells,  \* from the one that is next
  is_refiner,     \* the cells with that flag
  hit_count, max, max_count, non_zero_count,  \* cell_data
  counters,
  refiner,        \* refiner_begin and refiner_end
  refinees,       \* refinee_cells with their type and first_non_zero
  handled,        \* how many of them handle_refinee has dealt with
  event,          \* what the visitors were told last
  result

cellData == <<hit_count, max, max_count, non_zero_count, counters>>
vars == <<pi, input, pc, base, start, refiner_cells, is_refiner, cellData, refiner,
          refinees, handled, event, result>>

Graph == input.graph
Zero == [i \in Indices |-> 0]

-----------------------------------------------------------------------------
(* Counting                                                                *)

(* for_each_neighbour                                                      *)
Neighbours(p, v) ==
  SelectSeq(Graph[v], LAMBDA u : CellSize(p, p.cell_from_v_idx[u]) # 1)

RefinerElements(p, r) == [i \in 1 .. r.last - r.first |-> p.elements[r.first + i - 1]]

(* count_neighbours_from_singleton: what is hit is swapped to the end.     *)
Hit(st, u) ==
  LET c == st.p.cell_from_v_idx[u]
      k == st.hits[c] + 1
  IN [p |-> SwapElements(st.p, st.p.inverse[u], CellEnd(st.p, c) - k),
      hits |-> [st.hits EXCEPT ![c] = k]]

HitCells(p, W) ==
  {p.cell_from_v_idx[u] : u \in UNION {Range(Neighbours(p, v)) : v \in W}}

CountFromSingleton(r) ==
  LET st == FoldLeft(Hit, [p |-> pi, hits |-> hit_count],
                     Neighbours(pi, pi.elements[r.first]))
      hit == HitCells(pi, {pi.elements[r.first]})
  IN /\ pi' = st.p
     /\ hit_count' = st.hits
     /\ refinees' = [i \in 1 .. Cardinality(hit) |->
                       [first |-> Ascending(hit)[i], last |-> CellEnd(pi, Ascending(hit)[i]),
                        type |-> "singleton", first_non_zero |-> 0]]
     /\ UNCHANGED <<max, max_count, non_zero_count, counters>>

(* count_neighbours_from_cell                                              *)
Occurs(s, u) == Len(SelectSeq(s, LAMBDA w : w = u))
EdgesFrom(W, u) == FoldSet(LAMBDA v, k : k + Occurs(Neighbours(pi, v), u), 0, W)
CountFromCell(r) ==
  LET W == Elements(pi, r.first, r.last)
      cnt == [u \in Indices |-> counters[u] + EdgesFrom(W, u)]
      hit == HitCells(pi, W)
      In(c) == Elements(pi, c, CellEnd(pi, c))
      top == [c \in Indices |-> IF c \in hit THEN Max({cnt[u] : u \in In(c)}) ELSE max[c]]
  IN [counters |-> cnt,
      hit |-> hit,
      hits |-> [c \in Indices |->
                  IF c \in hit THEN hit_count[c] + FoldSet(LAMBDA u, k : k + EdgesFrom(W, u), 0, In(c))
                               ELSE hit_count[c]],
      max |-> top,
      max_count |-> [c \in Indices |-> IF c \in hit
                       THEN Cardinality({u \in In(c) : cnt[u] = top[c]}) ELSE max_count[c]],
      non_zero |-> [c \in Indices |-> IF c \in hit
                      THEN Cardinality({u \in In(c) : cnt[u] > 0}) ELSE non_zero_count[c]]]

(* How a cell that was hit will be brought into order.                     *)
Partitioned == {"unique_partitioning", "duplicate_partitioning"}
RefineeType(count, c) ==
  LET size == CellSize(pi, c)
  IN CASE count.max_count[c] = size -> "equal_hit"
       [] count.max_count[c] # size /\ count.max[c] = 1 -> "unique_partitioning"
       [] count.max_count[c] # size /\ count.max[c] # 1 ->
            IF count.hits[c] * 4 < 3 * size THEN "duplicate_partitioning" ELSE "sort"

(* redo_neighbours_from_cell: as from a singleton, for the cells that are  *)
(* partitioned; the elements of the refiner are read one after the other,  *)
(* and may be among those that are swapped.                                *)
Redo(r, type, hits) ==
  LET Again(st, u) ==
        LET c == st.p.cell_from_v_idx[u]
        IN IF \/ type[c] = "unique_partitioning"
              \/ /\ type[c] = "duplicate_partitioning"
                 /\ st.p.inverse[u] < CellEnd(st.p, c) - st.hits[c]
           THEN Hit(st, u)
           ELSE st
      FromElement(st, i) == FoldLeft(Again, st, Neighbours(st.p, st.p.elements[i]))
  IN FoldLeft(FromElement, [p |-> pi, hits |-> hits],
              [i \in 1 .. r.last - r.first |-> r.first + i - 1])

CountAndAnalyse(r) ==
  LET count == CountFromCell(r)
      type == [c \in Indices |-> IF c \in count.hit THEN RefineeType(count, c) ELSE "none"]
      order == Ascending(count.hit)
      parted == {c \in count.hit : type[c] \in Partitioned}
      hits == [c \in Indices |-> IF c \in parted THEN 0 ELSE count.hits[c]]
      total_hit_count == FoldSet(LAMBDA c, k : k + count.hits[c], 0, count.hit)
      zeroes_to_skip == FoldSet(LAMBDA c, k : k + CellSize(pi, c) - count.non_zero[c], 0,
                                {c \in count.hit : type[c] # "equal_hit"})
      st == IF parted # {} /\ total_hit_count < zeroes_to_skip
            THEN Redo(r, type, hits) ELSE [p |-> pi, hits |-> hits]
  IN /\ pi' = st.p
     /\ hit_count' = st.hits
     /\ counters' = count.counters
     /\ max' = count.max
     /\ max_count' = count.max_count
     /\ non_zero_count' = count.non_zero
     /\ refinees' = [i \in 1 .. Len(order) |->
                       [first |-> order[i], last |-> CellEnd(pi, order[i]),
                        type |-> type[order[i]], first_non_zero |-> 0]]

(* refine: the next refiner of the queue                                   *)
TakeRefiner ==
  /\ pc = "refine"
  /\ LET r == [first |-> Head(refiner_cells), last |-> CellEnd(pi, Head(refiner_cells))]
     IN /\ refiner' = r
        /\ is_refiner' = is_refiner \ {r.first}
        /\ IF r.first + 1 = r.last /\ ~input.ParallelEdges /\ ~input.Loops
           THEN CountFromSingleton(r)
           ELSE CountAndAnalyse(r)
  /\ refiner_cells' = Tail(refiner_cells)
  /\ handled' = 0
  /\ pc' = "split"
  /\ event' = None
  /\ UNCHANGED <<input, base, start, result>>

-----------------------------------------------------------------------------
(* handle_refinee                                                          *)

Current == refinees[handled + 1]
Mid(r) == r.last - hit_count[r.first]
(* the hit vertices are at the end already                                 *)
AlreadyParted(r) ==
  r.type = "singleton" \/ (r.type \in Partitioned /\ hit_count[r.first] # 0)
NeverSortParted(r) == r.type \in {"singleton", "equal_hit"} \/ AlreadyParted(r)
NothingToSort(r) ==
  \/ r.type \in {"singleton", "equal_hit"}
  \/ AlreadyParted(r) /\ \/ r.type = "unique_partitioning"
                         \/ max_count[r.first] = hit_count[r.first]

(* The part of a cell that is to be sorted by counters; all are less than  *)
(* 256, so that no std::sort is needed.                                    *)
SortedFrom(r) == IF AlreadyParted(r) THEN Mid(r) ELSE r.first
Arranged(r) ==
  IF NothingToSort(r) THEN pi
  ELSE IF r.type = "unique_partitioning" THEN PartitionRange(pi, r.first, r.last, counters)
  ELSE CountingSort(pi, SortedFrom(r), r.last, counters)

(* refined_beginnings: where hit and other vertices meet, and where the    *)
(* counters of the sorted ones change                                      *)
ZerosFromRest(r, p) ==
  IF AlreadyParted(r) THEN {Mid(r)} \ {r.first}
  ELSE {i \in r.first + 1 .. r.last - 1 : counters[p.elements[i - 1]] = 0
                                          /\ counters[p.elements[i]] # 0}
NewBeginnings(r, p) ==
  (IF AlreadyParted(r) THEN {Mid(r)} \ {r.first} ELSE {})
    \cup {i \in SortedFrom(r) + 1 .. r.last - 1 :
            /\ ~NothingToSort(r)
            /\ counters[p.elements[i - 1]] < counters[p.elements[i]]}

FirstOfMax(r) == r.last - max_count[r.first]
FirstNonZero(r) ==
  IF r.type = "equal_hit" THEN r.first
  ELSE IF AlreadyParted(r) THEN Mid(r)
  ELSE r.first + Cardinality({i \in r.first .. r.last - 1 : counters[pi.elements[i]] = 0})

(* add_refiner_cells: "Hopcroft's trick" of leaving out a largest part     *)
NewRefiners(p, c, new) ==
  LET largest == CHOOSE i \in new \cup {c} : \A j \in new \cup {c} :
                   \/ CellSize(p, j) < CellSize(p, i)
                   \/ CellSize(p, j) = CellSize(p, i) /\ i <= j
  IN IF c \in is_refiner THEN Ascending(new) ELSE Ascending((new \cup {c}) \ {largest})

HandledRefinees ==
  [refinees EXCEPT ![handled + 1].first_non_zero = FirstNonZero(Current)]
Handle == handled' = handled + 1 /\ refinees' = HandledRefinees

Joined ==
  /\ pc = "split" /\ handled < Len(refinees)
  /\ NewBeginnings(Current, Arranged(Current)) = {}
  /\ event' = <<"quotient", refiner.first, Current.first, hit_count[Current.first]>>
  /\ pi' = Arranged(Current)
  /\ Handle
  /\ UNCHANGED <<input, pc, base, start, refiner_cells, is_refiner, cellData, refiner, result>>

SplitRefinee ==
  /\ pc = "split" /\ handled < Len(refinees)
  /\ LET c == Current.first
         new == NewBeginnings(Current, Arranged(Current))
         more == NewRefiners(pi', c, new)
     IN /\ new # {}
        /\ event' = <<"split", refiner.first, c, new>>
        /\ pi' = SplitCell(Arranged(Current), c, new)
        /\ refiner_cells' = refiner_cells \o more
        /\ is_refiner' = is_refiner \cup Range(more)
  /\ result' = "Changed"
  /\ Handle
  /\ UNCHANGED <<input, pc, base, start, cellData, refiner>>

-----------------------------------------------------------------------------
(* The end of a refiner, and of a refinement                               *)

(* clear_refinee_data: the first k have been handled, and their counters   *)
(* are known to be zero before first_non_zero.                             *)
ClearedFrom(rs, i, k) == IF i <= k THEN rs[i].first_non_zero ELSE rs[i].first
ClearedHandled(p, rs, k) ==
  UNION {IF rs[i].type = "singleton" THEN {}
         ELSE Elements(p, rs[i].first_non_zero, rs[i].last) : i \in 1 .. k}
Cleared(p, rs, k) ==
  UNION {IF rs[i].type = "singleton" THEN {}
         ELSE Elements(p, ClearedFrom(rs, i, k), rs[i].last) : i \in 1 .. Len(rs)}
ClearRefineeData(p, rs, k) ==
  LET firsts == {rs[i].first : i \in 1 .. Len(rs)}
      Clear(f) == [c \in Indices |-> IF c \in firsts THEN 0 ELSE f[c]]
  IN /\ hit_count' = Clear(hit_count)
     /\ max' = Clear(max)
     /\ max_count' = Clear(max_count)
     /\ non_zero_count' = Clear(non_zero_count)
     /\ counters' = [v \in Indices |-> IF v \in Cleared(p, rs, k) THEN 0 ELSE counters[v]]

(* reset_cell_beginnings                                                   *)
KeepCellBeginnings(p) == p
ResetCellBeginnings(p) ==
  LET inRefinees == {c \in Cells(p) : \E i \in 1 .. Len(refinees) :
                       c \in refinees[i].first .. refinees[i].last - 1}
  IN FoldSet(LAMBDA c, q : SetCellFromVIdx(q, c), p, inRefinees)

Finish ==
  /\ refinees' = <<>>
  /\ handled' = 0
  /\ refiner' = None

End ==
  /\ pc' = "idle"
  /\ is_refiner' = is_refiner \ Range(refiner_cells)
  /\ refiner_cells' = <<>>

RefinerDone ==
  /\ pc = "split" /\ handled = Len(refinees)
  /\ ClearRefineeData(pi, refinees, handled)
  /\ pi' = ResetCellBeginnings(pi)
  /\ event' = <<"done", refiner.first, refiner.last>>
  /\ Finish
  /\ \/ /\ pi.num_cells = n \/ refiner_cells = <<>>
        /\ End
        /\ base' = pi' \/ (base # None /\ UNCHANGED base)
     \/ /\ pi.num_cells # n /\ refiner_cells # <<>>
        /\ pc' = "refine"
        /\ UNCHANGED <<base, refiner_cells, is_refiner>>
  /\ UNCHANGED <<input, start, result>>

(* A visitor finds the node worse, at the event of the next refinee, or    *)
(* when the refiner is done.  The node with its partition is destroyed.    *)
Abort ==
  /\ pc = "split" /\ base # None
  /\ \/ /\ handled < Len(refinees)
        /\ ClearRefineeData(Arranged(Current), HandledRefinees, handled + 1)
     \/ /\ handled = Len(refinees)
        /\ ClearRefineeData(pi, refinees, handled)
  /\ pi' = None
  /\ event' = None
  /\ result' = "Abort"
  /\ Finish
  /\ End
  /\ UNCHANGED <<input, base, start>>

-----------------------------------------------------------------------------
(* add_initial_refiner_cells, for the root and for a child                 *)

Start(p, refiners) ==
  /\ start' = CellsOf(p)
  /\ refiner_cells' = refiners
  /\ is_refiner' = is_refiner \cup Range(refiners)
  /\ pc' = "refine"
  /\ result' = "Unchanged"

Init ==
  /\ input \in Inputs
  /\ pi = PartitionBy(input.cells)
  /\ base = None
  /\ start = CellsOf(pi)
  /\ refiner_cells = Ascending(Cells(pi))
  /\ is_refiner = Cells(pi)
  /\ pc = "refine"
  /\ result = "Unchanged"
  /\ hit_count = Zero /\ max = Zero /\ max_count = Zero /\ non_zero_count = Zero
  /\ counters = Zero
  /\ refiner = None
  /\ refinees = <<>>
  /\ handled = 0
  /\ event = None

(* tree_node::create_child: the vertex is swapped to the end of its cell,  *)
(* which is split there.                                                   *)
Individualised(cell, i) ==
  LET last == CellEnd(base, cell) - 1
  IN SetCellFromVIdx(SplitCell(SwapElements(base, last, i), cell, {last}), last)
CreateChild ==
  /\ pc = "idle"
  /\ \E cell \in Cells(base) : \E i \in Positions(base, cell) :
       /\ CellSize(base, cell) > 1
       /\ pi' = Individualised(cell, i)
       /\ Start(pi', <<CellEnd(base, cell) - 1>>)
  /\ UNCHANGED <<input, base, cellData, refiner, refinees, handled, event>>

Stop == pc = "idle" /\ base.num_cells = n /\ UNCHANGED vars

Next == TakeRefiner \/ Joined \/ SplitRefinee \/ RefinerDone \/ Abort \/ CreateChild \/ Stop
Spec == Init /\ [][Next]_vars
-----------------------------------------------------------------------------
(* "All this data must always be reset after use": however a refinement    *)
(* ended, nothing of it is left in the data the next one starts with.      *)
ScratchClean ==
  /\ pc \in {"idle", "refine"} =>
       /\ hit_count = Zero /\ max = Zero /\ max_count = Zero /\ non_zero_count = Zero
       /\ counters = Zero
  /\ is_refiner = Range(refiner_cells)

(* Between two refiners the partition can be relied on, and the cells its  *)
(* vertices are taken to be in are up to date, although they are not while *)
(* cells are split.                                                        *)
PartitionAgrees ==
  /\ pi # None => ArraysAgree(pi)
  /\ pc # "split" /\ pi # None =>
       \A c \in Cells(pi) : \A i \in Positions(pi, c) : pi.cell_from_v_idx[pi.elements[i]] = c

Abstract == INSTANCE CellRefinement WITH
  base <- IF base = None THEN None ELSE CellsOf(base),
  cells <- IF pi = None THEN None ELSE CellsOf(pi),
  queue <- refiner_cells,
  refiner <- IF refiner = None THEN None
             ELSE [at |-> refiner.first, members |-> Elements(pi, refiner.first, refiner.last)],
  pending <- [i \in 1 .. Len(refinees) - handled |-> refinees[handled + i].first]

(* Every step is one of CellRefinement, which knows neither the numbers of *)
(* vertices nor the order inside a cell: what a node becomes, and what the *)
(* visitors are told of it, is the same for isomorphic graphs.             *)
DependsOnCellsOnly == Abstract!Spec
=============================================================================
