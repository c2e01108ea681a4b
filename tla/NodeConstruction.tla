-------------------------- MODULE NodeConstruction --------------------------
(***************************************************************************)
(* The constructor of tree_node with the visitors that take part in it:    *)
(* the refiners, which compound_visitor asks one after the other and       *)
(* make_equitable asks again, refine_degree_1 in full, the selection of a  *)
(* target cell, and aut_implicit_size_2, which collects a permutation      *)
(* while a node is refined and reports it when the node is complete.       *)
(*                                                                         *)
(* One node is under construction at a time; base is a node that children  *)
(* are made of.  refine_WL_1 is refined by module WL1: here a refiner cell *)
(* is taken and all cells that it hits are split in one step.              *)
(***************************************************************************)
EXTENDS Partition, SequencesExt, FiniteSetsExt

CONSTANTS
  Inputs,     \* graphs, as incidence lists, with the cells to start from
  Refiners,   \* the orders the refiners can be in
  Selectors,  \* the selectors of target cells
  None

VARIABLES
  input,
  refiners, selector,  \* the visitors chosen: these never change
  pc,        \* where the constructor is, or "built"
  base,      \* the node that children are made of, if there is one
  pi,        \* of the node under construction
  start,     \*   its partition when the construction began
  fits,      \*   whether it has cells of size 1 and 2 only
  is_pruned,
  target,    \*   child_refiner_cell
  visited,   \* how many refiners were asked in this round
  res,       \*   and what they answered together
  asked,     \*   those that answered Again
  queue,     \* refiner_cells of refine_WL_1
  changed,   \*   and its result
  aut,       \* the permutation aut_implicit_size_2 collects
  claimed,   \* the automorphisms that were reported of this node
  degree     \* the degrees target_cell_flmcr keeps

vars == <<input, refiners, selector, pc, base, pi, start, fits, is_pruned, target, visited,
          res, asked, queue, changed, aut, claimed, degree>>
chosen == <<input, refiners, selector>>

Identity == [v \in Indices |-> v]
Zero == [i \in Indices |-> 0]
SwapOf(a, u, v) == [a EXCEPT ![u] = v, ![v] = u]
EdgesTo(v, W) == Len(SelectSeq(input.graph[v], LAMBDA u : u \in W))
In(p, c) == Elements(p, c, CellEnd(p, c))
Root == base = None
IndividualizedPosition(node) == CellEnd(node.pi, node.target) - 1

(* for_each_neighbour: the cells that the ends of edges are taken to be in,*)
(* those with one vertex left out                                          *)
Touched(p, W) ==
  {c \in {p.cell_from_v_idx[u] : u \in UNION {Range(input.graph[v]) : v \in W}} :
     CellSize(p, c) # 1}

-----------------------------------------------------------------------------
(* What the visitors are told of the new cells of p: aut_implicit_size_2   *)
(* swaps the two vertices that were in a cell until now.                   *)
RefineNewCell(a, p, new) == SwapOf(a, p.elements[new - 1], p.elements[new])
Told(p) ==
  IF fits THEN FoldSet(LAMBDA new, a : RefineNewCell(a, p, new), aut, Cells(p) \ Cells(pi))
  ELSE aut

(* tree_create_node_begin: a coordinator may prune the node.               *)
Begin ==
  /\ pc = "begin"
  /\ fits' = (base # None /\ base.fits)
  /\ aut' = IF ~Root /\ base.fits
            THEN SwapOf(aut, pi.elements[base.target], pi.elements[base.target + 1])
            ELSE aut
  /\ \/ pc' = "refine" /\ UNCHANGED is_pruned
     \/ ~Root /\ pc' = "end" /\ is_pruned' = TRUE
  /\ UNCHANGED <<chosen, base, pi, start, target, visited, res, asked, queue, changed,
                 claimed, degree>>

-----------------------------------------------------------------------------
(* compound_visitor::refine and canon_state::make_equitable                *)

(* "the tail can affect the head"                                          *)
CombinedInOrder(before, r) ==
  IF r = "Abort" THEN r
  ELSE IF before = "Never" THEN r
  ELSE IF r = "Never" \/ before = "Again" \/ r = "Again" THEN before
  ELSE IF r = "Changed" THEN r
  ELSE before
Combined(before, r) ==
  IF r = "Abort" THEN r
  ELSE IF before = "Never" THEN r
  ELSE IF r = "Never" \/ before = "Again" \/ r = "Again" THEN before
  ELSE IF r = "Changed" THEN "Again"
  ELSE before

Answer(r) ==
  /\ res' = Combined(res, r)
  /\ visited' = visited + 1
  /\ asked' = IF r = "Again" THEN asked \cup {refiners[visited + 1]} ELSE asked
  /\ is_pruned' = (r = "Abort")
  /\ pc' = IF r = "Abort" THEN "end" ELSE "refine"
Asking(visitor) ==
  pc = "refine" /\ visited < Len(refiners) /\ refiners[visited + 1] = visitor

RoundDone ==
  /\ pc = "refine" /\ visited = Len(refiners)
  /\ pc' = IF res = "Again" THEN "refine" ELSE "equitable"
  /\ visited' = 0
  /\ res' = "Never"
  /\ asked' = IF res = "Again" THEN {} ELSE asked
  /\ UNCHANGED <<chosen, base, pi, start, fits, is_pruned, target, queue, changed, aut,
                 claimed, degree>>

(* A refiner of somebody else, which leaves the partition alone and may    *)
(* want to be asked again, once.                                           *)
Custom ==
  /\ Asking("custom")
  /\ \/ Answer("Unchanged")
     \/ asked = {} /\ Answer("Again")
  /\ UNCHANGED <<chosen, base, pi, start, fits, target, queue, changed, aut, claimed, degree>>

-----------------------------------------------------------------------------
(* refine_WL_1                                                             *)

InitialRefinerCells ==
  IF Root THEN Ascending(Cells(pi)) ELSE <<IndividualizedPosition(base)>>

EnterWL1 ==
  /\ Asking("WL_1")
  /\ pc' = "WL_1"
  /\ queue' = InitialRefinerCells
  /\ changed' = FALSE
  /\ UNCHANGED <<chosen, base, pi, start, fits, is_pruned, target, visited, res, asked, aut,
                 claimed, degree>>

(* A cell in the order of its numbers of edges to W, split where they      *)
(* change, and the cells that become refiners.                             *)
SortedCell(p, c, W) ==
  LET Before(u, v) == \/ EdgesTo(u, W) < EdgesTo(v, W)
                      \/ EdgesTo(u, W) = EdgesTo(v, W) /\ p.inverse[u] < p.inverse[v]
      place == [v \in Indices |-> IF v \in In(p, c)
                                  THEN c + Cardinality({u \in In(p, c) : Before(u, v)})
                                  ELSE p.inverse[v]]
  IN [p EXCEPT !.inverse = place,
               !.elements = [i \in Indices |-> CHOOSE v \in Indices : place[v] = i]]
SplitsOf(p, c, W) ==
  {i \in Positions(p, c) \ {c} : EdgesTo(p.elements[i - 1], W) # EdgesTo(p.elements[i], W)}
SetCells(p, S) == FoldSet(LAMBDA c, q : SetCellFromVIdx(q, c), p, S)
NewRefiners(p, c, new, waiting) ==
  LET parts == new \cup {c}
      largest == CHOOSE i \in parts : \A j \in parts :
                   \/ CellSize(p, j) < CellSize(p, i)
                   \/ CellSize(p, j) = CellSize(p, i) /\ i <= j
  IN Ascending(IF c \in waiting THEN new ELSE parts \ {largest})
SplitByRefiner(st, c, W) ==
  LET sorted == SortedCell(st.pi, c, W)
      new == SplitsOf(sorted, c, W)
      split == SetCells(SplitCell(sorted, c, new), new)
  IN IF new = {} THEN st
     ELSE [pi |-> split,
           queue |-> st.queue \o NewRefiners(split, c, new, Range(st.queue))]

UseRefiner ==
  /\ pc = "WL_1" /\ queue # <<>> /\ pi.num_cells # n
  /\ \E W \in {In(pi, Head(queue))} :
       \E st \in {FoldLeft(LAMBDA s, c : SplitByRefiner(s, c, W),
                           [pi |-> pi, queue |-> Tail(queue)],
                           Ascending(Touched(pi, W)))} :
         /\ pi' = st.pi
         /\ queue' = st.queue
         /\ aut' = Told(st.pi)
         /\ changed' = (changed \/ st.pi.num_cells # pi.num_cells)
  /\ UNCHANGED <<chosen, pc, base, start, fits, is_pruned, target, visited, res, asked, claimed,
                 degree>>

(* The partition is stable or discrete, or a visitor finds the node worse. *)
LeaveWL1 ==
  /\ pc = "WL_1"
  /\ \/ /\ queue = <<>> \/ pi.num_cells = n
        /\ Answer(IF changed THEN "Changed" ELSE "Unchanged")
     \/ ~Root /\ Answer("Abort")
  /\ queue' = <<>>
  /\ UNCHANGED <<chosen, base, pi, start, fits, target, changed, aut, claimed, degree>>

-----------------------------------------------------------------------------
(* refine_degree_1                                                         *)

Degree(v) == Len(input.graph[v])
DegreeOne(p, c) == Degree(p.elements[c]) = 1 /\ CellSize(p, c) > 1
FitsByDegree(p, c) == DegreeOne(p, c)
Fits(p, c) ==
  /\ DegreeOne(p, c)
  /\ \A v \in In(p, c) : input.graph[v][1] = input.graph[p.elements[c]][1]

(* The cells of the vertices that are split off are not set.               *)
AllButTwo(p, c) == SplitCell(p, c, {i \in Positions(p, c) : c < i /\ i + 1 < CellEnd(p, c)})
ToSingletons(p, c) == SplitCell(p, c, Positions(p, c) \ {c})

FirstSwapped(p, c) == SwapOf(Identity, p.elements[c], p.elements[c + 1])
Rotated(p, c) ==
  [v \in Indices |-> IF v \notin In(p, c) THEN v
                     ELSE IF p.inverse[v] + 1 = CellEnd(p, c) THEN p.elements[c]
                     ELSE p.elements[p.inverse[v] + 1]]
SymmetriesOf(p, c) ==
  {FirstSwapped(p, c)} \cup (IF CellSize(p, c) > 2 THEN {Rotated(p, c)} ELSE {})

SplitDegreeOne(st, c) ==
  [pi |-> ToSingletons(st.pi, c), claimed |-> st.claimed \cup SymmetriesOf(st.pi, c)]

(* The cells are those there were when it began; a visitor may abort after *)
(* any of the splits.                                                      *)
RefineDegree1 ==
  /\ Asking("degree_1")
  /\ \E todo \in {Ascending({c \in Cells(pi) : Fits(pi, c)})} :
       \E k \in 0 .. Len(todo) :
         \E st \in {FoldLeft(SplitDegreeOne, [pi |-> pi, claimed |-> claimed], SubSeq(todo, 1, k))} :
           /\ pi' = st.pi
           /\ aut' = Told(st.pi)
           /\ \/ /\ k = Len(todo)
                 /\ claimed' = st.claimed
                 /\ Answer(IF \E c \in Cells(pi) : DegreeOne(pi, c) THEN "Unchanged" ELSE "Never")
              \/ /\ ~Root /\ k > 0
                 /\ claimed' = st.claimed \ SymmetriesOf(pi, todo[k])
                 /\ Answer("Abort")
  /\ UNCHANGED <<chosen, base, start, fits, target, queue, changed, degree>>

-----------------------------------------------------------------------------
(* The selectors of target cells                                           *)

NonSingletons(p) == {c \in Cells(p) : CellSize(p, c) > 1}
FirstOf(S) == CHOOSE c \in S : \A d \in S : c <= d

(* Of some cells, the first one of the largest of those with the greatest  *)
(* value.                                                                  *)
FirstLargest(p, S, value) ==
  FirstOf({c \in S : \A d \in S : \/ value[d] < value[c]
                                  \/ value[d] = value[c] /\ CellSize(p, d) <= CellSize(p, c)})

(* target_cell_flm: the first vertex of a cell stands for the others.  Of  *)
(* parallel edges each is counted.                                         *)
NumberOfEnds(v, X) == Cardinality(Range(input.graph[v]) \cap X)
NonZeroCount(v, X) == EdgesTo(v, X)
NumNonUniform(p, c) ==
  Cardinality({d \in Touched(p, {p.elements[c]}) :
                 NonZeroCount(p.elements[c], In(p, d)) < CellSize(p, d)})
MostJoined(p) ==
  LET larger == {c \in NonSingletons(p) : CellSize(p, c) # 2}
  IN FirstLargest(p, IF larger = {} THEN NonSingletons(p) ELSE larger,
                  [c \in NonSingletons(p) |-> NumNonUniform(p, c)])

(* target_cell_flmcr: of the cells with three vertices or more, those that *)
(* were last assigned to the component of the first one; each counts the   *)
(* cells it touches.                                                       *)
InComponents(p) == {c \in Cells(p) : CellSize(p, c) > 2}
CellDegree(p, c) == Cardinality(Touched(p, {p.elements[c]}))
Counted(p) ==
  [c \in Indices |-> IF c \in InComponents(p) THEN degree[c] + CellDegree(p, c) ELSE degree[c]]
ComponentOf(p) ==
  LET Assign(comp, c) ==
        [d \in Indices |-> IF d > c /\ d \in Touched(p, {p.elements[c]}) THEN comp[c] ELSE comp[d]]
  IN FoldLeft(Assign, Identity, Ascending(InComponents(p)))
FirstComponent(p) ==
  {c \in InComponents(p) : ComponentOf(p)[c] = FirstOf(InComponents(p))}
MostCounted(p) ==
  IF InComponents(p) = {} THEN FirstOf(NonSingletons(p))
  ELSE FirstLargest(p, FirstComponent(p), Counted(p))

SelectedIn(p) ==
  CASE selector = "f" -> FirstOf(NonSingletons(p))
    [] selector = "fl" -> FirstLargest(p, NonSingletons(p), [c \in NonSingletons(p) |-> 0])
    [] selector = "flm" -> MostJoined(p)
    [] selector = "flmcr" -> MostCounted(p)

(* The cleanup of target_cell_flmcr goes on with the end of the last cell, *)
(* so that it resets the first cell only.                                  *)
DegreesAfter(p) == [Counted(p) EXCEPT ![0] = 0]

Select ==
  /\ pc = "equitable"
  /\ IF pi.num_cells = n THEN target' = None /\ UNCHANGED degree
     ELSE /\ target' = SelectedIn(pi)
          /\ degree' = IF selector = "flmcr" THEN DegreesAfter(pi) ELSE degree
  /\ pc' = "end"
  /\ UNCHANGED <<chosen, base, pi, start, fits, is_pruned, visited, res, asked, queue, changed,
                 aut, claimed>>

-----------------------------------------------------------------------------
(* tree_create_node_end and create_child                                   *)

CellsUpToThree(p) == p.num_cells < n /\ \A c \in Cells(p) : CellSize(p, c) <= 3
SmallCells(p) == p.num_cells < n /\ \A c \in Cells(p) : CellSize(p, c) <= 2

ResetUnlessPruned(a) == IF fits /\ ~is_pruned THEN Identity ELSE a
Reset(a) == IF fits THEN Identity ELSE a

(* A coordinator may prune the node after the automorphism was reported.   *)
NodeEnd ==
  /\ pc = "end"
  /\ claimed' = IF fits /\ ~is_pruned THEN claimed \cup {aut} ELSE claimed
  /\ aut' = Reset(aut)
  /\ fits' = IF is_pruned THEN fits ELSE fits \/ SmallCells(pi)
  /\ is_pruned' \in IF Root THEN {FALSE} ELSE {is_pruned, TRUE}
  /\ pc' = "built"
  /\ UNCHANGED <<chosen, base, pi, start, target, visited, res, asked, queue, changed, degree>>

(* The children that aut_implicit_size_2 leaves: one, or all.              *)
Offered == IF fits THEN {target} ELSE Positions(pi, target)
Built == [pi |-> pi, fits |-> fits, target |-> target, offered |-> Offered]

Individualised(node, i) ==
  LET last == IndividualizedPosition(node)
      split == SplitCell(SwapElements(node.pi, last, i), node.target, {last})
  IN SetCellFromVIdx(split, last)

Parents ==
  (IF Root THEN {} ELSE {base})
    \cup (IF is_pruned \/ pi.num_cells = n THEN {} ELSE {Built})

(* A traversal makes a child of this node, or the next of its parent.      *)
CreateChild ==
  /\ pc = "built"
  /\ \E node \in Parents : \E i \in node.offered :
       /\ base' = [node EXCEPT !.offered = {j \in node.offered : j > i}]
       /\ pi' = Individualised(node, i)
  /\ start' = pi'
  /\ fits' = FALSE /\ is_pruned' = FALSE
  /\ target' = None
  /\ claimed' = {}
  /\ asked' = {}
  /\ changed' = FALSE
  /\ res' = "Never" /\ visited' = 0
  /\ pc' = "begin"
  /\ UNCHANGED <<chosen, queue, aut, degree>>

Init ==
  /\ input \in Inputs
  /\ refiners \in Refiners
  /\ selector \in Selectors
  /\ pc = "begin"
  /\ base = None
  /\ pi = PartitionBy(input.cells)
  /\ start = pi
  /\ fits = FALSE /\ is_pruned = FALSE
  /\ target = None
  /\ visited = 0 /\ res = "Never" /\ asked = {}
  /\ queue = <<>> /\ changed = FALSE
  /\ aut = Identity
  /\ claimed = {}
  /\ degree = Zero

Stop == pc = "built" /\ (\A node \in Parents : node.offered = {}) /\ UNCHANGED vars

Next ==
  \/ Begin \/ RoundDone \/ Custom \/ EnterWL1 \/ UseRefiner \/ LeaveWL1 \/ RefineDegree1
  \/ Select \/ NodeEnd \/ CreateChild \/ Stop
Spec == Init /\ [][Next]_vars
-----------------------------------------------------------------------------
IsAutomorphism(a) ==
  \A u, v \in Indices : EdgesTo(u, {v}) = EdgesTo(a[u], {a[v]})
CellIn(p, v) == CHOOSE c \in Cells(p) : v \in In(p, c)
Respects(a, p) == \A v \in Indices : a[v] \in In(p, CellIn(p, v))

(* What is reported as an automorphism without two equal leaves is one: it *)
(* maps the graph to itself, and each cell of the parent, or of the root   *)
(* as it began, to itself, as the pruners take for granted when they file  *)
(* it under the node.                                                      *)
ClaimsAreReal ==
  \A a \in claimed : IsAutomorphism(a) /\ Respects(a, IF Root THEN start ELSE base.pi)

(* A node that is complete is a fixed point of all its refiners, in        *)
(* whatever order they were asked: all vertices of a cell have the same    *)
(* number of edges to each cell, and no cell of leaves at one vertex is    *)
(* left.                                                                   *)
BuiltIsStable ==
  pc = "built" /\ ~is_pruned =>
    \A c \in Cells(pi) :
      /\ \A d \in Cells(pi) : \A v \in In(pi, c) :
           EdgesTo(v, In(pi, d)) = EdgesTo(pi.elements[c], In(pi, d))
      /\ "degree_1" \in Range(refiners) => ~Fits(pi, c)

(* The target cell is the same whichever vertex of each cell comes first,  *)
(* although one vertex is looked at for all of its cell: children of       *)
(* isomorphic nodes are made of corresponding cells.                       *)
TargetDependsOnCellsOnly ==
  pc = "equitable" /\ pi.num_cells # n =>
    \E t \in {SelectedIn(pi)} :
      /\ t \in NonSingletons(pi)
      /\ \A c \in Cells(pi) : \A i \in Positions(pi, c) :
           SelectedIn(SwapElements(pi, c, i)) = t

(* The permutation is the identity again when the next node begins,        *)
(* whether the last one was aborted, pruned or reported.                   *)
AutIsReset == pc \in {"built", "begin"} => aut = Identity

(* A child that aut_implicit_size_2 leaves out is equivalent to the one it *)
(* keeps: an automorphism of the node maps one to the other.               *)
SwapCells(S) ==
  [v \in Indices |-> IF CellIn(pi, v) \in S
                     THEN CHOOSE u \in In(pi, CellIn(pi, v)) : u # v ELSE v]
LeftOutAreEquivalent ==
  pc = "built" /\ ~is_pruned /\ fits /\ target # None =>
    \E S \in SUBSET NonSingletons(pi) : target \in S /\ IsAutomorphism(SwapCells(S))

(* A vertex that is taken to be in a cell with others is in it, so that    *)
(* edges are counted for the right cell, although refine_degree_1 does not *)
(* set the cells of the vertices it splits off.                            *)
CellsServe ==
  pc \in {"refine", "equitable", "end", "built"} =>
    \A v \in Indices :
      \/ CellSize(pi, pi.cell_from_v_idx[v]) = 1 /\ CellSize(pi, CellIn(pi, v)) = 1
      \/ v \in In(pi, pi.cell_from_v_idx[v])

(* "find the first largest max degree cell in that component": the target  *)
(* touches no fewer cells than another of the component.                   *)
TargetIsOfMaxDegree ==
  pc = "end" /\ target # None /\ target \in InComponents(pi) =>
    \A c \in FirstComponent(pi) : CellDegree(pi, c) <= CellDegree(pi, target)
=============================================================================
