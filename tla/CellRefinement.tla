--------------------------- MODULE CellRefinement ---------------------------
(***************************************************************************)
(* What the refinement of a node does, in terms that do not depend on how  *)
(* the vertices are numbered: the cells are sets of vertices, and a cell   *)
(* is split by the numbers of edges its members have to a refiner.  What   *)
(* the visitors are told (which cells are split where, how many edges join *)
(* two cells) is compared between nodes, so it has to be a function of     *)
(* these sets.                                                             *)
(*                                                                         *)
(* Cells are named by the position of their first element.  A node is the  *)
(* root, or is made from a refined node by individualising a vertex.       *)
(***************************************************************************)
EXTENDS Integers, Sequences, FiniteSets, SequencesExt, FiniteSetsExt

CONSTANTS
  n,       \* num_vertices
  Inputs,  \* graphs, as incidence lists, with the cells to start from
  None     \* no cells, refiner or event

V == 0 .. n - 1

(* An ordered partition: each cell is a set of vertices that takes up the  *)
(* positions from its own to the next cell.                                *)
IsPartition(C) ==
  /\ DOMAIN C \subseteq V
  /\ C \in [DOMAIN C -> SUBSET V]
  /\ \A v \in V : \E c \in DOMAIN C : v \in C[c]
  /\ \A c \in DOMAIN C : C[c] # {} /\ c + Cardinality(C[c]) <= n
  /\ \A c, d \in DOMAIN C :
       c < d => c + Cardinality(C[c]) <= d /\ C[c] \cap C[d] = {}

ASSUME SizeAssumption == n \in Nat \ {0}
ASSUME InputsAssumption ==
  \A i \in Inputs : i.graph \in [V -> Seq(V)] /\ IsPartition(i.cells)
ASSUME NoneAssumption == \A S \in SUBSET V : None \notin [S -> SUBSET V]

VARIABLES
  input,
  pc,       \* "idle", or with a refinement in progress "refine", "split"
  base,     \* the cells of the refined node that children are made of
  start,    \* the cells when the refinement began
  cells,    \* position |-> set of vertices
  queue,    \* refiner_cells, from the one that is next
  refiner,  \* the refiner's position and vertices
  pending,  \* the cells it has edges to, that are still to be looked at
  event,    \* what the visitors were told last
  result    \* Unchanged, Changed or Abort

vars == <<input, pc, base, start, cells, queue, refiner, pending, event, result>>

EdgesIn(g, v, W) == Cardinality({i \in DOMAIN g[v] : g[v][i] \in W})
EdgesTo(v, W) == EdgesIn(input.graph, v, W)
Discrete(C) == \A c \in DOMAIN C : Cardinality(C[c]) = 1

(* The members of a cell by number of edges to W, the fewest first: the    *)
(* position of v is after those with fewer edges.                          *)
NewPosition(C, c, W, v) ==
  c + Cardinality({u \in C[c] : EdgesTo(u, W) < EdgesTo(v, W)})
Parts(C, c, W) ==
  LET at == {NewPosition(C, c, W, v) : v \in C[c]}
  IN [i \in at |-> {v \in C[c] : NewPosition(C, c, W, v) = i}]

AfterSplit(C, c, W) ==
  LET P == Parts(C, c, W)
  IN [i \in (DOMAIN C) \cup DOMAIN P |-> IF i \in DOMAIN P THEN P[i] ELSE C[i]]

Ascending(S) ==
  [i \in 1 .. Cardinality(S) |-> CHOOSE x \in S : Cardinality({y \in S : y < x}) = i - 1]

(* The new refiners: all parts if the cell is one already, else all but a  *)
(* largest one, the first.                                                 *)
AllNew(P, c) == Ascending((DOMAIN P) \ {c})
LargestPart(P) ==
  CHOOSE i \in DOMAIN P : \A j \in DOMAIN P :
    Cardinality(P[j]) < Cardinality(P[i]) \/ (Cardinality(P[j]) = Cardinality(P[i]) /\ i <= j)
AllButLargest(P) == Ascending((DOMAIN P) \ {LargestPart(P)})
NoneWhenQueued(P, c) ==
  IF c \in Range(queue) THEN <<>> ELSE AllButLargest(P)
NewRefiners(P, c) ==
  IF c \in Range(queue) THEN AllNew(P, c) ELSE AllButLargest(P)

Init ==
  /\ input \in Inputs
  /\ cells = input.cells
  /\ base = None
  /\ start = cells
  /\ queue = Ascending(DOMAIN cells)
  /\ pc = "refine"
  /\ refiner = None
  /\ pending = <<>>
  /\ event = None
  /\ result = "Unchanged"

TakeRefiner ==
  /\ pc = "refine"
  /\ LET W == cells[Head(queue)]
         hit == {c \in DOMAIN cells : /\ Cardinality(cells[c]) > 1
                                      /\ \E v \in cells[c] : EdgesTo(v, W) > 0}
     IN /\ refiner' = [at |-> Head(queue), members |-> W]
        /\ pending' = Ascending(hit)
  /\ queue' = Tail(queue)
  /\ pc' = "split"
  /\ event' = None
  /\ UNCHANGED <<input, base, start, cells, result>>

(* All members have the same number of edges: the visitors are told how    *)
(* many edges there are.                                                   *)
JoinedAgain ==
  /\ pc = "split" /\ pending # <<>>
  /\ LET c == Head(pending)
     IN /\ DOMAIN Parts(cells, c, refiner.members) = {c}
        /\ event' = <<"quotient", refiner.at, c,
                      SumSet({EdgesTo(v, refiner.members) : v \in cells[c]})
                        * Cardinality(cells[c])>>
  /\ pending' = Tail(pending)
  /\ UNCHANGED <<input, pc, base, start, cells, refiner, result>>
  /\ queue' = Append(queue, Head(pending))
JoinedAsChange ==
  /\ pc = "split" /\ pending # <<>>
  /\ LET c == Head(pending)
     IN /\ DOMAIN Parts(cells, c, refiner.members) = {c}
        /\ event' = <<"quotient", refiner.at, c,
                      SumSet({EdgesTo(v, refiner.members) : v \in cells[c]})
                        * Cardinality(cells[c])>>
  /\ pending' = Tail(pending)
  /\ UNCHANGED <<input, pc, base, start, cells, queue, refiner>>
  /\ result' = "Changed"
JoinedUniformly ==
  /\ pc = "split" /\ pending # <<>>
  /\ LET c == Head(pending)
     IN /\ DOMAIN Parts(cells, c, refiner.members) = {c}
        /\ event' = <<"quotient", refiner.at, c,
                      SumSet({EdgesTo(v, refiner.members) : v \in cells[c]})
                        * Cardinality(cells[c])>>
  /\ pending' = Tail(pending)
  /\ UNCHANGED <<input, pc, base, start, cells, queue, refiner, result>>

SplitOne ==
  /\ pc = "split" /\ pending # <<>>
  /\ LET c == Head(pending)
         P == Parts(cells, c, refiner.members)
     IN /\ DOMAIN P # {c}
        /\ event' = <<"split", refiner.at, c, (DOMAIN P) \ {c}>>
        /\ cells' = AfterSplit(cells, c, refiner.members)
        /\ queue' = queue \o NewRefiners(P, c)
  /\ pending' = Tail(pending)
  /\ result' = "Changed"
  /\ UNCHANGED <<input, pc, base, start, refiner>>

(* The refinement is over, and children are made of C from now on.         *)
End(C, r) ==
  /\ pc' = "idle"
  /\ queue' = <<>>
  /\ pending' = <<>>
  /\ refiner' = None
  /\ base' = C
  /\ result' = r

(* The refiner is given with the end it had, as it may be split itself.    *)
RefinerDone ==
  /\ pc = "split" /\ pending = <<>>
  /\ event' = <<"done", refiner.at, refiner.at + Cardinality(refiner.members)>>
  /\ \/ /\ Discrete(cells) \/ queue = <<>>
        /\ \/ End(cells, result)
           \/ base # None /\ End(base, result)
     \/ /\ ~Discrete(cells) /\ queue # <<>>
        /\ pc' = "refine"
        /\ refiner' = None
        /\ UNCHANGED <<base, queue, pending, result>>
  /\ UNCHANGED <<input, start, cells>>

(* A visitor may find the node worse, except the root.                     *)
Abort ==
  /\ pc = "split"
  /\ base # None
  /\ End(base, "Abort")
  /\ cells' = None
  /\ event' = None
  /\ UNCHANGED <<input, start>>

(* create_child: a vertex of a cell becomes a cell after the rest of it.   *)
CreateChild ==
  /\ pc = "idle"
  /\ \E c \in DOMAIN base : \E v \in base[c] :
       LET last == c + Cardinality(base[c]) - 1
       IN /\ c # last
          /\ cells' = [i \in (DOMAIN base) \cup {last} |->
                         IF i = last THEN {v} ELSE IF i = c THEN base[c] \ {v} ELSE base[i]]
          /\ queue' = <<last>>
  /\ start' = cells'
  /\ pc' = "refine"
  /\ result' = "Unchanged"
  /\ UNCHANGED <<input, base, refiner, pending, event>>

Stop == pc = "idle" /\ Discrete(base) /\ UNCHANGED vars

Next == TakeRefiner \/ JoinedUniformly \/ SplitOne \/ RefinerDone \/ Abort \/ CreateChild \/ Stop
Spec == Init /\ [][Next]_vars
FairSpec == Spec /\ WF_vars(pc # "idle" /\ Next)
-----------------------------------------------------------------------------
(* Refinement as it is defined: of the partitions that refine the one at   *)
(* the start and are equitable, the coarsest.  Other partitions are given  *)
(* as colourings, which give each vertex the least one of its cell.        *)
Uniform(X, W) == \A u, v \in X : EdgesTo(u, W) = EdgesTo(v, W)
Equitable(C) == \A c, d \in DOMAIN C : Uniform(C[c], C[d])

Colourings(vertices) ==
  {f \in [vertices -> vertices] : \A v \in vertices : f[v] <= v /\ f[f[v]] = f[v]}
Class(f, k) == {v \in V : f[v] = k}
Stable(f) == \A k, l \in V : Uniform(Class(f, k), Class(f, l))
Refines(f, C) == \A c \in DOMAIN C : \A u \in C[c] : \A v \in V : f[u] = f[v] => v \in C[c]

(* A refinement that is not aborted ends with the coarsest equitable       *)
(* partition, although of every cell that was split one part is left out   *)
(* of the queue, and a child starts with a single refiner.                 *)
CoarsestReached ==
  pc = "idle" /\ result # "Abort" =>
    /\ Equitable(cells)
    /\ \A f \in Colourings(V) : Refines(f, start) /\ Stable(f) => Refines(f, cells)

(* What it answers is what it did: the combination of refinements and its  *)
(* loop rely on Unchanged.                                                 *)
ResultIsTrue == pc = "idle" => (result = "Unchanged" <=> cells = start)

(* The queue grows while it is worked off; it becomes empty all the same.  *)
RefinementEnds == pc = "refine" ~> pc = "idle"
=============================================================================
