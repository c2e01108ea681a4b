# Verification of graph_canon

graph_canon computes a canonical form of a graph: a numbering of its vertices
that depends on the graph only up to isomorphism. It does so by individualisation
and refinement: a tree is searched whose nodes are ordered partitions of the
vertices, whose leaves are numberings, and whose best leaf is the canonical one.
Everything that makes it fast (pruning by invariants, pruning by automorphisms,
traversals that jump about in the tree, views and scratch data that are reused)
must not change which leaf is best. This project states what that means,
model-checks the code's way of doing it, and proves part of it.

Paths below without a directory are relative to `src/include/graph_canon`.

## The system

| component | state it keeps | operations | what makes it correct |
|---|---|---|---|
| search tree, `canon_state` (`canonicalization.hpp`, `detail/tree_node.hpp`) | nodes with children and `child_pruned`, reference counts; the candidate `canon_leaf`; two permuted graphs | construct a child, `prune_subtree`, `report_leaf`, `prune_canon_leaf` | at the end the candidate is a best leaf of the whole tree |
| comparison of leaves (`detail/permuted_graph_view.hpp`, `detail/explicit_automorphism.hpp`) | two views, each with its leaf | make, repermute, compare | views are current; the comparison is a total preorder whose equality is isomorphism |
| invariant coordinator (`invariant/coordinator.hpp`) | a trace per level of which provider contributed; generations per level and node | begin and end of a node, an element, better, worse, before a descend | outdated nodes are told from current ones |
| invariant providers (`invariant/cell_split.hpp`, `quotient.hpp`, `partial_leaf.hpp`) | a trace of values each; how far each node has got | an element of their own; being cut when a node is better | their traces stay in step with the coordinator's |
| automorphism pruners (`aut/pruner_base.hpp`, `pruner_basic.hpp`) | generators; per node those that fix its path and a forest of its children | an automorphism at a leaf, or claimed while a node is constructed; update and merge before a descend | merged children are equivalent; the candidate stays |
| Schreier-Sims pruner (`aut/pruner_schreier.hpp`) | per node a stabilizer (a transversal of the PermGroup library), a pointer to the next node of its chain, counts of what it has seen and passed on | the same; sifting along a chain; chains follow creation, update, pruning and destruction of nodes | the same; a node that has seen all has the whole stabilizer; chains lead to nodes that live |
| implicit automorphisms (`aut/implicit_size_2.hpp`) | a permutation that is collected while a node is constructed | a new cell; report at the end of a node; flag all children but one | what is claimed is an automorphism; the permutation is gone at the next node |
| vertices of degree 1 (`refine/degree_1.hpp`) | none | split a cell of leaves at one vertex, claim automorphisms | what is claimed is one; later users of the partition find right cells |
| traversals (`tree_traversal/dfs.hpp`, `bfs-exp.hpp`, `bfs-exp-m.hpp`) | a stack; lists of levels and nodes that keep themselves alive; a count of nodes | explore the tree | every leaf that could be best is reported; the traversal ends; nodes are freed |
| ordered partition (`detail/partition.hpp`) | elements, inverse, cell ends, cell of each element | swap, split | the arrays agree with each other |
| refinement (`refine/WL_1.hpp`, `refine/refine.hpp`, `visitor/compound.hpp`) | scratch data shared by all nodes | refine a node, one of several in a combination | the result is equitable, depends on the graph only up to isomorphism, and leaves the scratch data clean |
| target cells (`target_cell/*.hpp`) | scratch counters (flmcr: degrees that outlive a call) | choose a cell of a partition | the choice depends on the cells only |
| ordered graphs (`ordered_graph.hpp`, `compare.hpp`) | a graph with sorted edges and a permutation | make, compare, less | equal exactly when the permuted graphs are, in agreement with the comparison of leaves |
| edge handlers (`edge_handler/*.hpp`) | counters of labels | sort a cell, compare edges | labels of edges are compared consistently |
| statistics, debug output, DIMACS, tools | - | - | - |

The program is sequential. The components interact by calls: a traversal calls
`tree_before_descend` of all visitors, creates children, and reports leaves; the
construction of a node calls the begin of all visitors, the refinement, which
calls the providers for each split, which call the coordinator for each element,
and the end of all visitors; the coordinator calls the providers back when a node
is better, and drops the candidate; `report_leaf` calls the pruners, which prune
subtrees anywhere in the tree. So every actor's data can change between two
steps of another: nodes wait on stacks and lists while their traces are replaced,
their ancestors pruned and the candidate exchanged. Nothing is persisted and
nothing runs concurrently: there are no crashes, messages or threads to model.
What is hard are orders of calls, data that is stale when it is used, steps that
are abandoned half way, the life time of nodes, and integer types.
`PROJECT.json` lists these hazards, each at its line.

## Modules

| module | models | abstract or detailed |
|---|---|---|
| `BestLeaf` | what a search promises: a leaf is given up only for one that remains and is as good | abstract specification |
| `SearchTree` | `tree_node`, `canon_state`, coordinator and providers | actions used by the traversals |
| `BasicPruner` | `aut_pruner_basic`; extends `SearchTree` | operators and actions of the next two |
| `SchreierPruner` | `aut_pruner_schreier`; extends `BasicPruner` | |
| `AutPruner` | `aut_pruner_base` with either of these, and `aut_implicit_size_2` as it acts on the tree | actions used by the traversals |
| `TraverseDFS` | the loop of `traversal_dfs`; extends `AutPruner` | used by the next two |
| `DFS` | a depth first search: all of the above | implements `BestLeaf` |
| `BFS` | `traversal_bfs_exp_m`, which runs the loop of `TraverseDFS` when memory is short; with a limit that is not reached `traversal_bfs_exp` | implements `BestLeaf` on flat trees (see Findings) |
| `PermutedGraph` | `permuted_graph_view` and `report_leaf` with real graphs, and the permutation that is returned | detailed: what `SearchTree` abstracts to a number |
| `OrderedGraph` | `ordered_graph` and its comparisons as operators, for any comparison of labels; instantiated by `PermutedGraph` | |
| `SortedList` | `std::sort` of the entries of a list, with ties in any order that was there before (external) | used by the two above |
| `Partition` | `detail::partition`: its arrays and the operations on them, as operators | used by the next ones |
| `Sorting` | `partition_range` and `counting_sorter` on a partition, as operators | used by `WL1` |
| `PartitionUse` | the protocol in which its users call them, splits one at a time | |
| `CellRefinement` | refinement of a node and its descendants in terms of sets of vertices | abstract specification |
| `WL1` | `refine_WL_1` with `create_child` and the sorting of `edge_handler/all_equal.hpp` | implements `CellRefinement` |
| `NodeConstruction` | the constructor of a node: the combination of refinements and `make_equitable`, `refine_degree_1`, the four selectors of target cells, `aut_implicit_size_2` | uses one refiner of `WL1` as a step |
| `BestLeaf_proofs`, `DFS_proofs`, `BFS_proofs`, `PartitionUse_proofs`, `CellRefinement_proofs`, `NodeConstruction_proofs`, `PermutedGraph_proofs` | | theorems about the modules they extend |
| `Traversal_proofs` | | what holds whichever traversal constructs the nodes; extended by `DFS_proofs` and `BFS_proofs` |
| `MCTrees`, `MCGraphs`, `MC...` | the trees, graphs and rankings of the runs | |

### The tree as an input

`SearchTree` does not refine. A run is given a tree: which nodes there are, what
each node emits to which provider when it is constructed completely, and the rank
of each leaf's permuted graph. That is the interface of the coordinator, so every
partition and every graph is covered that satisfies two assumptions, both stated
in the modules and both needed: nodes with the same invariants on their paths are
leaves alike (`LeavesAlike`; with `cell_split` they have the same number of
cells), and leaves that look the same are related by an automorphism of the tree
(`HasSymmetry`). Automorphisms are permutations of the vertices and form a group
(`HasGroup`). A tree also says which nodes have only cells of one or two elements
(`fits`), whose claims `NodeConstruction` shows to be justified, with which pruners it
is searched, and how many of its nodes fit in memory (`limits`). A node is named by the vertices individualised above it.

### State and actions

| TLA+ | code |
|---|---|
| `status`, `child_pruned` | a node that does not exist, is in its constructor, exists, `is_pruned`; `tree_node::child_pruned` |
| `trace`, `max_level`, `generation`, `generations`, `node_gen`, `end_index` | members of `invariant_coordinator::instance_data` and `tree_data` |
| `values`, `value_end`, `q_max_level` | traces of the providers, `next` of their nodes, `max_level` of the quotient |
| `canon_leaf`, `canon_graph`, `extra_graph` | the candidate, and the leaves of the two permuted graphs |
| `cur`, `emitted` | the node whose constructor runs, and how far it has got |
| `gens`, `num_base_gens`, `num_parent_gens`, `stab`, `forest` | generators; per node the counters, the generators from the parent, the union-find of children |
| `t_path`, `c_path`, `moves` | local variables of `tree_before_descend` |
| `trans`, `num_base_chain`, `num_reported`, `chain_child`, `main_chain` | `aut_pruner_schreier::tree_data`: the stabilizer's transversal, `num_base_gens_chain`, `num_gens_reported`, `next_child`, `is_main_chain` |
| `pruner`, `implicit` | which visitors are in the combination; they never change |
| `stack`, `at` (DFS) | `work_stack` and the element popped from it |
| `head`, `level_list`, `next_list`, `old_head`, `node`, `child`, `path`, `kept`, `pc` (BFS) | the lists of two levels, the pointers of `explore_tree`, `keep_alive` |
| `dfs_roots`, `max_nodes`, `use_dfs` (BFS) | `is_dfs_root`, `max_num_nodes`, the switch; the number of nodes is derived from `Exists` |
| `pi`, `target`, `is_pruned` (NodeConstruction) | members of the `tree_node` that is constructed; `base` is the one above it |
| `visited`, `res`, `asked` | the loop of `compound_visitor::refine`, what it has answered so far, and who said Again |
| `queue`, `changed` | refiners of `refine_WL_1`, and its result |
| `aut`, `fits`, `claimed` | the permutation and `can_be_pruned` of `aut_implicit_size_2`; what was reported of this node |
| `degree` | the degrees that `target_cell_flmcr` keeps |

`CreateBegin` is the beginning of `create_child`, one `Emit...` action each outcome
of `add_invariant_element` with the comparison of values that follows it,
`CreateLive` and `CreateShort` are `tree_create_node_end`. The steps of a node's
construction are separate actions, as each changes what is recorded for other
nodes; a traversal goes on when `cur` is `NoNode`. `BeforeDescend`, `Update` and
`Merge` are the loop of `tree_before_descend`. When nodes are freed is derived:
`Exists` says which nodes some pointer holds, and a destroyed node is flagged in
its parent, as the destructor does.

The Schreier-Sims pruner takes from the PermGroup library that a transversal grows to
the orbit under the generators it is given, and yields the Schreier generators for
its new points; that is modelled as external (`Grown`, `Mul`, `Without`). Sifting along a
chain is written in the source once for each length up to eight; the model has one
function. Groups are sets of permutations of the tree's vertices.

### Refinement

`WL1` has the variables of `refine_WL_1::instance_data` under their names, with the
queue from the refiner that is next, and the partition `pi` of the node. One action
is what happens between two calls of the visitors, as these may abandon the
refinement: `TakeRefiner` counts the neighbours of a refiner and, if worth while,
walks through its edges again (`CountFromSingleton`, `CountAndAnalyse`, `Redo`);
`Joined` and `SplitRefinee` are `handle_refinee` with its two kinds of events;
`RefinerDone` clears and sets the cells of vertices; `Abort` is every way out in
between. `CreateChild` makes a child of any refined node, so the scratch data pass
from node to node. Cells are arranged by the algorithms of `Sorting`; with fewer than 256
edges from a vertex to a cell the edge handler does not fall back to `std::sort`. Labels
of edges are equal (`edge_handler_all_equal`, the only handler in the repository).

`NodeConstruction` takes a refiner cell and splits all cells it hits in one step, the
outcome that `WL1` shows to depend on the cells only; queue and result are as there.
What is modelled in full is around it: which refinements are asked, in which order and
how often; `refine_degree_1` with the cells it does not set; each selector; the
permutation that grows with every new cell. A node may be found worse after any step,
or pruned by the coordinator before the first.

`CellRefinement` knows cells as sets of vertices, the queue and the events, and
nothing of arrays, counters or the order in a cell. That `WL1` implements it
(`DependsOnCellsOnly`) says that what a node becomes, and all the visitors are told,
is the same for isomorphic graphs; that its own result is right is checked and
proved of it (`CoarsestReached`).

## Runs

| run | question | bounds |
|---|---|---|
| `best_leaf` | is the promise enough? | 4 leaves, all rankings with up to 3 ranks |
| `dfs` | does the search keep the promise, with all that it relies on, with either pruner and with implicit automorphisms? | the trees below |
| `bfs` | the same breadth first, and is memory limited and freed? | the trees below, limits of 1, 2 and 4 nodes, and one that is never reached |
| `leaf_comparison` | orders of leaves, and candidates pruned in between; is the form canonical for users? | 4 vertices: 9 lists of edges (labels, parallel edges, loops) with labels of vertices; all leaves that the split by labels and degrees leaves open (4 or 6), 1 pruning |
| `partition` | do the arrays agree under any use? | 4 vertices, all sequences of operations |
| `cells` | does refinement end, with the coarsest equitable partition? | 6 vertices: forests of paths, rings, a triangle with tails; all descendants |
| `refine` | does `WL1` implement `CellRefinement` and leave nothing behind? | all graphs with 4 vertices, simple ones (with one labelled and without) and those with up to 2 edges between two, next to 4 vertices that are singletons; 8 vertices: matchings, rings, a ladder, in several numberings; all descendants |
| `node` | what nodes become under every combination of refinements, and what is claimed of them | 11 graphs with 8 vertices (paths, stars, rings, triangles, squares, parallel edges), 4 combinations of refinements, 4 selectors; all descendants |
| `bfs_late`, `refine_loops`, `leaf_comparison_unsigned`, `target_flmcr` | findings, below | `leaf_comparison_unsigned`: a path of 4 vertices; `bfs_late`: one tree of nine levels, `aut_pruner_basic`, a limit that is not reached |

The trees (`MCTrees`):

* two levels, 2 children with 2 leaves each, 5 groups, all assignments of 4 and 3
  sequences of elements that the group allows: every kind of difference of traces, in
  every order: earlier or later, in the provider or the value, longer or shorter;
* a tree that is one leaf: refinement alone has left single vertices;
* three levels, 11 nodes, leaves on two levels, three providers;
* trees with 10, 13 and 15 nodes and 11 groups, for pruning by automorphisms on one and
  two levels, by groups that act on the whole tree or on part of it.

Two levels below the root are the least at which a node can wait while a trace on
its own level and one above it are replaced; two providers are the least for one
to come before the other, and one of each kind is there. Three levels are needed
for an ancestor that is neither root nor parent, on which the updates of the
pruners and the chains of stabilizers depend. Trees are symmetric under a group because
an automorphism has to exist to be found. In `leaf_comparison` four vertices are the
least for which leaves differ in where edges lead without loops, as vertices are split by
degree before; one pruning is enough for a view that lags behind the candidate. Six vertices are the least for which leaving out too many
refiners is noticed; eight are enough for walking through the edges a second time with
parallel ones to be worth while (fewer hits than vertices not hit), and for a singleton
with neighbours in two larger cells whose refinement is then abandoned. In `node`, eight
vertices are two squares, which WL-1 does not tell from other graphs and whose nodes get
cells of size two in several components.

What they show, in the order of importance:

* `CanonicalLeafFound`: the candidate at the end is a best leaf of the whole tree: depth
  first of any (below), breadth first of trees as flat as these, not of deep ones
  (`bfs_late`).
  `KeepsPromise` says why: every step implements `BestLeaf`, with the leaves that
  a traversal can still reach as the open ones. It is checked step by step, so a
  wrong pruning that happens to be repaired later is found too.
* `CanonicalOrder`: the permutation that is returned orders the graphs of isomorphic
  inputs alike, in terms of the ordered graphs and comparisons that users have, although
  these sort and compare edges in other code than the search.
* `GenerationsAgree`, `RecordAgrees`, `TracesInStep`, `RecordImproves`,
  `CandidateIsRecorded`: the traces of coordinator and providers, read together, are
  one record; it is that of every node that is up to date; a node's generation is
  what tells; the record only gets better; the candidate's path is in it.
* `SetsAreOrbits`, `GeneratorsPassedDown`: merged children are equivalent, with
  either pruner; a node of the basic one that counts a generator as seen has it if it
  fixes the node's path.
* `StabilizersFull`, `ChainsCounted`, `ChainsLead`, `ChainsHaveStabilizers`: a node of the
  Schreier-Sims pruner that has got all generators has the whole stabilizer of its path,
  however they came to it; the counts say so truly; chains lead along the candidate's
  path and to no node that is pruned or destroyed; and a stabilizer is there where the
  code takes one for granted.
* `CoarsestReached`, `ResultIsTrue`, `RefinementEnds`: refinement reaches the coarsest
  equitable partition although one part of each split cell is left out of the queue,
  answers Unchanged only if nothing changed, and ends.
* `DependsOnCellsOnly`, `ScratchClean`, `PartitionAgrees`: see Refinement above; the
  data shared between nodes are clean when a refiner begins, and the partition's
  arrays agree between events.
* `ClaimsAreReal`, `LeftOutAreEquivalent`, `AutIsReset`: what is reported as an automorphism
  without two equal leaves is one that fixes the path; children that are left out
  are equivalent to the one that stays; and what is collected is gone at the next node,
  whether this one was aborted, pruned or reported.
* `BuiltIsStable`, `TargetDependsOnCellsOnly`, `CellsServe`: a complete node is a fixed
  point of all refinements in any order; the target cell is the same whichever vertex
  stands for a cell; and a vertex whose cell is out of date is in a singleton.
* `PathNotPruned`, `KeptAreReleased`, `MemoryIsLimited`: an assertion of the breadth first
  traversal; no node keeps itself alive for good; depth first search is on exactly while
  the limit is reached, and it is exceeded only by nodes on the way to the one in hand and
  to the leaves that are kept for comparisons.
* `SortingAssumption`, which the run `refine` evaluates: `partition_range` and the counting
  sort order a range by any key, lose no element, and leave the rest alone.
* `AlwaysAgree`: the arrays of a partition agree under every use of it.
* `ViewsAreCurrent`, `AutomorphismsAreReal`: what `SearchTree` assumes of the comparison of
  leaves.
* `Terminates`: the traversals end. Assumed is weak fairness of the whole next-state
  relation, nothing about any action: the program is one thread, which goes on as
  long as it can. For `RefinementEnds` it is assumed while a refinement is in progress;
  whether another child is made is the traversal's choice.

Every property has a mutant in `PROJECT.json`: a change of the model as a plausible
mistake in the code would be, which the run finds.

## Findings

* `bfs_late`: a breadth first search that prunes by automorphisms can lose every best leaf.
  A leaf below y is reported that equals the candidate below its sibling x, with an
  automorphism that is known already. `automorphism_leaf` prunes y and relies on x. Their
  parent does not know of the automorphism yet: generators move down from the root when
  a node is visited, and this walk stops at the first ancestor to which none of the new
  ones apply (`aut/pruner_base.hpp:240-243`). Those that exchange whole branches apply at the
  root only, so that a visit may not bring the older ones any further down. Meanwhile the
  candidate moves to a third child z. When the parent at last merges x and y, neither is
  the candidate's child. That y was pruned does not show: `prune_subtree` marks the children
  of a node, not the node itself, in `child_pruned` (`detail/tree_node.hpp:147`), and y, of which
  a child waits in a list, still exists and is not marked by its destructor. So the one
  that comes first stays (`aut/pruner_base.hpp:325-329`), which is y if the vertices are
  numbered so, and x goes with the best leaf below it. The result then depends on the order
  of vertices, while the documentation promises "a permutation that permutes the indices of
  the vertices of `g` into their canonical indices" (`canonicalization.hpp:404`). The tree,
  `LateTree` of `MCTrees`, is abstract: cells, elements and ranks are chosen freely but
  for its group, as users' own visitors may; no graph with the visitors of the repository was
  constructed for it. If `Keep` prefers, of the two, the one that is not pruned, the best leaf
  of `LateTree` is found. The counterexample comes from the proof that `KeepsPromise` holds depth first: at the time an equal leaf is
  reported there, nothing is open any more in the candidate's branch, which is what fails here.
* `leaf_comparison_unsigned`: with a 32 bit unsigned `SizeType` the difference of two
  positions (`detail/permuted_graph_view.hpp:127`) wraps before it becomes a `long long`,
  so a leaf that is better by where an edge leads is taken for a worse one, and of leaves
  that differ in that only the first stays. Better labels of edges are still noticed. The
  difference of degrees (115) is computed alike but never decides, as vertices are split by
  degree before the search (`canonicalization.hpp:234-237`). The run has the leaves of a path
  as a search without refinement finds them.
* `refine_loops`: when a cell with a loop refines itself, the second walk through its
  edges (`refine/WL_1.hpp:402`) swaps the element it is reading (417), skips the one
  that comes in its place, and leaves counters that the next node starts with. Without
  loops the same code is right: an element that is swapped away was read already, or
  is read later at the end of the cell.
* `target_flmcr`: the cleanup loop of `target_cell_flmcr` (`target_cell/flmcr.hpp:164`)
  resets the degree of the first cell only, so that those of earlier nodes add up, and the
  target cell of a node depends on which nodes were constructed before it. The degrees are
  a variable of `NodeConstruction`; `TargetDependsOnCellsOnly` in the run `node` is about
  one choice and the degrees it starts with.

Besides, while modelling: a refinement that answers Again after one that answered Unchanged
or Changed is not asked again (`visitor/compound.hpp:204`, `Combined` in `NodeConstruction`),
although `refine/refine.hpp:26` says it is, no matter what other visitors are doing; none in
the repository relies on it. Generations are counted in a `std::size_t` and stored per level
in a `SizeType` (`invariant/coordinator.hpp:51`, 116); the theorem on them assumes that
they fit, and no document promises it; the runs are too small for it to matter.
`refine_degree_1` answers Unchanged also when it has split cells, as WL-1 would find nothing new in them; `BuiltIsStable` holds all the same.

## Proofs

`BestLeaf_proofs` shows for every set of leaves and every total preorder on them that
a search which keeps the promise never loses the best: `AlwaysCovered`, by the
invariant that each leaf has a remaining one at least as good (a step gives up a leaf
only for one that remains, and the order is transitive), and from it
`FinalCandidateIsBest`. Together with `KeepsPromise` that is the correctness of a
traversal; for a depth first search with `aut_pruner_basic` both are proved
(`PromiseAlwaysKept`, below).

`CellRefinement_proofs` shows for every number of vertices, every graph and all cells to
start from that a refinement which is not aborted, of the root or any descendant, ends with
the coarsest equitable partition that refines the one it began with (`AlwaysCoarsest`), and
that it answers Unchanged exactly when no cell was split (`AlwaysTrueResult`). The
difficulty is that a largest part of each split cell is left out of the queue, and that a
child starts with one refiner. `CoarsestReached` speaks of finished refinements only; the
invariant `IInv` says of those in progress that each cell that is not queued lies in a
union of cells to which every cell is uniform and whose other members are queued
(`QueueServes`). `RefinerTaken`, `SplitServes` and `RefinerServed` show that this is kept when
a refiner is taken, a cell split and a refiner done, `ChildFacts` that it holds of a child;
with an empty queue it says that the partition is equitable (`EmptyQueueEquitable`). That
nothing is split which an equitable partition leaves together (`NothingLost`) needs a sum of
edges over its classes; instead of an induction, `SameClassSameEdges` takes the least class
up to which two such sums differ. The assumptions are `SizeAssumption` (there are vertices),
`InputsAssumption` (incidence lists of vertices, and cells that are an ordered partition;
the lists need not be symmetric) and `NoneAssumption`. Together with `DependsOnCellsOnly`,
which is model-checked, that is the correctness of `refine_WL_1` where edges have no labels.

`DFS_proofs` shows for every tree, every set of providers and every depth that the
assertions of the coordinator hold in a depth first search, as long as the generation
fits in a `SizeType` (`CoordinatorAssertionsHold`). `GenerationsAgree` is not inductive:
that a node under construction has an up to date parent depends on the traversal. The
invariant `IInv` adds the types of the variables; that the work stack is the path from the
root to the node at work, one node per level (`StackIsPath`), so that a child is always
created right after its parent was visited and at the deepest level yet or one that is
recorded; which nodes are constructed, live or pruned; and that no generation exceeds the
global one. `NextIInv` shows that each action preserves it, one lemma per action; it holds
with either pruner and with implicit automorphisms, as all they do to a node is to prune it.
The assumptions are those the modules state about constants: `TreesAssumption`,
`VisitorsAssumption`, `SizeTypeAssumption`, `NoNodeAssumption`.

`Traversal_proofs` and the next part of `DFS_proofs` show, for the same trees and under
the same assumption on generations, that the traces which coordinator and providers keep
apart are one record: `RecordAlwaysAgrees`, `TracesAlwaysInStep`, `RecordAlwaysImproves`
and `CandidateAlwaysOnRecord`. Whether a node is longer than
what is recorded, or better, a recording step is one for all traces together: all that
follows is cut off, in each provider's trace where the coordinator's was cut, and one
element is written (`Records`). None of the properties is inductive. `RecordInv` adds to `IInv`

* `Lengths`, `InPosition`: how long a provider's trace is on each level, and how far a node
  has got in it, by counting its elements in the coordinator's trace; that these counts stay
  right when the trace is cut needs that counting is monotonous and additive;
* `NothingAbove`, `DeeperIsOld`: there is nothing recorded below the deepest level, and what
  a node has seen of deeper levels is older than what it has of its own;
* `QuotientFollows`: the provider that keeps a level of its own agrees with the coordinator;
* `Followed`, `CurFollows`: what a node that is up to date, or the one under construction,
  has emitted is what is recorded of its level;
* `RecordReached`: some node of the tree has all of the record on its path. With it the
  assumption that nodes with the same invariants are leaves alike (`LeavesAlike`) shows
  that a leaf which is up to date is as deep as the record, and that a node which emits
  more than is recorded cannot meet a candidate that is still valid;
* `CandidateOnRecord`.

One lemma for each action shows that it preserves all of these, `NextImproves` that it
improves the record. `RecordInv` was model-checked on the trees of the run `dfs` first.

The next part of `DFS_proofs` shows, for the same trees and again as long as generations fit, what
`aut_pruner_basic` does in a depth first search, with implicit automorphisms or without:
`GeneratorsAlwaysPassedDown`, `SetsAlwaysOrbits` and `CandidateAlwaysRecorded`. The first
two speak of nodes between updates, the last of the candidate; what makes them hold is
said of the update walk while it is under way. The invariant `AllInv` adds to `RInv`

* `GensSeen`, `GensFix`: `GeneratorsPassedDown` for every node, pruned or not, and that
  what a node has been given fixes the path to it. A generator that reaches a node fixes its
  parent's path, as the parent's generators do, and the one vertex for which it was chosen
  (`NewGensFix`);
* `UpdatePath`: `t_path` is a part of the path from the node that is visited, none of it
  has seen all generators but the highest while its moves are merged, and the node above
  it has. The walk may be given up in between, when a node is pruned or has got nothing
  new, and `GensSeen` holds all the same: counts are set from the top down;
* `MovesReal`, and that each child is related to what stands for its set: children are
  related when an automorphism that fixes the path to their parent maps one to the other
  (`SameBelow`). That this is an equivalence is where `HasGroup` is needed: a set is
  merged by generators found at different times, and none of them need map a child to the
  one that stands for it;
* `CanonPath`: while the node that is updated is above the candidate, `c_path` is the path
  from the candidate to it. So `CanonChild` is the child above the candidate, and the one
  that is pruned never is (`OtherIsNotAbove`). The two walks go down one level at a time
  and would lose each other if one of them was shortened without the other;
* `WorkInv`: what waits on the work stack is no candidate, so the leaf that is reported
  and the candidate are different, and what `automorphism_leaf` prunes is not above the
  candidate (`BelowCommonIs`); children from `next_child` on have not been created; and
  the candidate is neither pruned nor older than its level.

That the permutation of `explicit_automorphism` is an automorphism (`ExplicitIsReal`) is
where the record is needed: the candidate and the leaf have both emitted all of it
(`CandidateOnRecord`, `LeafIsDeepest`), and only of such leaves does `HasSymmetry` speak. The
assumptions are those above, `SymmetryAssumption` and `NothingPoppedAssumption` (a
null pointer is no element of the stack). `AllInv` was model-checked on the trees of the run
`dfs` first.

The last part of `DFS_proofs` shows under the same assumptions what all of this is for: a depth first
search with `aut_pruner_basic`, with implicit automorphisms or without, implements
`BestLeaf` step by step (`PromiseAlwaysKept`), and when it is over the candidate is a best
leaf of the whole tree (`CanonicalLeafAlwaysFound`). The difficulty is that what is pruned
for an automorphism relies on leaves elsewhere, which may themselves have been pruned for
another one, found later or in another part of the tree, so that one must not go round in
a circle. The invariant `PInv` adds to `AllInv`

* `ShapeInv`: how nodes come and go. What is live has live ancestors, what is created or
  flagged has finished ones, of a pair one child is never created, and what was merged
  into another set is flagged;
* `StackInv`: a child that has not been created waits in an element of the work stack
  (`StillToDo`); nothing on the stack is outdated (`StackCurrent`: the only pruning by
  `tree_before_descend` of the coordinator never happens depth first); the nodes at work are
  on one path; and `c_path` is a part of the path from the candidate (`CanonUp`). With the
  first two the leaves that no cut is above are the open ones of `OpenLeaves`
  (`ReachIsOpen`): a node that is not cut is held until there is nothing left below it;
* `Fresh`: while there is no candidate the search goes straight down to the leaf that will
  be the next, which nothing prunes. This is what makes it right that the candidate is
  dropped as soon as the trace improves, long before there is a leaf to replace it, and that
  leaves are given up in between for a leaf that is yet to be found;
* `Served`, the heart of it. It does not speak of every node but of those that stand for
  what was cut (`Scope`: neither they nor anything above them has been merged into another
  set or is the child of a pair that is cut). In each of them, for each leaf below it,
  the candidate is as good (without one, whatever leaf comes next), or a leaf *in the
  same subtree* that is as good can still be reached. Stated of all nodes it is false: a
  subtree that was merged has nothing left. Stated of the root alone, which is all that is
  wanted, it is not inductive: the argument for pruning needs it of the subtree that
  stays.

`Served` of the node that stays is what justifies both ways of pruning by automorphisms.
When two sets are merged (`AbsorbKeeps`), a leaf below the one that is cut has an image below
the one that is kept; that is beaten, or a leaf as good is still reachable below it
(`MergeServes`). For this the kept child must not be one that a pair had cut before, and
`KeepStands` shows that the order in which `Keep` prefers them sees to it. When a leaf is as
good as the candidate (`ReportPrunes`), the child below the lowest common ancestor is the
image of the one the candidate is in, and as the search has left that, nothing there is
reachable and all of it is beaten (`NothingLeft`). What the traces prune is beaten by the
candidate (`BelowIsWorse`); when a node is better, every leaf below it beats the candidate
and all that the candidate has beaten (`BelowIsBetter`). One lemma for each action
(`...Keeps`) shows that `PInv` is preserved and that leaves only stop being open. The order
of `BestLeaf` is no equality of what was emitted, so the argument uses `AsGood`, which says
how a leaf is as good, and is transitive (`AsGoodOn`). `PInv` was model-checked on
the trees of the run `dfs` first. Two things in the model came out of the proof. A tree
that is a single leaf had been missing from the runs, and with it `OpenLeaves` was seen to
count the root as open for ever, because the traversal is always given a pointer to it.
`TypedInv` adds the counts of the walk of `tree_before_descend`, and its paths, of which all
elements are nodes, so that `DfsTypeOK` is a theorem, too (`AlwaysTyped`).

`BFS_proofs` shows for every tree, every set of providers, every limit on the number of
nodes and with either pruner, as long as generations fit, that the coordinator and the
providers do their work in a breadth first search as well: `CoordinatorAssertionsHoldByLevel`,
`RecordAgreesByLevel`, `TracesInStepByLevel`, `RecordImprovesByLevel`. `RecordInv` does not
speak of a traversal; what it needs of one is that a node which gets a child is up to date.
Depth first that follows from the work stack being one path. Here nodes wait in lists while
the record changes: they may be outdated when they are taken, and it is
`tree_before_descend` that prunes them before they get a child. So the invariant `BInv` adds
to `RecordInv` which pointers there are at each place of the code (`InHand`, `Placed`), that
what they point to has been created (`Appeared`), and that the node which is about to get a
child has just been visited (`Current`). With it `PathNeverPruned`: the last node of an
experimental path is not pruned when the path goes on, because nothing can be updated from
a node without children (`ChildrenCounted`).

With `aut_pruner_basic` the sets of children and the generators are right in a breadth first
search, too (`SetsAreOrbitsByLevel`, `GeneratorsPassedDownByLevel`). Here leaves are compared
while most of the tree is still to be constructed, and what is found is merged into nodes of
lists that may be taken much later, or never. `GInv` adds to `BInv` the facts on nodes and
pruner that do not depend on the order of the traversal (`NodesInv`: `GensInv`, `ShapeInv`), and
what ties them to this one (`WalkInv`): children of a node in the loop, and those from
`next_child` on of an element of the work stack, have not been created (`Waiting`); the leaves
that are kept have been finished, and are no longer at the end of the path or in hand
(`Reported`); and the nodes of a depth first traversal are one path below the node it started
at (`OnBranch`).

`KeptAlwaysReleased` shows that no node is left pointing to itself. A node on a path is not in
a list: it gets into one when the loop over its parent's children reaches it, and the parent
may be kept itself. So each kept node is in a list, or its parent is kept, or
its parent is the node of the loop and it has not been reached yet (`Covered`); following the
parents, which ends at the root, something is still to be done while a node is kept. That
the loop does not pass over such a node, nor a list lose it, is where it matters that a child
that was traversed depth first, or was cut off from its parent, is never kept (`KeptHeld`, `ShapeInv`). `KInv`
adds this to `GInv`.

`SwitchedAtLimit`, which holds with either pruner, says that the test for equality by which
`explore_tree` notices the limit is enough: which nodes exist only changes by one that is
created, after which the test is made, or by those that a dropped pointer frees
(`NextGrows`, `CountStep`). From then on the bound of `MemoryIsLimited` is about nodes that
are created while the memory is full, and `MemoryAlwaysLimited` proves it with `aut_pruner_basic`. Counting
what exists off the ways to the nodes in hand is not inductive, as the ways change at every
step. `MInv` counts other nodes instead (`Settled`): those that exist, are not just being
created, and are not below a node that was traversed depth first. A node settles only
where it is visited, and a node that is visited while the memory is full is traversed depth
first, so there are never more than fit (`FewSettled`). What the traversal holds is not below
a node that was traversed depth first (`Apart`), nor is it what has just been created
(`NewNodes`), so what exists off the ways is settled (`OffTheWays`). With a limit of 1 `Apart` is false: the
root itself is traversed depth first, and the lists are gone over afterwards. For that
case `EInv` says that there is nothing to do by then: a child of a live node has been cut
off, has been constructed, or is yet to come on the work stack (`AllDone`), so what the lists still
lead to exists only because a kept leaf is below it (`LeftOver`). These leaves stay the same: what is above a
node that is up to date is up to date (`AncestorsCurrent`), so the candidate is not dropped
for an outdated node above it (`CandidateNotBelow`). So only the root exists off the ways (`OnlyRootOff`). `SwitchedAtLimit`'s invariant, `Settled`,
`AncestorsCurrent` and `AllDone` were model-checked on the trees of the breadth first runs first.

`AlwaysTypedByLevel` states the types of all this, and `CandidateRecordedByLevel` that the candidate is alive and on
record: `DInv` adds to `KInv` the path from the candidate to the node that is updated
(`CanonPath`) and `CandLive`, which are the same as depth first and are stated once, in
`Traversal_proofs`. What differs is who can prune a node above it: `tree_before_descend` may do so for every
node that is taken from a list, and then the candidate is dropped in the same step
(`NodeSteps`, `NextCand`).

`PermutedGraph_proofs` shows for every number of vertices, every graph and every order in
which leaves are reported and candidates pruned that views are current
(`ViewsAlwaysCurrent`), that what is reported as an automorphism is one
(`AutomorphismsAlwaysReal`), and, where differences of positions keep their sign
(`~DifferenceWraps`; `leaf_comparison_unsigned` is what happens otherwise), that the
permutation returned is canonical in the user's terms (`OrderAlwaysCanonical`). The
invariant says that each view is what a new one of its leaf would be, that the two
are of different leaves, and that the candidate compares least of all leaves since the
last pruning, with an automorphism reported for each that compares equal. It rests on
four facts about lists of edges of any length. A list that is permuted and sorted again is
the list sorted at once (`SortedAlike`: both have each entry equally often, and at the
least place where they differ one has fewer of some key). The comparison by first
differences is antisymmetric and transitive (`FirstOpposite`, `FirstChained`), so the least
leaf does not depend on the order of reports. It is zero exactly when the permutation from
one leaf to the other is an automorphism with labels. And the comparison of
`ordered_graph`, which sorts and compares in other code, orders leaves in the same way. The
assumptions are `GraphsAssumption` (incidence lists are those of a graph, degrees fit in a
`SizeType`), `WidthAssumption` and `NobodyAssumption`.

`PartitionUse_proofs` shows for every number of vertices but none that the arrays of a
partition agree whenever no cell is being split (`ArraysAlwaysAgree`). While a cell is
split its last part has no end, so the invariant speaks of the partition `Closed` that
there would be if the splitting ended now; one lemma for each operation says what it
does to a partition whose arrays agree. That cells which are not set again stay cells,
and stay before their vertices, needs that swaps are made inside a cell and that cells
do not reach into each other (`CellsApart`). `SplitsComeTogether` shows that the splits of
one cell come to what `SplitCell` says of them together, which `WL1` and `NodeConstruction`
use as one step.

`NodeConstruction_proofs` shows for every graph, every combination of refinements and every
way a construction ends that the collected permutation is the identity when the next
node begins (`AutIsAlwaysReset`): it only ever differs while the node counts as one whose
automorphism can be read off its cells, and the end of such a node always resets it.

Only model-checked: everything else. That is

* liveness (`Terminates`), which is out of the prover's reach;
* that the breadth first traversal implements `BestLeaf` (`KeepsPromise`,
  `CanonicalLeafFound`) on the trees of the run `bfs`. It does not on every tree
  (`bfs_late`), so there is nothing to prove as the code is. Its other invariants are proved,
  and they do not depend on that;
* the Schreier-Sims pruner (`StabilizersFull`, `ChainsCounted`, `ChainsLead`,
  `ChainsHaveStabilizers`), and so all that is proved above of the basic one where that one is used
  instead. Its chains are recursive functions of groups that grow, and not even that
  they satisfy the equations they are defined by can be had without an induction over data;
* what `NodeConstruction` claims of automorphisms and target cells (`ClaimsAreReal`,
  `BuiltIsStable`, `TargetDependsOnCellsOnly`, `LeftOutAreEquivalent`, `CellsServe`), which is made with
  folds over sequences and sets: an induction over data, too;
* that `WL1` implements `CellRefinement` (`PartitionAgrees`, `ScratchClean`, `DependsOnCellsOnly`): its sorting is
  written with recursive operators.

Where a fact of that kind was needed above, it was proved of a least counterexample instead.

## Not modelled, and the plan

Left for later, in this order:

1. Edge handlers with labels of users' own in a refinement. The interface
   (`edge_handler/edge_handler.hpp`) allows them and the repository has none, so that one
   would have to be invented: a cell is split by more than a number of edges there.
2. Narrow types in `WL_1`, among them the index -1 of no largest cell (`WL_1.hpp:603`), and
   the empty graph (`bfs-exp-m.hpp:80` divides by the size of a node).
3. The breadth first counterpart of `PInv`, once the code keeps, of two children it merges,
   one that is not pruned whichever comes first: checked on `LateTree`, then proved.

Left out: the in-edges of ordered graphs, which nothing in the repository uses; the
template machinery, the checks at compile time; statistics and debug visitors, which
only count and print; DIMACS input and the command line tools. The PermGroup library is
not part of the repository; what is used of it is marked external.
