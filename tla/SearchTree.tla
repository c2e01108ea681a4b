----------------------------- MODULE SearchTree -----------------------------
(***************************************************************************)
(* The search tree of the canonicalizer as its traversals see it: nodes    *)
(* are constructed by individualising a vertex and refining, while the     *)
(* invariant coordinator and the invariant providers compare the node with *)
(* the best trace recorded so far; nodes are pruned; leaves are reported   *)
(* and compared by the graph they stand for.                               *)
(*                                                                         *)
(* A node is named by the vertices individualised on the path from the     *)
(* root, <<>>; children are created in the order of their last vertex.     *)
(* What refinement does with a node is an input here: "tree" says which    *)
(* nodes there are, which invariant elements a complete construction of    *)
(* each node emits, and how the permuted graphs of the leaves compare.     *)
(* The code is sequential, but the construction of a node is a sequence of *)
(* events, and each of them can change what is recorded for other nodes.   *)
(***************************************************************************)
EXTENDS Integers, Sequences, FiniteSets

CONSTANTS
  Trees,     \* the search trees a run may be given
  Visitors,  \* invariant providers, numbered by init_visitor
  PerLevel,  \* the providers that keep a trace per level (quotient); the
             \* others keep one along the path (cell_split, partial_leaf)
  MaxDepth,  \* no node of a tree is deeper (the code sizes traces by n)
  NoNode,    \* a null pointer
  SizeTypeSize \* how many values a SizeType has

Root == <<>>
Level(t) == Len(t)
Parent(t) == SubSeq(t, 1, Len(t) - 1)
Ancestor(t, l) == SubSeq(t, 1, l)
Levels == 0 .. MaxDepth

(* a is t or an ancestor of t                                              *)
Above(a, t) == Len(a) <= Len(t) /\ SubSeq(t, 1, Len(a)) = a

Elements == Visitors \X Nat

(* Paths, and with each path the paths to its ancestors.                   *)
IsTree(T) ==
  /\ T.nodes \subseteq Seq(Nat)
  /\ Root \in T.nodes
  /\ \A t \in T.nodes : Len(t) <= MaxDepth
  /\ \A t \in T.nodes : \A l \in 0 .. Len(t) : Ancestor(t, l) \in T.nodes
  /\ T.children = [t \in T.nodes |-> {c \in T.nodes : c # Root /\ Parent(c) = t}]
  /\ T.elems \in [T.nodes -> Seq(Elements)]
  /\ T.cert \in [T.nodes -> Nat]

ASSUME TreesAssumption == \A T \in Trees : IsTree(T)
ASSUME VisitorsAssumption ==
  Visitors \subseteq Nat /\ PerLevel \subseteq Visitors /\ MaxDepth \in Nat
ASSUME SizeTypeAssumption == SizeTypeSize \in Nat \ {0}
ASSUME NoNodeAssumption == \A T \in Trees : NoNode \notin T.nodes

VARIABLES
  tree,          \* the search tree of this run (never changes)
  \* tree_node
  status,        \* "absent", "constructing", "live" or "pruned"
  child_pruned,  \* children flagged in their parent's child_pruned
  \* invariant_coordinator
  trace,         \* per level, the providers that contributed, in order
  max_level,
  generation,
  generations,   \* per level
  node_gen,      \* tree_data::generation
  end_index,     \* tree_data::end_index
  \* the providers
  values,        \* their traces
  value_end,     \* their tree_data: how far a node has got in the trace
  q_max_level,   \* the max_level of invariant_quotient
  \* canon_state
  canon_leaf,
  canon_graph,   \* the leaf canon_permuted_graph was made from
  extra_graph,   \* the leaf extra_permuted_graph was made from
  \* the constructor in progress
  cur,           \* the node under construction, or NoNode
  emitted        \* the elements it has emitted

coordVars == <<trace, max_level, generation, generations>>
dataVars == <<node_gen, end_index, value_end>>
leafVars == <<canon_leaf, canon_graph, extra_graph>>
treeVars == <<tree, status, child_pruned, coordVars, dataVars, values,
              q_max_level, leafVars, cur, emitted>>

Children(t) == tree.children[t]
IsLeaf(t) == Children(t) = {}

(* Where provider v stores the values of level l: cell_split and           *)
(* partial_leaf have a single array with an end, quotient one per level.   *)
Slot(v, l) == IF v \in PerLevel THEN l ELSE 0

Truncate(s, k) == SubSeq(s, 1, k)

-----------------------------------------------------------------------------
(* Construction of a node: tree_node::tree_node and the visitors it calls  *)

(* tree_create_node_begin of the coordinator, and of the providers: a trace*)
(* along the path continues the parent's, a trace per level starts afresh. *)
BeginGeneration(t) == IF Level(t) > max_level THEN generation ELSE generations[Level(t)]
BeginEnd(v, t) == IF v \in PerLevel THEN 0 ELSE value_end[v][Parent(t)]

CreateBegin(t) ==
  /\ cur' = t
  /\ emitted' = 0
  /\ status' = [status EXCEPT ![t] = "constructing"]
  /\ end_index' = [end_index EXCEPT ![t] = 0]
  /\ node_gen' = [node_gen EXCEPT ![t] = BeginGeneration(t)]
  /\ value_end' = [v \in Visitors |-> [value_end[v] EXCEPT ![t] = BeginEnd(v, t)]]
  /\ UNCHANGED <<tree, child_pruned, coordVars, values, q_max_level, leafVars>>

(* What is emitted next: a provider, and the rank of its value among those *)
(* the provider compares it with (the least is the best; partial_leaf      *)
(* prefers later positions and more edges).                                *)
NextElement == tree.elems[cur][emitted + 1]
Emitting == cur # NoNode /\ emitted < Len(tree.elems[cur])

(* add_invariant_element: nothing has been recorded from here on           *)
IsExtending(t) == t = Root \/ Level(t) > max_level

(* a provider has no value recorded where t is                             *)
AtEnd(t, v) == value_end[v][t] = Len(values[v][Slot(v, Level(t))])
RecordedVisitor(t) == trace[Level(t)][end_index[t] + 1]
RecordedValue(t, v) == values[v][Slot(v, Level(t))][value_end[v][t] + 1]

(* add_invariant_element while extending, then extend_trace                *)
EmitExtending ==
  LET v == NextElement[1]
  IN /\ Emitting
     /\ IsExtending(cur)
     /\ AtEnd(cur, v)
     /\ trace' = [trace EXCEPT ![Level(cur)] = Append(@, v)]
     /\ values' = [values EXCEPT ![v][Slot(v, Level(cur))] = Append(@, NextElement[2])]
     /\ value_end' = [value_end EXCEPT ![v][cur] = @ + 1]
     /\ emitted' = emitted + 1
     /\ UNCHANGED <<tree, status, child_pruned, max_level, generation, generations,
                    node_gen, end_index, q_max_level, leafVars, cur>>

(* What is left of the record of provider u when t cuts it: its own level   *)
(* up to where t is, and nothing above.                                     *)
CutOwnLevel(u, t) ==
  [i \in Levels |-> IF i = Slot(u, Level(t)) THEN Truncate(values[u][i], value_end[u][t])
                                             ELSE values[u][i]]
Cut(u, t) ==
  [i \in Levels |->
     IF i = Slot(u, Level(t)) THEN Truncate(values[u][i], value_end[u][t])
     ELSE IF u \in PerLevel /\ i > Level(t) /\ i <= q_max_level THEN <<>>
     ELSE values[u][i]]

(* canon_state::prune_canon_leaf                                           *)
KeepCanonLeaf == canon_leaf
PruneCanonLeaf == NoNode

(* better_invariant(t) with t at coordinator index k, and the element      *)
(* recorded that made t better: levels above t are cleared, its level is   *)
(* cut (the coordinator and, in invariant_better, each provider at its own *)
(* index), the generation is bumped and the candidate leaf dropped.        *)
Better(t, k, tr) ==
  LET v == NextElement[1]
      l == Level(t)
  IN /\ trace' = [i \in Levels |->
                    IF i = l THEN tr
                    ELSE IF i > l /\ i <= max_level THEN <<>>
                    ELSE trace[i]]
     /\ max_level' = l - 1
     /\ generation' = generation + 1
     /\ node_gen' = [node_gen EXCEPT ![t] = generation']
     /\ end_index' = [end_index EXCEPT ![t] = k]
     /\ values' = [u \in Visitors |->
                     IF u = v THEN [Cut(u, t) EXCEPT ![Slot(v, l)] = Append(@, NextElement[2])]
                              ELSE Cut(u, t)]
     /\ value_end' = [value_end EXCEPT ![v][t] = @ + 1]
     /\ q_max_level' = IF PerLevel = {} THEN q_max_level ELSE l - 1
     /\ canon_leaf' = PruneCanonLeaf
     /\ emitted' = emitted + 1
     /\ UNCHANGED <<tree, status, child_pruned, generations, canon_graph, extra_graph, cur>>

(* add_invariant_element finds the node better: it goes on where the       *)
(* recorded trace stops, or with a provider that comes first.              *)
EmitBetterByVisitor ==
  /\ Emitting
  /\ ~IsExtending(cur)
  /\ LET k == end_index[cur]
         v == NextElement[1]
         recorded == trace[Level(cur)]
     IN /\ k < Len(recorded) => v < recorded[k + 1]
        /\ Better(cur, k, Append(Truncate(recorded, k), v))

(* the same provider, and the rest is a comparison of values               *)
SameVisitor ==
  /\ Emitting
  /\ ~IsExtending(cur)
  /\ end_index[cur] < Len(trace[Level(cur)])
  /\ NextElement[1] = RecordedVisitor(cur)
  /\ ~AtEnd(cur, NextElement[1])

EmitDifferentAsBetter ==
  /\ SameVisitor
  /\ NextElement[2] # RecordedValue(cur, NextElement[1])
  /\ LET k == end_index[cur] + 1
     IN Better(cur, k, Truncate(trace[Level(cur)], k))
EmitBetterByValue ==
  /\ SameVisitor
  /\ NextElement[2] < RecordedValue(cur, NextElement[1])
  /\ LET k == end_index[cur] + 1
     IN Better(cur, k, Truncate(trace[Level(cur)], k))

EmitSame ==
  LET v == NextElement[1]
  IN /\ SameVisitor
     /\ NextElement[2] = RecordedValue(cur, v)
     /\ end_index' = [end_index EXCEPT ![cur] = @ + 1]
     /\ value_end' = [value_end EXCEPT ![v][cur] = @ + 1]
     /\ emitted' = emitted + 1
     /\ UNCHANGED <<tree, status, child_pruned, coordVars, node_gen, values,
                    q_max_level, leafVars, cur>>

(* quotient's tree_create_node_end, which does not look at is_pruned       *)
QuotientEndUnguarded(t) ==
  q_max_level' = IF PerLevel # {} /\ t # Root THEN q_max_level + 1 ELSE q_max_level
QuotientEnd(t) ==
  q_max_level' = IF PerLevel # {} /\ t # Root /\ q_max_level < Level(t)
                 THEN q_max_level + 1 ELSE q_max_level

(* The node is pruned: the constructor ends, create_child flags the child. *)
Discard(t) ==
  /\ status' = [status EXCEPT ![t] = "pruned"]
  /\ child_pruned' = child_pruned \cup {t}
  /\ cur' = NoNode
  /\ QuotientEnd(t)
  /\ UNCHANGED <<tree, coordVars, node_gen, values, value_end, leafVars, emitted>>

(* An element that is worse aborts the refinement.                         *)
EmitWorseVisitor ==
  /\ Emitting
  /\ ~IsExtending(cur)
  /\ end_index[cur] < Len(trace[Level(cur)])
  /\ NextElement[1] > RecordedVisitor(cur)
  /\ UNCHANGED end_index
  /\ Discard(cur)
EmitWorseValue ==
  /\ SameVisitor
  /\ NextElement[2] > RecordedValue(cur, NextElement[1])
  /\ end_index' = [end_index EXCEPT ![cur] = @ + 1]
  /\ Discard(cur)

Emitted == cur # NoNode /\ emitted = Len(tree.elems[cur])

(* tree_create_node_end for a node that stops short of the recorded trace  *)
CreateShort ==
  /\ Emitted
  /\ ~IsExtending(cur)
  /\ end_index[cur] < Len(trace[Level(cur)])
  /\ UNCHANGED end_index
  /\ Discard(cur)

(* The generation of the level of t once t is finished.                    *)
StaleGeneration(t) == generations[Level(t)]
LevelGeneration(t) == IF IsExtending(t) THEN generation ELSE node_gen[t]

(* It is stored as a SizeType; the global generation is a std::size_t.     *)
Narrow(g) == IF g < SizeTypeSize THEN g ELSE g % SizeTypeSize

(* tree_create_node_end for the root, for a node that extends the trace,   *)
(* and for one that agrees with it                                         *)
CreateLive ==
  /\ Emitted
  /\ \/ IsExtending(cur)
     \/ end_index[cur] = Len(trace[Level(cur)])
  /\ status' = [status EXCEPT ![cur] = "live"]
  /\ max_level' = IF cur # Root /\ Level(cur) > max_level THEN max_level + 1 ELSE max_level
  /\ generations' = [generations EXCEPT ![Level(cur)] =
                       Narrow(LevelGeneration(cur))]
  /\ QuotientEnd(cur)
  /\ cur' = NoNode
  /\ UNCHANGED <<tree, trace, generation, dataVars, values,
                 leafVars, emitted>>

Construct ==
  \/ EmitExtending
  \/ EmitBetterByVisitor
  \/ EmitBetterByValue
  \/ EmitSame
  \/ EmitWorseVisitor
  \/ EmitWorseValue
  \/ CreateShort

-----------------------------------------------------------------------------
(* What a traversal does with constructed nodes                            *)

(* invariant_coordinator::tree_before_descend prunes a node that belongs   *)
(* to a trace that has been replaced.                                      *)
OutdatedByLevel(t) == t # Root /\ status[t] # "pruned" /\ Level(t) > max_level
OutdatedEagerly(t) ==
  /\ t # Root
  /\ status[t] # "pruned"
  /\ Level(t) > max_level \/ node_gen[t] < generation
Outdated(t) ==
  /\ t # Root
  /\ status[t] # "pruned"
  /\ Level(t) > max_level \/ node_gen[t] < generations[Level(t)]

(* tree_node::prune_subtree, which reaches the children that exist; "also" *)
(* are flagged children by which the caller cuts the subtree off.          *)
PruneSubtree(t, also) ==
  LET below == {s \in tree.nodes : Above(t, s)}
  IN /\ status' = [s \in tree.nodes |->
                     IF s \in below /\ status[s] = "live" THEN "pruned" ELSE status[s]]
     /\ child_pruned' = child_pruned \cup also \cup
                        {c \in below \ {t} : status[Parent(c)] = "live"}
     /\ UNCHANGED <<tree, coordVars, dataVars, values, q_max_level, cur, emitted>>

(* Only a caller that allows it gives the candidate up with the subtree.   *)
PruneCanonLeafBelow(t) ==
  canon_leaf' = IF \E s \in tree.nodes : s = canon_leaf /\ Above(t, s)
                THEN PruneCanonLeaf ELSE canon_leaf

(* canon_state::report_leaf.  The permuted graph of the candidate is only  *)
(* made when there is a second leaf to compare it with, and may be that of *)
(* an earlier candidate: before the comparison it is made, or repermuted,  *)
(* for the leaf that is the candidate now.                                 *)
FirstReference == IF canon_graph = NoNode THEN canon_leaf ELSE canon_graph
Reference == canon_leaf

ReportLeaf(t) ==
  \/ /\ canon_leaf = NoNode
     /\ canon_leaf' = t
     /\ UNCHANGED <<canon_graph, extra_graph>>
  \/ /\ canon_leaf # NoNode
     /\ LET better == tree.cert[t] < tree.cert[Reference]
        IN /\ canon_leaf' = IF better THEN t ELSE canon_leaf
           /\ canon_graph' = IF better THEN t ELSE Reference
           /\ extra_graph' = IF better THEN Reference ELSE t

(* The initial state of canon_state: the root is being constructed.        *)
TreeInit ==
  /\ tree \in Trees
  /\ status = [t \in tree.nodes |-> IF t = Root THEN "constructing" ELSE "absent"]
  /\ child_pruned = {}
  /\ trace = [l \in Levels |-> <<>>]
  /\ max_level = 0
  /\ generation = 0
  /\ generations = [l \in Levels |-> 0]
  /\ node_gen = [t \in tree.nodes |-> 0]
  /\ end_index = [t \in tree.nodes |-> 0]
  /\ values = [v \in Visitors |-> [l \in Levels |-> <<>>]]
  /\ value_end = [v \in Visitors |-> [t \in tree.nodes |-> 0]]
  /\ q_max_level = 0
  /\ canon_leaf = NoNode
  /\ canon_graph = NoNode
  /\ extra_graph = NoNode
  /\ cur = Root
  /\ emitted = 0

-----------------------------------------------------------------------------
(* The reference: how leaves compare, over the whole tree.                 *)

ElementBetter(a, b) == a[1] < b[1] \/ (a[1] = b[1] /\ a[2] < b[2])

(* the elements of one level: the first difference decides, and going on   *)
(* beats stopping                                                          *)
ElementsBetter(r, s) ==
  \E i \in 1 .. Len(r) :
    /\ i <= Len(s) + 1
    /\ SubSeq(r, 1, i - 1) = SubSeq(s, 1, i - 1)
    /\ i <= Len(s) => ElementBetter(r[i], s[i])

PathElements(T, t, l) == T.elems[Ancestor(t, l)]
SamePath(T, s, t, l) == \A i \in 1 .. l : PathElements(T, s, i) = PathElements(T, t, i)

(* the first level where the invariants along the paths differ decides     *)
TraceBetter(T, s, t) ==
  \E l \in 1 .. Level(s) :
    /\ l <= Level(t)
    /\ SamePath(T, s, t, l - 1)
    /\ ElementsBetter(PathElements(T, s, l), PathElements(T, t, l))

LeafBetter(T, s, t) ==
  \/ TraceBetter(T, s, t)
  \/ ~TraceBetter(T, t, s) /\ T.cert[s] < T.cert[t]

LeavesOf(T) == {t \in T.nodes : T.children[t] = {}}

(* Nodes with the same invariants along their paths are leaves alike: what *)
(* the providers must give the coordinator (with cell_split, nodes of the  *)
(* same trace have the same number of cells).                              *)
LeavesAlike(T) ==
  \A s, t \in T.nodes :
    Len(s) = Len(t) /\ SamePath(T, s, t, Len(s)) =>
      (T.children[s] = {} <=> T.children[t] = {})

ASSUME ProvidersAssumption == \A T \in Trees : LeavesAlike(T)

-----------------------------------------------------------------------------
(* The record: the coordinator's and the providers' traces read together.  *)

Count(v, s) == Cardinality({i \in 1 .. Len(s) : s[i] = v})
CountBelow(v, l) ==
  Cardinality(UNION {{<<k, i>> : i \in {j \in 1 .. Len(trace[k]) : trace[k][j] = v}}
                     : k \in 0 .. l - 1})

Recorded(l) ==
  [i \in 1 .. Len(trace[l]) |->
     LET v == trace[l][i]
         before == IF v \in PerLevel THEN 0 ELSE CountBelow(v, l)
         k == before + Count(v, SubSeq(trace[l], 1, i))
         own == values[v][Slot(v, l)]
     IN IF k <= Len(own) THEN <<v, own[k]>> ELSE <<v>>]

UpToDate(t) == status[t] = "live" /\ ~Outdated(t)

(* All but the flags and the providers' traces.                            *)
ControlTypeOK ==
  /\ status \in [tree.nodes -> {"absent", "constructing", "live", "pruned"}]
  /\ trace \in [Levels -> Seq(Visitors)]
  /\ max_level \in Levels
  /\ generation \in Nat
  /\ generations \in [Levels -> Nat]
  /\ node_gen \in [tree.nodes -> Nat]
  /\ end_index \in [tree.nodes -> Nat]
  /\ value_end \in [Visitors -> [tree.nodes -> Nat]]
  /\ q_max_level \in Levels
  /\ {canon_leaf, canon_graph, extra_graph} \subseteq tree.nodes \cup {NoNode}
  /\ cur \in tree.nodes \cup {NoNode}
  /\ emitted \in Nat

TypeOK ==
  /\ ControlTypeOK
  /\ child_pruned \subseteq tree.nodes
  /\ values \in [Visitors -> [Levels -> Seq(Nat)]]

(* The assertions of invariant_coordinator about levels and generations:   *)
(* no node is ahead of its level; a node under construction has an up to   *)
(* date parent; a node that extends the record goes exactly one level      *)
(* deeper and has the newest generation, also when it became better in the *)
(* middle of its own construction; any other node has not passed the end   *)
(* of its level.                                                           *)
GenerationsAgree ==
  /\ \A t \in tree.nodes :
       status[t] = "live" => node_gen[t] <= generations[Level(t)]
  /\ cur \notin {NoNode, Root} =>
       /\ UpToDate(Parent(cur))
       /\ IF IsExtending(cur)
          THEN Level(cur) = max_level + 1 /\ node_gen[cur] = generation
          ELSE end_index[cur] <= Len(trace[Level(cur)])

(* The traces kept in different visitors stay in step: each provider has   *)
(* recorded exactly the elements the coordinator has it down for, every up *)
(* to date node has got as far as its level in all of them, and the node   *)
(* under construction is at the same element in all of them.               *)
TracesInStep ==
  /\ \A v \in Visitors :
       /\ IF v \in PerLevel
          THEN \A l \in Levels : Len(values[v][l]) = Count(v, trace[l])
          ELSE Len(values[v][0]) = CountBelow(v, MaxDepth + 1)
       /\ \A t \in tree.nodes : UpToDate(t) =>
            value_end[v][t] = IF v \in PerLevel THEN Count(v, trace[Level(t)])
                                               ELSE CountBelow(v, Level(t) + 1)
       /\ cur # NoNode =>
            LET passed == IF IsExtending(cur) THEN trace[Level(cur)]
                          ELSE Truncate(trace[Level(cur)], end_index[cur])
            IN value_end[v][cur] = Count(v, passed) +
                 IF v \in PerLevel THEN 0 ELSE CountBelow(v, Level(cur))
  /\ PerLevel # {} => q_max_level = max_level

(* The record is that of every up to date node: on each level of its path  *)
(* exactly what its ancestor there emitted.  The generations are the only  *)
(* thing that tells such nodes from those of a replaced trace.             *)
RecordAgrees ==
  \A t \in tree.nodes : UpToDate(t) =>
    \A l \in 0 .. Level(t) : Recorded(l) = PathElements(tree, t, l)

(* The candidate leaf is never one of a replaced trace: its path is all    *)
(* there is in the record, so comparing permuted graphs is enough.         *)
CandidateIsRecorded ==
  canon_leaf # NoNode =>
    /\ UpToDate(canon_leaf)
    /\ IsLeaf(canon_leaf)
    /\ max_level = Level(canon_leaf)

(* A recorded level is only ever extended or replaced by a better one, and *)
(* never while the levels above it in the tree change.                     *)
RecordImproves ==
  [][\A l \in Levels : Recorded(l)' # Recorded(l) /\ Recorded(l)' # <<>> =>
       /\ ElementsBetter(Recorded(l)', Recorded(l))
       /\ \A k \in Levels : k < l => Recorded(k)' = Recorded(k)
    ]_<<trace, values>>

=============================================================================
