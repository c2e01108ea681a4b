---------------------------- MODULE PermutedGraph ----------------------------
(***************************************************************************)
(* The comparison of leaves: canon_state::report_leaf with the two         *)
(* permuted_graph_views it keeps.  A leaf is a permutation: it says which  *)
(* vertex is at which position.  Its view lists, position by position, the *)
(* edges of the vertex there, sorted by the positions they lead to; the    *)
(* views are compared lexicographically.  The views are reused: one that   *)
(* was made for an earlier leaf is permuted and sorted again.              *)
(***************************************************************************)
EXTENDS SortedList, Functions, FiniteSetsExt

CONSTANTS
  n,               \* num_vertices
  Graphs,          \* of each vertex, its label and its edges in some order
  DifferenceWraps, \* a difference of two SizeTypes is unsigned and does not
                   \* become negative in a long long (32 bits, unsigned)
  SizeTypeSize,    \* how many values a SizeType has
  Nobody,          \* a null pointer
  MaxPrunes        \* bound: how often the candidate is pruned

Indices == 0 .. n - 1
Edges == [to : Indices, label : Nat]
IsGraph(g) ==
  /\ DOMAIN g = Indices
  /\ \A v \in Indices : /\ g[v].label \in Nat
                         /\ g[v].out_edges \in Seq(Edges)
                         /\ Len(g[v].out_edges) < SizeTypeSize  \* out_degree

ASSUME GraphsAssumption == \A g \in Graphs : IsGraph(g)
ASSUME WidthAssumption == n \in Nat /\ SizeTypeSize \in Nat /\ SizeTypeSize > n

Orders == {p \in [Indices -> Indices] : \A v \in Indices : \E i \in Indices : p[i] = v}
Views == [leaf : Orders, repr : [Indices -> [v : Indices, out_edges : Seq(Edges)]]]
ASSUME NobodyAssumption == Nobody \notin Orders /\ Nobody \notin Views

InverseOf(p) == [v \in Indices |-> CHOOSE i \in Indices : p[i] = v]

VARIABLES
  graph,       \* never changes
  canon_leaf,
  canon_view,  \* canon_permuted_graph
  extra_view,  \* extra_permuted_graph
  reported,    \* the leaves that were reported
  since,       \* those after the candidate was last pruned
  found,       \* the automorphisms given to the visitors
  prunes       \* how often the candidate was pruned

(* The degree of a vertex, as graphs are undirected.                       *)
OutDegree(v) == Len(graph[v].out_edges)

(* Before the search the vertices are split by their labels, and those with*)
(* the same label by their degrees.  Every order of the vertices that is   *)
(* left open is a leaf if no visitor refines; refinement leaves some out.  *)
Leaves == {p \in Orders : \A i, j \in Indices :
             i < j => /\ graph[p[i]].label <= graph[p[j]].label
                      /\ graph[p[i]].label = graph[p[j]].label =>
                           OutDegree(p[i]) <= OutDegree(p[j])}

vars == <<graph, canon_leaf, canon_view, extra_view, reported, since, found, prunes>>

-----------------------------------------------------------------------------
(* permuted_graph_view                                                     *)

(* edge_handler.compare of a user's handler, with the sign that is required*)
(* of it.  That of edge_handler_all_equal is the case of one label.        *)
CompareLabels(d, e) == d.label - e.label

(* edge_less                                                               *)
EdgeLess(inv, d, e) ==
  \/ inv[d.to] < inv[e.to]
  \/ inv[d.to] = inv[e.to] /\ CompareLabels(d, e) < 0
SortedBy(p, s) ==
  Arranged(s, {k \in (1 .. Len(s)) \X (1 .. Len(s)) :
                 EdgeLess(InverseOf(p), s[k[1]], s[k[2]])})

View(p) ==
  [leaf |-> p,
   repr |-> [i \in Indices |-> [v |-> p[i], out_edges |-> SortedBy(p, graph[p[i]].out_edges)]]]

(* The entries move to the new positions of their vertices.                *)
Moved(view, p) == [i \in Indices |-> view.repr[InverseOf(view.leaf)[p[i]]]]
RepermuteUnsorted(view, p) == [leaf |-> p, repr |-> Moved(view, p)]
Repermute(view, p) ==
  [leaf |-> p,
   repr |-> [i \in Indices |-> [v |-> Moved(view, p)[i].v,
                                out_edges |-> SortedBy(p, Moved(view, p)[i].out_edges)]]]

(* The difference of two values of SizeType, as a long long.               *)
Difference(a, b) == IF DifferenceWraps THEN (a - b) % SizeTypeSize ELSE a - b

(* Two edges at the same place: where they lead decides, then their labels.*)
TargetDifference(x, y, d, e) ==
  Difference(InverseOf(x.leaf)[d.to], InverseOf(y.leaf)[e.to])
EdgeDifference(x, y, d, e) ==
  IF TargetDifference(x, y, d, e) # 0 THEN TargetDifference(x, y, d, e)
  ELSE CompareLabels(d, e)

(* The value where the first place of f that is not 0 is, or 0.            *)
FirstDifference(f) ==
  LET different == {i \in DOMAIN f : f[i] # 0}
  IN IF different = {} THEN 0 ELSE f[Min(different)]

EntryDifference(x, y, i) ==
  LET a == x.repr[i].out_edges
      b == y.repr[i].out_edges
  IN IF Len(a) # Len(b) THEN Difference(Len(a), Len(b))
     ELSE FirstDifference([j \in 1 .. Len(a) |-> EdgeDifference(x, y, a[j], b[j])])
Compare(x, y) == FirstDifference([i \in Indices |-> EntryDifference(x, y, i)])

-----------------------------------------------------------------------------
(* canon_state                                                             *)

Init ==
  /\ graph \in Graphs
  /\ canon_leaf = Nobody
  /\ canon_view = Nobody
  /\ extra_view = Nobody
  /\ reported = {}
  /\ since = {}
  /\ found = {}
  /\ prunes = 0

(* The views of the candidate and of the new leaf, made or repermuted.     *)
ViewOfCandidate ==
  IF canon_view = Nobody THEN View(canon_leaf)
  ELSE IF canon_view.leaf # canon_leaf THEN Repermute(canon_view, canon_leaf)
  ELSE canon_view
ViewOfNew(p) == IF extra_view = Nobody THEN View(p) ELSE Repermute(extra_view, p)

(* explicit_automorphism                                                   *)
ExplicitAutomorphism(p) == [v \in Indices |-> p[InverseOf(canon_leaf)[v]]]

FirstLeaf(p) ==
  /\ canon_leaf = Nobody
  /\ canon_leaf' = p
  /\ UNCHANGED <<canon_view, extra_view, found>>

NextLeaf(p) ==
  /\ canon_leaf # Nobody
  /\ LET canon == ViewOfCandidate
         extra == ViewOfNew(p)
         cmp == Compare(extra, canon)
     IN /\ canon_leaf' = IF cmp < 0 THEN p ELSE canon_leaf
        /\ canon_view' = IF cmp < 0 THEN extra ELSE canon
        /\ extra_view' = IF cmp < 0 THEN canon ELSE extra
        /\ found' = IF cmp = 0 THEN found \cup {ExplicitAutomorphism(p)} ELSE found

(* report_leaf, which must not have been called with this leaf before      *)
ReportLeaf(p) ==
  /\ FirstLeaf(p) \/ NextLeaf(p)
  /\ reported' = reported \cup {p}
  /\ since' = since \cup {p}
  /\ UNCHANGED <<graph, prunes>>

(* prune_canon_leaf, after which at least one leaf will be reported        *)
PruneCanonLeaf ==
  /\ canon_leaf # Nobody
  /\ prunes < MaxPrunes
  /\ reported # Leaves
  /\ canon_leaf' = Nobody
  /\ since' = {}
  /\ prunes' = prunes + 1
  /\ UNCHANGED <<graph, canon_view, extra_view, reported, found>>

Stop == reported = Leaves /\ UNCHANGED vars

Next == (\E p \in Leaves \ reported : ReportLeaf(p)) \/ PruneCanonLeaf \/ Stop

Spec == Init /\ [][Next]_vars
-----------------------------------------------------------------------------
(* A permutation that keeps labels, and the number of edges with each label*)
(* between any two vertices.                                               *)
Labels == {e.label : e \in UNION {Range(graph[u].out_edges) : u \in Indices}}
EdgesBetween(u, v, l) ==
  {i \in DOMAIN graph[u].out_edges : graph[u].out_edges[i] = [to |-> v, label |-> l]}
IsAutomorphism(p) ==
  /\ p \in Orders
  /\ \A u, v \in Indices :
       /\ graph[u].label = graph[p[u]].label
       /\ \A l \in Labels :
            Cardinality(EdgesBetween(u, v, l)) = Cardinality(EdgesBetween(p[u], p[v], l))

(* The graph in the order of a leaf, as the user of the permutation sees   *)
(* it, and the comparisons with the predicates for these labels.           *)
LabelEqual(a, b) == a = b
LabelLess(a, b) == a < b
EdgeLabelEqual(d, e) == d.label = e.label
EdgeLabelLess(d, e) == d.label < e.label
Users == INSTANCE OrderedGraph WITH
  VertexEqual <- LabelEqual, VertexLess <- LabelLess,
  EdgeEqual <- EdgeLabelEqual, EdgeLess <- EdgeLabelLess

InOrder(p) == Users!Ordered(graph, InverseOf(p))
MapOf(p, q) == [v \in Indices |-> q[InverseOf(p)[v]]]

(* The views are always what a new view of their leaf would be, however    *)
(* often they were permuted and swapped, and they are of different leaves. *)
ViewsAreCurrent ==
  /\ \A v \in {canon_view, extra_view} \ {Nobody} : v = View(v.leaf)
  /\ canon_view = Nobody <=> extra_view = Nobody
  /\ canon_view # Nobody => canon_view.leaf # extra_view.leaf

(* What is given to the pruners as an automorphism is one.                 *)
AutomorphismsAreReal == \A p \in found : IsAutomorphism(p)

(* What canonicalizer promises of the permutation it returns, the inverse  *)
(* of the candidate.  The graph in that order is not greater than in the   *)
(* order of another leaf reported since a candidate was last pruned, and   *)
(* equal to it exactly if the visitors were told of the automorphism that  *)
(* maps one leaf to the other; and it is equal to the graph in any order   *)
(* exactly if the orders differ by an automorphism.  Two ways to sort and  *)
(* to compare must agree for that, in whatever order leaves come: the      *)
(* views of the search and the ordered graphs of the user.                 *)
CanonicalOrder ==
  canon_leaf # Nobody =>
    LET canon == InOrder(canon_leaf)
    IN /\ canon_leaf \in since
       /\ \A p \in since :
            /\ ~Users!OrderedGraphLess(InOrder(p), canon)
            /\ Users!OrderedGraphEqual(InOrder(p), canon) <=>
                 p = canon_leaf \/ MapOf(canon_leaf, p) \in found
       /\ \A p \in Orders :
            Users!OrderedGraphEqual(InOrder(p), canon) <=> IsAutomorphism(MapOf(canon_leaf, p))
=============================================================================
