---------------------------- MODULE OrderedGraph ----------------------------
(***************************************************************************)
(* ordered_graph and the comparison of two of them: what a user does with  *)
(* the permutation that canonicalizer returns.  A graph gives each vertex  *)
(* a label and its edges in some order; an index map gives each vertex its *)
(* place.  The ordered graph lists the vertices by their index, each with  *)
(* its edges sorted by the index of the vertex they lead to, and parallel  *)
(* edges by a predicate of the user.                                       *)
(*                                                                         *)
(* The four predicates of the user that the functions take are constants.  *)
(***************************************************************************)
EXTENDS SortedList, FiniteSetsExt

CONSTANTS
  VertexEqual(_, _), VertexLess(_, _),  \* on labels of vertices
  EdgeEqual(_, _), EdgeLess(_, _)       \* on edges

VertexAt(idx, i) == CHOOSE v \in DOMAIN idx : idx[v] = i

OutEdgeLess(idx, d, e) ==
  \/ idx[d.to] < idx[e.to]
  \/ idx[d.to] = idx[e.to] /\ EdgeLess(d, e)

SortedOutEdges(idx, s) ==
  Arranged(s, {k \in (1 .. Len(s)) \X (1 .. Len(s)) : OutEdgeLess(idx, s[k[1]], s[k[2]])})

Ordered(g, idx) ==
  [idx |-> idx,
   data |-> [i \in 1 .. Cardinality(DOMAIN g) |->
               LET v == VertexAt(idx, i - 1)
               IN [v |-> v, label |-> g[v].label,
                   out_edges |-> SortedOutEdges(idx, g[v].out_edges)]]]

(* The edges of two vertices with the same index, one by one: whether they *)
(* lead to different indices, or the user tells them apart.                *)
Places(L, R, i) == 1 .. Len(L.data[i].out_edges) \cap 1 .. Len(R.data[i].out_edges)
VerticesDiffer(L, R, i, j) == L.data[i].out_edges[j].to # R.data[i].out_edges[j].to
TargetsDiffer(L, R, i, j) ==
  L.idx[L.data[i].out_edges[j].to] # R.idx[R.data[i].out_edges[j].to]
EdgesDiffer(L, R, i, j) ==
  ~EdgeEqual(L.data[i].out_edges[j], R.data[i].out_edges[j])

VertexDiffers(L, R, i) == ~VertexEqual(L.data[i].label, R.data[i].label)
DegreeDiffers(L, R, i) == Len(L.data[i].out_edges) # Len(R.data[i].out_edges)
EntryDiffers(L, R, i) ==
  \/ VertexDiffers(L, R, i)
  \/ DegreeDiffers(L, R, i)
  \/ \E j \in Places(L, R, i) : TargetsDiffer(L, R, i, j) \/ EdgesDiffer(L, R, i, j)

(* The callback of the visitor at the first difference, the position of    *)
(* the vertex and of the edge; "equal" when there is none.                 *)
OrderedGraphReason(L, R) ==
  LET different == {i \in 1 .. Len(L.data) : EntryDiffers(L, R, i)}
      i == Min(different)
      j == Min({k \in Places(L, R, i) : TargetsDiffer(L, R, i, k)
                                           \/ EdgesDiffer(L, R, i, k)})
  IN CASE Len(L.data) # Len(R.data) -> [at |-> "num_vertices"]
       [] Len(L.data) = Len(R.data) /\ different = {} -> [at |-> "equal"]
       [] OTHER -> IF VertexDiffers(L, R, i) THEN [at |-> "vertex_compare", i |-> i]
                   ELSE IF DegreeDiffers(L, R, i) THEN [at |-> "out_degree", i |-> i]
                   ELSE IF TargetsDiffer(L, R, i, j) THEN [at |-> "out_edge", i |-> i, j |-> j]
                   ELSE [at |-> "edge_compare", i |-> i, j |-> j]

OrderedGraphEqual(L, R) ==
  OrderedGraphReason(L, R).at = "equal"

(* The first difference decides.                                           *)
OrderedGraphLess(L, R) ==
  LET r == OrderedGraphReason(L, R)
      left == L.data[r.i]
      right == R.data[r.i]
  IN CASE r.at = "equal" -> FALSE
       [] r.at = "num_vertices" -> Len(L.data) < Len(R.data)
       [] r.at = "vertex_compare" -> VertexLess(left.label, right.label)
       [] r.at = "out_degree" -> Len(left.out_edges) < Len(right.out_edges)
       [] r.at = "out_edge" -> L.idx[left.out_edges[r.j].to] < R.idx[right.out_edges[r.j].to]
       [] r.at = "edge_compare" -> EdgeLess(left.out_edges[r.j], right.out_edges[r.j])
=============================================================================
