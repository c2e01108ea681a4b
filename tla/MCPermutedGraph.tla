-------------------------- MODULE MCPermutedGraph --------------------------
(***************************************************************************)
(* Graphs with four vertices, with edges that have labels, parallel edges  *)
(* and loops, given by lists of edges, and with some labels of vertices.   *)
(***************************************************************************)
EXTENDS PermutedGraph, SequencesExt

(* a loop is found twice at its vertex                                     *)
Incidences(v, e) ==
  (IF e[1] = v THEN <<[to |-> e[2], label |-> e[3]]>> ELSE <<>>)
    \o (IF e[2] = v THEN <<[to |-> e[1], label |-> e[3]]>> ELSE <<>>)
GraphOf(label, edges) ==
  [v \in 0 .. 3 |-> [label |-> label[v],
                     out_edges |-> FlattenSeq([i \in 1 .. Len(edges) |-> Incidences(v, edges[i])])]]

Alike == [v \in 0 .. 3 |-> 0]
OneApart == [v \in 0 .. 3 |-> IF v = 3 THEN 0 ELSE 1]
TwoApart == [v \in 0 .. 3 |-> v \div 2]

Path == <<<<0, 1, 0>>, <<2, 1, 0>>, <<2, 3, 0>>>>

(* Two cells of two vertices, or one of three, are left to the search, by  *)
(* labels or by degrees, and some of their vertices are not equivalent.    *)
MCGraphs ==
  {GraphOf(Alike, Path),
   GraphOf(Alike, <<<<3, 2, 0>>, <<0, 1, 1>>, <<1, 2, 0>>, <<2, 1, 1>>>>),
   GraphOf(Alike, <<<<0, 1, 0>>, <<1, 2, 1>>, <<0, 2, 0>>>>),
   GraphOf(Alike, <<<<0, 1, 1>>, <<2, 2, 0>>, <<0, 1, 0>>>>),
   GraphOf(OneApart, <<<<0, 1, 0>>, <<2, 3, 0>>>>),
   GraphOf(OneApart, <<<<0, 1, 1>>, <<0, 1, 0>>, <<2, 3, 0>>, <<3, 2, 1>>>>),
   GraphOf(OneApart, <<<<0, 1, 1>>, <<1, 2, 1>>, <<2, 0, 1>>, <<3, 3, 0>>>>),
   GraphOf(TwoApart, <<<<0, 2, 1>>, <<1, 2, 0>>, <<1, 3, 1>>, <<0, 3, 0>>>>),
   GraphOf(TwoApart, <<<<1, 3, 0>>, <<2, 0, 0>>, <<0, 1, 1>>, <<2, 3, 0>>>>)}

JustPath == {GraphOf(Alike, Path)}
=============================================================================
