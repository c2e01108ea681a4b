------------------------------ MODULE MCGraphs ------------------------------
(***************************************************************************)
(* Small graphs for the model checker, with the cells a refinement of the  *)
(* root starts from: by a label of the user, then by degree.               *)
(***************************************************************************)
EXTENDS Integers, Sequences, FiniteSets, FiniteSetsExt

CONSTANT Size, Kind  \* how many vertices, and which family of graphs

Verts == 0 .. Size - 1
Pairs == {e \in Verts \X Verts : e[1] < e[2]}

(* times[e] edges between the two vertices of e, found in ascending order  *)
Times(k, x) == [i \in 1 .. k |-> x]
Ends(times, v) ==
  LET to[u \in 0 .. Size] ==
        IF u = 0 THEN <<>>
        ELSE to[u - 1] \o Times(IF v < u - 1 THEN times[<<v, u - 1>>]
                                ELSE IF u - 1 < v THEN times[<<u - 1, v>>] ELSE 0, u - 1)
  IN to[Size]
GraphOf(times) == [v \in Verts |-> Ends(times, v)]

(* The cells of vertices with the same rank, in the order of ranks.        *)
CellsBy(rank) ==
  LET At(v) == Cardinality({u \in Verts : rank[u] < rank[v]})
  IN [c \in {At(v) : v \in Verts} |-> {v \in Verts : At(v) = c}]
Input(g, label, parallel, loops) ==
  [graph |-> g, cells |-> CellsBy([v \in Verts |-> label[v] * 100 + Len(g[v])]),
   ParallelEdges |-> parallel, Loops |-> loops]

(* Four of the vertices, when the others are singletons without edges.     *)
Four == {e \in Pairs : e[2] < 4}
OnFour(S) == {[e \in Pairs |-> IF e \in Four THEN t[e] ELSE 0] : t \in [Four -> S]}
FourSame == [v \in Verts |-> IF v < 4 THEN 0 ELSE v]
FourApart == [FourSame EXCEPT ![0] = 8]

Same == [v \in Verts |-> 0]
FirstApart == [v \in Verts |-> IF v = 0 THEN 1 ELSE 0]

(* Eight vertices in pairs with k edges, and rings in which pairs with two *)
(* edges and with one alternate, each numbered in some ways.               *)
Partner == {<<1, 0, 3, 2, 5, 4, 7, 6>>, <<4, 5, 6, 7, 0, 1, 2, 3>>, <<7, 2, 1, 4, 3, 6, 5, 0>>}
Matching(p, k) == [v \in Verts |-> Times(k, p[v + 1])]
Ring(p, q) == [v \in Verts |-> Times(2, p[v + 1]) \o Times(1, q[v + 1])]

(* A ring of eight with its diagonals, in which every other vertex has a   *)
(* label: each vertex has neighbours in both cells.                        *)
Ladder == [v \in Verts |-> <<(v + 1) % 8, (v + 4) % 8, (v + 7) % 8>>]
EveryOther == [v \in Verts |-> v % 2]

(* Six vertices: all forests of some paths in which they are joined one    *)
(* after the other, rings of three or six, and a triangle with two tails.  *)
Linked(S) == [e \in Pairs |-> IF e \in S THEN 1 ELSE 0]
Line == {<<0, 4>>, <<4, 5>>, <<1, 5>>, <<1, 3>>, <<2, 3>>}
Six == {Linked(S) : S \in SUBSET Line}
         \cup {Linked(Line \cup {<<0, 2>>}),
               Linked({<<0, 1>>, <<0, 2>>, <<1, 2>>, <<3, 4>>, <<3, 5>>, <<4, 5>>}),
               Linked({<<0, 1>>, <<0, 2>>, <<0, 3>>, <<1, 3>>, <<3, 4>>, <<2, 5>>})}

(* Nine vertices: 0, 1 and 2 look alike so far, one of them with a loop;   *)
(* 3 to 7 have one edge, and 8 all that are left over.                     *)
WithLoop ==
  [v \in Verts |-> CASE v = 0 -> <<0, 0>> [] v = 1 -> <<3, 8>> [] v = 2 -> <<4, 8>>
                      [] v = 3 -> <<1>> [] v = 4 -> <<2>> [] v \in 5 .. 7 -> <<8>>
                      [] v = 8 -> <<1, 2, 5, 6, 7>>]
LoopLabel == [v \in Verts |-> IF v < 3 THEN 0 ELSE 1]

Graphs4 ==
  {Input(GraphOf(t), l, FALSE, FALSE) : t \in OnFour(0 .. 1), l \in {FourSame, FourApart}}
    \cup {Input(GraphOf(t), FourSame, TRUE, FALSE) :
            t \in {s \in OnFour(0 .. 2) : \E e \in Pairs : s[e] = 2}}
Graphs8 ==
  {Input(Ladder, EveryOther, TRUE, FALSE)}
    \cup {Input(Matching(p, k), FirstApart, TRUE, FALSE) : p \in Partner, k \in 1 .. 2}
    \cup {Input(Ring(r[1], r[2]), Same, TRUE, FALSE) :
            r \in {s \in Partner \X Partner : s[1] # s[2]}}

GraphInputs ==
  CASE Kind = "eight" -> Graphs4 \cup Graphs8
    [] Kind = "six" -> {Input(GraphOf(t), Same, FALSE, FALSE) : t \in Six}
    [] Kind = "loop" -> {Input(WithLoop, LoopLabel, TRUE, TRUE)}
=============================================================================
