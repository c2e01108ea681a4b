------------------------- MODULE MCNodeConstruction -------------------------
(***************************************************************************)
(* Graphs with eight vertices, of which those without edges have labels of *)
(* their own, so that they are singletons and what is left is small.       *)
(***************************************************************************)
EXTENDS NodeConstruction, MCGraphs

(* the edges of S, and those of D twice                                    *)
Drawn(S, D) == GraphOf([e \in Pairs |-> IF e \in D THEN 2 ELSE IF e \in S THEN 1 ELSE 0])
IsolatedApart(g) == [v \in Verts |-> IF g[v] = <<>> THEN v + 1 ELSE 0]
Plain(S) ==
  LET g == Drawn(S, {}) IN Input(g, IsolatedApart(g), FALSE, FALSE)

Path6 == {<<0, 4>>, <<4, 5>>, <<1, 5>>, <<1, 3>>, <<2, 3>>}
TwoPaths == {<<0, 2>>, <<2, 4>>, <<1, 3>>, <<3, 5>>}
Star == {<<1, 0>>, <<0, 2>>, <<0, 3>>, <<0, 4>>}
Rightward(S) == {<<e[2], e[1]>> : e \in {d \in S : d[2] < d[1]}} \cup {e \in S : e[1] < e[2]}
TwoStars == {<<0, 1>>, <<0, 2>>, <<1, 3>>, <<0, 4>>, <<1, 5>>}
ThreeStars == {<<0, 1>>, <<1, 2>>, <<0, 2>>, <<0, 3>>, <<1, 4>>, <<2, 5>>, <<0, 6>>, <<1, 7>>}
Ring6 == {<<0, 1>>, <<1, 2>>, <<2, 3>>, <<3, 4>>, <<4, 5>>, <<0, 5>>}
Triangles == {<<0, 1>>, <<0, 2>>, <<1, 2>>, <<3, 4>>, <<3, 5>>, <<4, 5>>}
Matched == {<<0, 3>>, <<1, 4>>, <<2, 5>>}
Squares == {<<0, 1>>, <<1, 2>>, <<2, 3>>, <<0, 3>>, <<4, 5>>, <<5, 6>>, <<6, 7>>, <<4, 7>>}

(* Three vertices with two edges each to two others, in two ways, beside   *)
(* three that have none.                                                   *)
Mixed == Drawn({<<1, 3>>, <<1, 4>>}, {<<0, 3>>, <<2, 4>>})
MixedLabel == [v \in Verts |-> IF v < 3 THEN 1 ELSE IF v < 5 THEN 2 ELSE 0]

(* Four vertices joined to all, and four that are not joined.              *)
AllButFour == Drawn({e \in Pairs : e[1] < 4}, {})
JoinedFirst == [v \in Verts |-> IF v < 4 THEN 0 ELSE 1]

NodeInputs ==
  CASE Kind = "node" ->
         {Plain(Rightward(S)) : S \in {Path6, TwoPaths, Star, TwoStars, ThreeStars, Ring6,
                                       Triangles, Triangles \cup Matched, Matched, Squares}}
           \cup {Input(Mixed, MixedLabel, TRUE, FALSE)}
    [] Kind = "joined" -> {Input(AllButFour, JoinedFirst, FALSE, FALSE)}

NodeRefiners ==
  {<<"WL_1">>, <<"WL_1", "degree_1">>, <<"degree_1", "WL_1">>, <<"custom", "WL_1">>}
=============================================================================
