------------------------------ MODULE MCTrees ------------------------------
(***************************************************************************)
(* Small search trees for the model checker, each with a group of          *)
(* automorphisms that preserves what can be seen of it.                    *)
(***************************************************************************)
EXTENDS Integers, Sequences, FiniteSets

CONSTANT Shape  \* which family of trees a run takes

Im(p, t) == [i \in 1 .. Len(t) |-> p[t[i]]]
Smallest(S) == CHOOSE x \in S : \A y \in S : x <= y

(* Rankings of the leaves, as if there was no symmetry: against the order  *)
(* of the traversal, or neither with nor against it.                       *)
Digits(t) == CASE Len(t) = 0 -> 0
               [] Len(t) = 1 -> t[1] + 1
               [] Len(t) = 2 -> 10 * t[1] + t[2] + 11
               [] Len(t) = 3 -> 100 * t[1] + 10 * t[2] + t[3] + 111
Backwards(t) == 999 - Digits(t)
Mixed(t) == (Digits(t) * 7) % 1000
Zigzag(t) == (Digits(t) * 7) % 50

ChildrenIn(N, t) == {c \in N : c # <<>> /\ SubSeq(c, 1, Len(c) - 1) = t}

(* the nodes whose cells may have one or two elements: they, and all below,*)
(* have two children that can be exchanged                                 *)
IsPair(N, G, t) ==
  /\ Cardinality(ChildrenIn(N, t)) = 2
  /\ \A c, d \in ChildrenIn(N, t) : \E p \in G : Im(p, t) = t /\ Im(p, c) = d
Pairwise(N, G) ==
  {t \in N : /\ ChildrenIn(N, t) # {}
             /\ \A s \in N : Len(s) >= Len(t) /\ SubSeq(s, 1, Len(t)) = t =>
                              ChildrenIn(N, s) = {} \/ IsPair(N, G, s)}

(* nodes N, the group G, what each node emits, and a ranking               *)
Tree(N, G, e, r(_)) ==
  [nodes |-> N,
   auts |-> G,
   children |-> [t \in N |-> ChildrenIn(N, t)],
   elems |-> e,
   fits |-> Pairwise(N, G),
   pruners |-> IF Cardinality(G) = 1 THEN {"basic"} ELSE {"basic", "schreier"},
   limits |-> CASE Cardinality(G) = 1 -> IF <<0>> \in N /\ Len(e[<<0>>]) = 1 THEN {2} ELSE {100}
               [] Cardinality(G) = 2 -> {1, 100}
               [] Cardinality(G) > 2 -> {4, 100},
   cert |-> [t \in N |-> Smallest({r(Im(p, t)) : p \in G})]]

RootElems == <<<<0, 0>>, <<1, 1>>>>
Nodes(N, l) == {t \in N : Len(t) = l}

(* the functions from S to E that look the same under a group              *)
Invariant(G, S, E) == {f \in [S -> E] : \A p \in G, t \in S : f[Im(p, t)] = f[t]}

(* the trees whose nodes emit members of E[level]                          *)
TreesOf(N, G, E1, E2, E3, r(_)) ==
  {Tree(N, G, [t \in N |-> CASE Len(t) = 0 -> RootElems
                             [] Len(t) = 1 -> e1[t]
                             [] Len(t) = 2 -> e2[t]
                             [] Len(t) = 3 -> e3[t]], r) :
      e1 \in Invariant(G, Nodes(N, 1), E1),
      e2 \in Invariant(G, Nodes(N, 2), E2),
      e3 \in Invariant(G, Nodes(N, 3), E3)}

(* permutations of 0 .. n - 1, from cycles                                 *)
Id(n) == [i \in 0 .. n - 1 |-> i]
Swap(n, a, b) == [Id(n) EXCEPT ![a] = b, ![b] = a]
Turn(n, a, b, c) == [Id(n) EXCEPT ![a] = b, ![b] = c, ![c] = a]
After(p, q) == [i \in DOMAIN q |-> p[q[i]]]

-----------------------------------------------------------------------------
(* a root with two children, each with two leaves                          *)
Two == {<<>>} \cup {<<v>> : v \in 0 .. 1} \cup {<<v, w>> : v \in 0 .. 1, w \in 2 .. 3}
TwoGroups ==
  LET a == Swap(4, 0, 1)  b == Swap(4, 2, 3)
  IN {{Id(4)}, {Id(4), a}, {Id(4), b}, {Id(4), After(a, b)}, {Id(4), a, b, After(a, b)}}

Long == {<<<<0, 1>>>>, <<<<0, 0>>, <<0, 1>>>>, <<<<0, 0>>, <<1, 1>>>>, <<<<1, 0>>, <<0, 1>>>>}
Short == {<<>>, <<<<0, 1>>>>, <<<<1, 0>>>>}

(* three vertices that may be alike: a root with three children, each with *)
(* two leaves                                                              *)
Triangle == {<<>>} \cup {<<v>> : v \in 0 .. 2}
              \cup ({<<v, w>> : v \in 0 .. 2, w \in 0 .. 2} \ {<<v, v>> : v \in 0 .. 2})
TriangleGroups ==
  LET a == Turn(3, 0, 1, 2)
      swaps == {Swap(3, 0, 1), Swap(3, 0, 2), Swap(3, 1, 2)}
  IN {{Id(3), a, After(a, a)}, {Id(3), a, After(a, a)} \cup swaps}
       \cup {{Id(3), s} : s \in swaps}

One == {<<<<0, 0>>>>, <<<<0, 1>>>>}

(* three vertices that are alike, each related to one of three others: the *)
(* leaf for that one is not like the other two                             *)
Related(v) == CASE v = 0 -> 4 [] v = 1 -> 3 [] v = 2 -> 5
Matching == {<<>>} \cup {<<v>> : v \in 0 .. 2} \cup {<<v, w>> : v \in 0 .. 2, w \in 3 .. 5}
MatchingGroup ==
  LET a == After(Swap(6, 0, 1), Swap(6, 4, 3))  b == After(Swap(6, 0, 2), Swap(6, 4, 5))
  IN {Id(6), a, b, After(a, After(b, a)), After(a, b), After(b, a)}
RelatedLast(t) == IF Len(t) = 2 /\ t[2] = Related(t[1]) THEN 2 ELSE 1
RelatedFirst(t) == IF Len(t) = 2 /\ t[2] = Related(t[1]) THEN 0 ELSE 1

(* three pairs that may be exchanged, and three levels                     *)
Pairs == {<<>>} \cup {<<u>> : u \in 0 .. 1} \cup {<<u, v>> : u \in 0 .. 1, v \in 2 .. 3}
           \cup {<<u, v, w>> : u \in 0 .. 1, v \in 2 .. 3, w \in 4 .. 5}
PairGroups ==
  LET a == Swap(6, 0, 1)  b == Swap(6, 2, 3)  c == Swap(6, 4, 5)
      ab == After(a, b)   bc == After(b, c)   ac == After(a, c)   abc == After(a, bc)
  IN {{Id(6), a, b, ab}, {Id(6), a, c, ac}, {Id(6), b, c, bc}, {Id(6), ab, c, abc},
      {Id(6), ab, bc, ac}, {Id(6), a, b, c, ab, bc, ac, abc}}

(* leaves on two levels, three providers of which the second keeps levels  *)
(* apart                                                                   *)
Deep == {<<>>, <<0>>, <<1>>, <<0, 2>>, <<0, 3>>, <<1, 2>>, <<1, 3>>,
         <<0, 2, 4>>, <<0, 3, 4>>, <<1, 2, 4>>, <<1, 2, 5>>}
DeepTrees ==
  {Tree(Deep, {Id(6)},
        [t \in Deep |-> CASE t = <<>> -> RootElems
                          [] Len(t) = 1 -> e1[t]
                          [] t = <<1, 3>> -> <<<<1, 0>>, <<2, 1>>>>
                          [] Len(t) = 2 /\ t # <<1, 3>> -> e2[t]
                          [] Len(t) = 3 -> e3[t[3]]],
        Mixed) :
     e1 \in [{<<0>>, <<1>>} -> {<<<<0, 0>>>>, <<<<0, 0>>, <<2, 0>>>>}],
     e2 \in [{<<0, 2>>, <<0, 3>>, <<1, 2>>} ->
               {<<<<0, 1>>, <<1, 0>>>>, <<<<0, 1>>, <<1, 1>>>>}],
     e3 \in [{4, 5} -> {<<>>, <<<<2, 0>>, <<2, 1>>>>}]}

(* nothing to individualise: refinement alone leaves single vertices       *)
Alone == Tree({<<>>}, {Id(1)}, [t \in {<<>>} |-> RootElems], Mixed)

(* One automorphism that is found twice, far below the root.  There are    *)
(* four branches; in each a spine goes down to level 6, next to children   *)
(* that are worse, and then to three children: 20 has three, 21 and 22 are *)
(* alike.  An exchange turns the first and the last child of 20 into each  *)
(* other, together with 21 and 22.  It is found when the candidate is below*)
(* 21.  That 20 hears of it takes an update of the whole spine, and updates*)
(* end above it when the latest generators exchange branches, as those fix *)
(* no node but the root.                                                   *)
Spine == <<1, 2, 3, 4, 5, 6>>
Worse == {SubSeq(Spine, 1, l) \o <<60 + l>> : l \in 1 .. 6}
           \cup {Spine \o <<21, 35>>, Spine \o <<22, 36>>}
Deepest ==
  {Spine \o <<20, 30, v>> : v \in 40 .. 42} \cup {Spine \o <<20, 31, v>> : v \in 43 .. 44}
    \cup {Spine \o <<20, 32, v>> : v \in 45 .. 47}
    \cup {Spine \o <<21, 33, v>> : v \in 50 .. 51} \cup {Spine \o <<22, 34, v>> : v \in 52 .. 53}
Exchanged(P, v) ==
  LET other == {w \in UNION P : {v, w} \in P} IN IF other = {} THEN v ELSE Smallest(other)
Exchange == {{21, 22}, {30, 32}, {33, 34}, {35, 36}, {40, 46}, {41, 45}, {42, 47}, {50, 52}, {51, 53}}

(* The vertices are numbered in another order in each branch, which is the *)
(* order in which they are individualised.                                 *)
Order(b) == (IF b = 0 THEN {} ELSE {{30, 31}, {40, 41}})
              \cup (IF b < 2 THEN {} ELSE {{50, 51}, {52, 53}})
Vertex(b, v) == 100 * b + Exchanged(Order(b), v)
Late == UNION {{[i \in 1 .. l |-> Vertex(b, t[i])] : l \in 0 .. Len(t)} :
                 b \in 0 .. 3, t \in Worse \cup Deepest}
LateVertices == {t[Len(t)] : t \in Late \ {<<>>}}

(* The branches can be exchanged in pairs.                                 *)
OtherBranch(b, c) == 2 * ((b \div 2 + c \div 2) % 2) + ((b + c) % 2)
LateGroup ==
  {[v \in LateVertices |->
      LET b == v \div 100  w == Exchanged(Order(b), v % 100)
      IN Vertex(OtherBranch(b, c), Exchanged(P, w))] : c \in 0 .. 3, P \in {{}, Exchange}}
LateElems(t) ==
  IF t = <<>> THEN RootElems
  ELSE IF t[Len(t)] % 100 \in (61 .. 66) \cup {35, 36} THEN <<<<0, 1>>>> ELSE <<<<0, 0>>>>

(* The leaves of the first branch, the best one first.                     *)
BestFirst == <<42, 44, 45, 50, 51, 46, 43>>
LateRank(t) ==
  LET found == {i \in 1 .. Len(BestFirst) : t # <<>> /\ t[Len(t)] = BestFirst[i]}
  IN IF found # {} THEN Smallest(found) ELSE IF t = <<>> THEN 0 ELSE 100 + t[Len(t)]
LateTree ==
  [Tree(Late, LateGroup, [t \in Late |-> LateElems(t)], LateRank)
     EXCEPT !.pruners = {"basic"}, !.limits = {1000}]

TwoLevels == {Alone} \cup UNION {TreesOf(Two, G, Long, Short, {<<>>}, Zigzag) : G \in TwoGroups}
SymmetricTrees ==
  UNION {TreesOf(Triangle, G, One, {<<>>, <<<<0, 1>>>>}, {<<>>}, Mixed) : G \in TriangleGroups}
    \cup TreesOf(Matching, MatchingGroup, {<<>>}, One, {<<>>}, RelatedLast)
    \cup TreesOf(Matching, MatchingGroup, {<<>>}, One, {<<>>}, RelatedFirst)
    \cup UNION {TreesOf(Pairs, G, {<<>>}, {<<<<0, 1>>>>, <<<<0, 1>>, <<1, 0>>>>},
                        {<<>>, <<<<1, 0>>>>}, Backwards) : G \in PairGroups}

TreesOfShape ==
  CASE Shape = "two" -> TwoLevels
    [] Shape = "sym" -> SymmetricTrees
    [] Shape = "late" -> {LateTree}
    [] Shape = "all" -> TwoLevels \cup DeepTrees \cup SymmetricTrees
=============================================================================
