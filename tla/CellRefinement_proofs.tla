----------------------- MODULE CellRefinement_proofs -----------------------
(***************************************************************************)
(* Refinement ends with the coarsest equitable partition, for every graph. *)
(*                                                                         *)
(* A cell that is not queued is not a refiner any more, or never was, yet  *)
(* no cell may have different numbers of edges to it in the end.  The      *)
(* invariant says why: the cell lies in a union of cells to which all      *)
(* cells are uniform, and of which all other members are queued.  Such a   *)
(* union begins as a refiner that has been worked off, or as a cell of the *)
(* parent; it stays when a cell in it is split, because at most one part   *)
(* is not queued; and when the refiner has been worked off it is taken out *)
(* of the unions that hold it.  Once the queue is empty each union is a    *)
(* single cell.                                                            *)
(*                                                                         *)
(* That nothing is split which an equitable partition leaves together      *)
(* needs a sum over its classes.  Induction over them is replaced by a     *)
(* least class up to which the numbers of edges differ.                    *)
(***************************************************************************)
EXTENDS CellRefinement, FiniteSetTheorems, TLAPS

-----------------------------------------------------------------------------
(* Finite sets of natural numbers, and how they are listed.                *)
Below(S, x) == {y \in S : y < x}

LEMMA BelowGrows ==
  ASSUME NEW S \in SUBSET Nat, IsFiniteSet(S), NEW x \in S, NEW y \in Nat, x < y
  PROVE  /\ Cardinality(Below(S, x)) \in Nat /\ Cardinality(Below(S, y)) \in Nat
         /\ Cardinality(Below(S, x)) < Cardinality(Below(S, y))
<1>0. Below(S, y) \in SUBSET S /\ Below(S, x) \in SUBSET Below(S, y)
  <2>1. x \in Nat /\ \A z \in S : z \in Nat /\ (z < x => z < y)
    OBVIOUS
  <2> QED
    BY <2>1 DEF Below
<1>1. IsFiniteSet(Below(S, y))
  BY <1>0, FS_Subset
<1>2. x \in Below(S, y) /\ x \notin Below(S, x)
  BY DEF Below
<1>3. IsFiniteSet(Below(S, x)) /\ Cardinality(Below(S, x)) <= Cardinality(Below(S, y))
      /\ Cardinality(Below(S, y)) # Cardinality(Below(S, x))
  BY <1>0, <1>1, <1>2, FS_Subset
<1> QED
  BY <1>1, <1>3, FS_CardinalityType

LEMMA SameRank ==
  ASSUME NEW S \in SUBSET Nat, IsFiniteSet(S), NEW x \in S, NEW y \in S,
         Cardinality(Below(S, x)) = Cardinality(Below(S, y))
  PROVE  x = y
<1>1. ~(x < y) /\ ~(y < x)
  BY BelowGrows
<1> QED
  BY <1>1

LEMMA Disjoint ==
  ASSUME NEW A, NEW B, IsFiniteSet(A), IsFiniteSet(B), A \cap B = {}
  PROVE  /\ IsFiniteSet(A \cup B)
         /\ Cardinality(A) \in Nat /\ Cardinality(B) \in Nat
         /\ Cardinality(A \cup B) = Cardinality(A) + Cardinality(B)
<1>1. Cardinality(A \cap B) = 0
  BY FS_EmptySet
<1>2. Cardinality(A) \in Nat /\ Cardinality(B) \in Nat
  BY FS_CardinalityType
<1>3. /\ IsFiniteSet(A \cup B)
      /\ Cardinality(A \cup B) = Cardinality(A) + Cardinality(B) - Cardinality(A \cap B)
  BY FS_Union
<1> QED
  BY <1>1, <1>2, <1>3

(* Each number of elements below has exactly one element.                  *)
LEMMA Ranks ==
  ASSUME NEW S \in SUBSET Nat, IsFiniteSet(S)
  PROVE  \A i \in 1 .. Cardinality(S) : \E x \in S : Cardinality(Below(S, x)) = i - 1
<1> DEFINE m == Cardinality(S)
<1> DEFINE rank == [x \in S |-> Cardinality(Below(S, x)) + 1]
<1>1. m \in Nat
  BY FS_CardinalityType
<1>2. ASSUME NEW x \in S
      PROVE  Cardinality(Below(S, x)) \in Nat /\ Cardinality(Below(S, x)) < m
  <2>1. Below(S, x) \in SUBSET S /\ x \in S /\ x \notin Below(S, x)
    BY DEF Below
  <2>2. IsFiniteSet(Below(S, x)) /\ Cardinality(Below(S, x)) <= m
        /\ Cardinality(Below(S, x)) # m
    BY <2>1, FS_Subset
  <2> QED
    BY <2>2, <1>1, FS_CardinalityType
<1>3. rank \in [S -> 1 .. m]
  BY <1>1, <1>2
<1>4. ASSUME NEW x \in S, NEW y \in S, rank[x] = rank[y] PROVE x = y
  <2>1. Cardinality(Below(S, x)) = Cardinality(Below(S, y))
    BY <1>2, <1>4
  <2> QED
    BY <2>1, SameRank
<1>5. rank \in Injection(S, 1 .. m)
  BY <1>3, <1>4 DEF Injection, IsInjective
<1>6. IsFiniteSet(1 .. m) /\ Cardinality(1 .. m) = m
  BY <1>1, FS_Interval
<1>7. rank \in Surjection(S, 1 .. m)
  BY <1>5, <1>6, FS_Injection
<1>8. ASSUME NEW i \in 1 .. m PROVE \E x \in S : Cardinality(Below(S, x)) = i - 1
  <2>1. PICK x \in S : rank[x] = i
    BY <1>7 DEF Surjection
  <2>2. Cardinality(Below(S, x)) + 1 = i
    BY <2>1
  <2> QED
    BY <2>2, <1>2, <1>1
<1> QED
  BY <1>8

LEMMA LeastElement ==
  ASSUME NEW S \in SUBSET Nat, IsFiniteSet(S), S # {}
  PROVE  \E x \in S : \A y \in S : x <= y
<1>1. Cardinality(S) \in Nat /\ Cardinality(S) # 0
  BY FS_CardinalityType, FS_EmptySet
<1>2. PICK x \in S : Cardinality(Below(S, x)) = 0
  BY <1>1, Ranks
<1>3. Below(S, x) = {}
  BY <1>2, FS_EmptySet, FS_Subset DEF Below
<1> QED
  BY <1>3 DEF Below

LEMMA AscendingLists ==
  ASSUME NEW S \in SUBSET Nat, IsFiniteSet(S)
  PROVE  Ascending(S) \in Seq(S) /\ Range(Ascending(S)) = S
<1> DEFINE m == Cardinality(S)
           a == Ascending(S)
<1>1. m \in Nat
  BY FS_CardinalityType
<1>2. /\ DOMAIN a = 1 .. m
      /\ \A i \in 1 .. m : a[i] = CHOOSE x \in S : Cardinality(Below(S, x)) = i - 1
  BY DEF Ascending, Below
<1>3. \A i \in 1 .. m : a[i] \in S /\ Cardinality(Below(S, a[i])) = i - 1
  BY <1>2, Ranks
<1>4. a \in [1 .. m -> S]
  BY <1>3 DEF Ascending
<1>5. a \in Seq(S)
  BY <1>1, <1>4
<1>6. ASSUME NEW x \in S PROVE x \in Range(a)
  <2>1. Below(S, x) \in SUBSET S /\ x \in S /\ x \notin Below(S, x)
    BY DEF Below
  <2>2. IsFiniteSet(Below(S, x)) /\ Cardinality(Below(S, x)) <= m
        /\ Cardinality(Below(S, x)) # m
    BY <2>1, FS_Subset
  <2>3. Cardinality(Below(S, x)) + 1 \in 1 .. m
    BY <2>2, <1>1, FS_CardinalityType
  <2>4. PICK i \in 1 .. m : i = Cardinality(Below(S, x)) + 1
    BY <2>3
  <2>5. a[i] \in S /\ Cardinality(Below(S, a[i])) = Cardinality(Below(S, x))
    BY <2>4, <2>2, <1>3, FS_CardinalityType
  <2>6. \A y \in S : Cardinality(Below(S, y)) = Cardinality(Below(S, x)) => y = x
    BY SameRank
  <2>7. a[i] = x
    BY <2>5, <2>6
  <2> QED
    BY <2>7, <1>2 DEF Range
<1> QED
  BY <1>2, <1>3, <1>5, <1>6 DEF Range

-----------------------------------------------------------------------------
(* Sequences and their elements.                                           *)
LEMMA HeadAndTail ==
  ASSUME NEW S, NEW s \in Seq(S), s # <<>>
  PROVE  /\ Head(s) \in S /\ Tail(s) \in Seq(S)
         /\ Range(s) = {Head(s)} \cup Range(Tail(s))
<1>1. Len(s) \in Nat \ {0} /\ DOMAIN s = 1 .. Len(s)
  OBVIOUS
<1>2. /\ Head(s) = s[1] /\ s[1] \in S
      /\ Tail(s) \in Seq(S) /\ Len(Tail(s)) = Len(s) - 1
      /\ \A i \in 1 .. Len(s) - 1 : Tail(s)[i] = s[i + 1]
  BY <1>1
<1>3. DOMAIN Tail(s) = 1 .. Len(s) - 1
  BY <1>2
<1>4. ASSUME NEW x \in Range(s) PROVE x \in {Head(s)} \cup Range(Tail(s))
  <2>1. PICK i \in 1 .. Len(s) : s[i] = x
    BY <1>1 DEF Range
  <2>2. CASE i = 1
    BY <2>1, <2>2, <1>2
  <2>3. CASE i # 1
    <3>1. i - 1 \in 1 .. Len(s) - 1 /\ Tail(s)[i - 1] = x
      BY <2>1, <2>3, <1>1, <1>2
    <3> QED
      BY <3>1, <1>3 DEF Range
  <2> QED
    BY <2>2, <2>3
<1>5. ASSUME NEW x \in {Head(s)} \cup Range(Tail(s)) PROVE x \in Range(s)
  <2>1. CASE x = Head(s)
    BY <2>1, <1>1, <1>2 DEF Range
  <2>2. CASE x \in Range(Tail(s))
    <3>1. PICK i \in 1 .. Len(s) - 1 : Tail(s)[i] = x
      BY <2>2, <1>3 DEF Range
    <3>2. i + 1 \in 1 .. Len(s) /\ s[i + 1] = x
      BY <3>1, <1>1, <1>2
    <3> QED
      BY <3>2, <1>1 DEF Range
  <2> QED
    BY <1>5, <2>1, <2>2
<1> QED
  BY <1>2, <1>4, <1>5

LEMMA RangeOfConcat ==
  ASSUME NEW S, NEW s \in Seq(S), NEW t \in Seq(S)
  PROVE  s \o t \in Seq(S) /\ Range(s \o t) = Range(s) \cup Range(t)
<1> DEFINE st == s \o t
<1>1. /\ Len(s) \in Nat /\ Len(t) \in Nat /\ st \in Seq(S)
      /\ DOMAIN s = 1 .. Len(s) /\ DOMAIN t = 1 .. Len(t)
      /\ DOMAIN st = 1 .. Len(s) + Len(t)
      /\ \A i \in 1 .. Len(s) + Len(t) :
           st[i] = IF i <= Len(s) THEN s[i] ELSE t[i - Len(s)]
  OBVIOUS
<1> HIDE DEF st
<1>2. ASSUME NEW x \in Range(st) PROVE x \in Range(s) \cup Range(t)
  <2>1. PICK i \in 1 .. Len(s) + Len(t) : st[i] = x
    BY <1>1 DEF Range
  <2>2. CASE i <= Len(s)
    BY <2>1, <2>2, <1>1 DEF Range
  <2>3. CASE ~(i <= Len(s))
    <3>1. i - Len(s) \in 1 .. Len(t) /\ t[i - Len(s)] = x
      BY <2>1, <2>3, <1>1
    <3> QED
      BY <3>1, <1>1 DEF Range
  <2> QED
    BY <2>2, <2>3
<1>3. ASSUME NEW x \in Range(s) PROVE x \in Range(st)
  <2>1. PICK i \in 1 .. Len(s) : s[i] = x
    BY <1>1 DEF Range
  <2>2. i \in 1 .. Len(s) + Len(t) /\ st[i] = x
    BY <2>1, <1>1
  <2> QED
    BY <2>2, <1>1 DEF Range
<1>4. ASSUME NEW x \in Range(t) PROVE x \in Range(st)
  <2>1. PICK i \in 1 .. Len(t) : t[i] = x
    BY <1>1 DEF Range
  <2>2. i + Len(s) \in 1 .. Len(s) + Len(t) /\ st[i + Len(s)] = x
    BY <2>1, <1>1
  <2> QED
    BY <2>2, <1>1 DEF Range
<1>5. Range(st) = Range(s) \cup Range(t)
  BY <1>2, <1>3, <1>4
<1> QED
  BY <1>1, <1>5 DEF st

-----------------------------------------------------------------------------
(* Counting edges.                                                         *)
Input == input \in Inputs

LEMMA EdgesAreFinite ==
  ASSUME Input, NEW v \in V
  PROVE  IsFiniteSet(DOMAIN input.graph[v])
<1>1. input.graph[v] \in Seq(V)
  BY InputsAssumption DEF Input
<1>2. DOMAIN input.graph[v] = 1 .. Len(input.graph[v]) /\ Len(input.graph[v]) \in Nat
  BY <1>1
<1>3. IsFiniteSet(1 .. Len(input.graph[v]))
  <2>1. 1 \in Int /\ Len(input.graph[v]) \in Int
    BY <1>2
  <2> QED
    BY ONLY <2>1, FS_Interval, Zenon
<1> QED
  BY <1>2, <1>3

LEMMA EdgesToUnion ==
  ASSUME Input, NEW v \in V, NEW A, NEW B, A \cap B = {}
  PROVE  /\ EdgesTo(v, A) \in Nat /\ EdgesTo(v, B) \in Nat
         /\ EdgesTo(v, A \cup B) = EdgesTo(v, A) + EdgesTo(v, B)
<1> DEFINE At(W) == {i \in DOMAIN input.graph[v] : input.graph[v][i] \in W}
<1>1. ASSUME NEW W PROVE IsFiniteSet(At(W)) /\ EdgesTo(v, W) = Cardinality(At(W))
  <2>1. At(W) \in SUBSET DOMAIN input.graph[v]
    OBVIOUS
  <2>2. IsFiniteSet(At(W))
    BY <2>1, EdgesAreFinite, FS_Subset
  <2> QED
    BY <2>2 DEF EdgesTo, EdgesIn
<1>2. At(A \cup B) = At(A) \cup At(B) /\ At(A) \cap At(B) = {}
  OBVIOUS
<1>3. Cardinality(At(A)) \in Nat /\ Cardinality(At(B)) \in Nat
  BY <1>1, FS_CardinalityType
<1> HIDE DEF At
<1>4. Cardinality(At(A) \cup At(B)) = Cardinality(At(A)) + Cardinality(At(B))
  BY <1>1, <1>2, Disjoint
<1>5. Cardinality(At(A \cup B)) = Cardinality(At(A)) + Cardinality(At(B))
  BY <1>2, <1>4, Zenon
<1>6. /\ EdgesTo(v, A \cup B) = Cardinality(At(A \cup B))
      /\ EdgesTo(v, A) = Cardinality(At(A)) /\ EdgesTo(v, B) = Cardinality(At(B))
  BY <1>1
<1> QED
  BY <1>3, <1>5, <1>6

LEMMA EdgesToType ==
  ASSUME Input, NEW v \in V, NEW W
  PROVE  EdgesTo(v, W) \in Nat
BY EdgesToUnion, W \cap {} = {}

(* No edges lead to no vertices, and those to a part are not to the rest.  *)
LEMMA EdgesToNone ==
  ASSUME NEW v
  PROVE  EdgesTo(v, {}) = 0
<1>1. {i \in DOMAIN input.graph[v] : input.graph[v][i] \in {}} = {}
  OBVIOUS
<1> QED
  BY <1>1, FS_EmptySet DEF EdgesTo, EdgesIn

LEMMA EdgesToDifference ==
  ASSUME Input, NEW v \in V, NEW A, NEW B, B \subseteq A
  PROVE  EdgesTo(v, A \ B) = EdgesTo(v, A) - EdgesTo(v, B)
<1>1. (A \ B) \cup B = A /\ (A \ B) \cap B = {}
  OBVIOUS
<1>2. /\ EdgesTo(v, A \ B) \in Nat /\ EdgesTo(v, B) \in Nat
      /\ EdgesTo(v, (A \ B) \cup B) = EdgesTo(v, A \ B) + EdgesTo(v, B)
  BY <1>1, EdgesToUnion
<1>3. EdgesTo(v, (A \ B) \cup B) = EdgesTo(v, A)
  BY <1>1, Zenon
<1> QED
  BY <1>2, <1>3

-----------------------------------------------------------------------------
(* The parts of a cell that is split.                                      *)
Fewer(L, W, v) == {u \in L : EdgesTo(u, W) < EdgesTo(v, W)}

LEMMA CellsAreFinite ==
  /\ IsFiniteSet(V) /\ V \subseteq Nat
  /\ \A S \in SUBSET V : IsFiniteSet(S) /\ Cardinality(S) \in Nat
<1>1. n - 1 \in Int /\ V \subseteq Nat
  BY SizeAssumption DEF V
<1>2. IsFiniteSet(V)
  BY <1>1, FS_Interval DEF V
<1> QED
  BY <1>1, <1>2, FS_Subset, FS_CardinalityType

(* Those with fewer edges, those with as many, and those with more.        *)
LEMMA FewerFacts ==
  ASSUME Input, NEW L \in SUBSET V, NEW W, NEW v \in L
  PROVE  LET same == {u \in L : EdgesTo(u, W) = EdgesTo(v, W)}
             fewer == Cardinality(Fewer(L, W, v))
         IN /\ fewer \in Nat /\ Cardinality(same) \in Nat \ {0}
            /\ fewer + Cardinality(same) <= Cardinality(L)
            /\ \A w \in L : EdgesTo(v, W) < EdgesTo(w, W) =>
                 fewer + Cardinality(same) <= Cardinality(Fewer(L, W, w))
<1> DEFINE same == {u \in L : EdgesTo(u, W) = EdgesTo(v, W)}
           less == Fewer(L, W, v)
<1>0. \A u \in L : EdgesTo(u, W) \in Nat
  BY EdgesToType
<1>1. /\ IsFiniteSet(L) /\ same \in SUBSET L /\ less \in SUBSET L
      /\ IsFiniteSet(same) /\ IsFiniteSet(less)
  BY CellsAreFinite, FS_Subset DEF Fewer
<1>2. same \cap less = {} /\ v \in same
  BY <1>0 DEF Fewer
<1>3. /\ IsFiniteSet(less \cup same)
      /\ Cardinality(less) \in Nat /\ Cardinality(same) \in Nat
      /\ Cardinality(less \cup same) = Cardinality(less) + Cardinality(same)
  <2>1. less \cap same = {}
    BY <1>2
  <2> QED
    BY <1>1, <2>1, Disjoint
<1>4. Cardinality(same) # 0
  BY <1>1, <1>2, FS_EmptySet
<1>5. Cardinality(less \cup same) <= Cardinality(L)
  <2>1. less \cup same \in SUBSET L
    BY <1>1
  <2> QED
    BY <1>1, <2>1, FS_Subset
<1>6. ASSUME NEW w \in L, EdgesTo(v, W) < EdgesTo(w, W)
      PROVE  Cardinality(less \cup same) <= Cardinality(Fewer(L, W, w))
  <2>1. less \cup same \in SUBSET Fewer(L, W, w)
    <3>1. ASSUME NEW u \in L, EdgesTo(u, W) <= EdgesTo(v, W)
          PROVE  EdgesTo(u, W) < EdgesTo(w, W)
      BY <1>0, <1>6, <3>1
    <3>2. \A u \in less \cup same : u \in L /\ EdgesTo(u, W) <= EdgesTo(v, W)
      BY <1>0 DEF Fewer
    <3> QED
      BY <3>1, <3>2 DEF Fewer
  <2>2. IsFiniteSet(Fewer(L, W, w))
    BY <1>1, FS_Subset DEF Fewer
  <2> QED
    BY <2>1, <2>2, FS_Subset
<1> HIDE DEF same, less
<1>7. \A w \in L : EdgesTo(v, W) < EdgesTo(w, W) =>
        Cardinality(less) + Cardinality(same) <= Cardinality(Fewer(L, W, w))
  BY <1>3, <1>6
<1> QED
  BY <1>3, <1>4, <1>5, <1>7 DEF same, less

(* Where the parts are, and what is in them.                               *)
LEMMA PartsFacts ==
  ASSUME Input, NEW C, IsPartition(C), NEW c \in DOMAIN C, NEW W
  PROVE  LET P == Parts(C, c, W)
         IN /\ c \in DOMAIN P
            /\ \A v \in C[c] : \E i \in DOMAIN P : v \in P[i]
            /\ \A i \in DOMAIN P :
                 /\ i \in Nat /\ c <= i /\ P[i] # {} /\ P[i] \subseteq C[c]
                 /\ Cardinality(P[i]) \in Nat \ {0}
                 /\ i + Cardinality(P[i]) <= c + Cardinality(C[c])
                 /\ \A u \in P[i], v \in C[c] :
                      v \in P[i] <=> EdgesTo(u, W) = EdgesTo(v, W)
            /\ \A i, j \in DOMAIN P :
                 i < j => i + Cardinality(P[i]) <= j /\ P[i] \cap P[j] = {}
<1> DEFINE L == C[c]
           at(v) == NewPosition(C, c, W, v)
           P == Parts(C, c, W)
           e(v) == EdgesTo(v, W)
           same(v) == {u \in L : e(u) = e(v)}
           fewer(v) == Cardinality(Fewer(L, W, v))
<1>1. L \in SUBSET V /\ L # {} /\ c \in Nat /\ c \in V
  BY CellsAreFinite DEF IsPartition
<1>2. \A v \in L : e(v) \in Nat /\ at(v) = c + fewer(v)
  BY <1>1, EdgesToType DEF NewPosition, Fewer
<1>3. /\ DOMAIN P = {at(v) : v \in L}
      /\ \A i \in DOMAIN P : P[i] = {v \in L : at(v) = i}
  BY DEF Parts
<1>4. \A v \in L :
        /\ fewer(v) \in Nat /\ Cardinality(same(v)) \in Nat \ {0}
        /\ fewer(v) + Cardinality(same(v)) <= Cardinality(L)
        /\ \A w \in L : e(v) < e(w) =>
             fewer(v) + Cardinality(same(v)) <= fewer(w)
  BY <1>1, FewerFacts
<1>5. Cardinality(L) \in Nat
  BY <1>1, CellsAreFinite
<1>6. \A u, v \in L : e(u) = e(v) => at(u) = at(v)
  BY DEF NewPosition
<1> HIDE DEF L, P, at, e, fewer, same
<1>7. \A u, v \in L : at(u) = at(v) => e(u) = e(v)
  <2>1. SUFFICES ASSUME NEW u \in L, NEW v \in L, at(u) = at(v), e(u) < e(v)
                 PROVE  FALSE
    BY <1>2
  <2> QED
    BY <2>1, <1>1, <1>2, <1>4
<1>8. \A v \in L : at(v) \in DOMAIN P /\ P[at(v)] = same(v) /\ v \in P[at(v)]
  <2>1. SUFFICES ASSUME NEW v \in L
                 PROVE  at(v) \in DOMAIN P /\ P[at(v)] = same(v) /\ v \in P[at(v)]
    OBVIOUS
  <2>2. at(v) \in DOMAIN P /\ P[at(v)] = {u \in L : at(u) = at(v)}
    BY <1>3
  <2>3. \A u \in L : at(u) = at(v) <=> e(u) = e(v)
    BY <1>6, <1>7
  <2>4. P[at(v)] = same(v)
    BY <2>2, <2>3 DEF same
  <2> QED
    BY <2>2, <2>4
<1>9. c \in DOMAIN P
  <2> DEFINE E == {e(v) : v \in L}
  <2>1. E \in SUBSET Nat /\ E # {} /\ IsFiniteSet(E)
    <3>1. IsFiniteSet(L)
      BY <1>1, CellsAreFinite
    <3> DEFINE f == [v \in L |-> e(v)]
    <3>2. f \in Surjection(L, E)
      BY DEF Surjection
    <3> QED
      BY <1>1, <1>2, <3>1, <3>2, FS_Surjection
  <2>2. PICK x \in E : \A y \in E : x <= y
    BY <2>1, LeastElement
  <2>3. PICK v \in L : \A u \in L : e(v) <= e(u)
    BY <2>2
  <2>4. Fewer(L, W, v) = {}
    BY <2>3, <1>2 DEF Fewer, e
  <2>5. fewer(v) = 0
    BY <2>4, FS_EmptySet DEF fewer
  <2> QED
    BY <2>5, <1>1, <1>2, <1>8
<1>10. ASSUME NEW i \in DOMAIN P
       PROVE  /\ i \in Nat /\ c <= i /\ P[i] # {} /\ P[i] \subseteq L
              /\ Cardinality(P[i]) \in Nat \ {0}
              /\ i + Cardinality(P[i]) <= c + Cardinality(L)
              /\ \A u \in P[i], v \in L : v \in P[i] <=> e(u) = e(v)
  <2>1. PICK v \in L : i = at(v)
    BY <1>3
  <2>2. P[i] = same(v) /\ v \in P[i]
    BY <2>1, <1>8
  <2>3. i = c + fewer(v)
    BY <2>1, <1>2
  <2>4. P[i] \subseteq L
    BY <1>3
  <2> QED
    BY <2>2, <2>3, <2>4, <1>1, <1>4, <1>5 DEF same
<1>11. ASSUME NEW i \in DOMAIN P, NEW j \in DOMAIN P, i < j
       PROVE  i + Cardinality(P[i]) <= j /\ P[i] \cap P[j] = {}
  <2>1. PICK v \in L : i = at(v)
    BY <1>3
  <2>2. PICK w \in L : j = at(w)
    BY <1>3
  <2>3. P[i] = same(v) /\ P[j] = same(w)
    BY <2>1, <2>2, <1>8
  <2>4. e(v) < e(w)
    <3>1. ~(e(w) < e(v))
      BY <1>1, <1>2, <1>4, <1>11, <2>1, <2>2
    <3>2. e(w) # e(v)
      BY <1>6, <1>11, <2>1, <2>2, <1>10
    <3> QED
      BY <3>1, <3>2, <1>2
  <2>5. i + Cardinality(P[i]) <= j
    BY <2>1, <2>2, <2>3, <2>4, <1>1, <1>2, <1>4
  <2>6. P[i] \cap P[j] = {}
    BY <2>3, <2>4, <1>2 DEF same
  <2> QED
    BY <2>5, <2>6
<1>12. \A v \in L : \E i \in DOMAIN P : v \in P[i]
  BY <1>8
<1> QED
  BY <1>9, <1>10, <1>11, <1>12 DEF L, P, e

LEMMA PartitionFacts ==
  ASSUME NEW C, IsPartition(C)
  PROVE  /\ DOMAIN C \subseteq Nat /\ DOMAIN C \subseteq V /\ IsFiniteSet(DOMAIN C)
         /\ DOMAIN C # {}
         /\ \A c \in DOMAIN C :
              /\ C[c] \in SUBSET V /\ C[c] # {}
              /\ Cardinality(C[c]) \in Nat \ {0}
         /\ \A c, d \in DOMAIN C : c # d => C[c] \cap C[d] = {}
<1>1. DOMAIN C \subseteq V /\ DOMAIN C \subseteq Nat /\ IsFiniteSet(DOMAIN C)
  BY CellsAreFinite DEF IsPartition
<1>2. DOMAIN C # {}
  BY SizeAssumption DEF IsPartition, V
<1>3. \A c \in DOMAIN C : C[c] \in SUBSET V /\ C[c] # {} /\ IsFiniteSet(C[c])
        /\ Cardinality(C[c]) \in Nat
  BY CellsAreFinite DEF IsPartition
<1>4. \A c \in DOMAIN C : Cardinality(C[c]) # 0
  BY <1>3, FS_EmptySet
<1>5. \A c, d \in DOMAIN C : c # d => C[c] \cap C[d] = {}
  <2>1. SUFFICES ASSUME NEW c \in DOMAIN C, NEW d \in DOMAIN C, c < d
                 PROVE  C[c] \cap C[d] = {}
    BY <1>1
  <2> QED
    BY <2>1 DEF IsPartition
<1> QED
  BY <1>1, <1>2, <1>3, <1>4, <1>5

(* D are the cells after c was split into the parts P by its edges to W.   *)
IsSplit(C, c, W, P, D) ==
  /\ IsPartition(D)
  /\ DOMAIN D = DOMAIN C \cup DOMAIN P
  /\ DOMAIN C \cap DOMAIN P = {c}
  /\ \A i \in DOMAIN P : D[i] = P[i] /\ P[i] \subseteq C[c] /\ Uniform(P[i], W)
  /\ \A i \in DOMAIN C \ {c} : D[i] = C[i]
  /\ \A u, v \in C[c] : EdgesTo(u, W) = EdgesTo(v, W) =>
       \A i \in DOMAIN P : u \in P[i] <=> v \in P[i]

LEMMA SplitFacts ==
  ASSUME Input, NEW C, IsPartition(C), NEW c \in DOMAIN C, NEW W
  PROVE  IsSplit(C, c, W, Parts(C, c, W), AfterSplit(C, c, W))
<1> DEFINE P == Parts(C, c, W)
           D == AfterSplit(C, c, W)
<1>1. /\ c \in DOMAIN P
      /\ \A v \in C[c] : \E i \in DOMAIN P : v \in P[i]
      /\ \A i \in DOMAIN P :
           /\ i \in Nat /\ c <= i /\ P[i] # {} /\ P[i] \subseteq C[c]
           /\ Cardinality(P[i]) \in Nat \ {0}
           /\ i + Cardinality(P[i]) <= c + Cardinality(C[c])
           /\ \A u \in P[i], v \in C[c] : v \in P[i] <=> EdgesTo(u, W) = EdgesTo(v, W)
      /\ \A i, j \in DOMAIN P :
           i < j => i + Cardinality(P[i]) <= j /\ P[i] \cap P[j] = {}
  BY PartsFacts
<1>2. /\ DOMAIN D = DOMAIN C \cup DOMAIN P
      /\ D = [i \in DOMAIN C \cup DOMAIN P |-> IF i \in DOMAIN P THEN P[i] ELSE C[i]]
  BY DEF AfterSplit
<1> HIDE DEF P, D
<1>3. /\ DOMAIN C \subseteq Nat /\ DOMAIN C \subseteq V /\ c \in Nat
      /\ \A d \in DOMAIN C :
           /\ C[d] \in SUBSET V /\ C[d] # {} /\ d + Cardinality(C[d]) <= n
           /\ Cardinality(C[d]) \in Nat \ {0}
      /\ \A d, e \in DOMAIN C :
           d < e => d + Cardinality(C[d]) <= e /\ C[d] \cap C[e] = {}
      /\ \A d, e \in DOMAIN C : d # e => C[d] \cap C[e] = {}
  BY PartitionFacts DEF IsPartition
<1>4. \A i \in DOMAIN P : \A d \in DOMAIN C :
        /\ d < c => d + Cardinality(C[d]) <= i
        /\ c < d => i + Cardinality(P[i]) <= d
        /\ d # c => i # d
  <2>1. SUFFICES ASSUME NEW i \in DOMAIN P, NEW d \in DOMAIN C
                 PROVE  /\ d < c => d + Cardinality(C[d]) <= i
                        /\ c < d => i + Cardinality(P[i]) <= d
                        /\ d # c => i # d
    OBVIOUS
  <2>2. /\ i \in Nat /\ d \in Nat /\ c \in Nat /\ c <= i
        /\ Cardinality(P[i]) \in Nat \ {0} /\ Cardinality(C[d]) \in Nat \ {0}
        /\ Cardinality(C[c]) \in Nat
        /\ i + Cardinality(P[i]) <= c + Cardinality(C[c])
    BY <1>1, <1>3
  <2>3. /\ d < c => d + Cardinality(C[d]) <= c
        /\ c < d => c + Cardinality(C[c]) <= d
    BY <1>3
  <2> QED
    BY <2>2, <2>3
<1>5. DOMAIN C \cap DOMAIN P = {c}
  BY <1>1, <1>4
<1>6. /\ \A i \in DOMAIN P : D[i] = P[i]
      /\ \A i \in DOMAIN C \ {c} : D[i] = C[i]
  BY <1>2, <1>5
<1>7. IsPartition(D)
  <2>1. DOMAIN D \subseteq V
    <3>1. \A i \in DOMAIN P : i \in V
      <4>1. SUFFICES ASSUME NEW i \in DOMAIN P PROVE i \in V
        OBVIOUS
      <4>2. /\ i \in Nat /\ Cardinality(P[i]) \in Nat \ {0} /\ c + Cardinality(C[c]) <= n
            /\ c \in Nat /\ Cardinality(C[c]) \in Nat
            /\ i + Cardinality(P[i]) <= c + Cardinality(C[c])
        BY <1>1, <1>3
      <4> QED
        BY <4>2, SizeAssumption DEF V
    <3> QED
      BY <3>1, <1>2, <1>3
  <2>2. \A i \in DOMAIN D : D[i] \in SUBSET V /\ D[i] # {} /\ i + Cardinality(D[i]) <= n
    <3>1. ASSUME NEW i \in DOMAIN P
          PROVE  D[i] \in SUBSET V /\ D[i] # {} /\ i + Cardinality(D[i]) <= n
      <4>1. /\ i \in Nat /\ Cardinality(P[i]) \in Nat \ {0} /\ c + Cardinality(C[c]) <= n
            /\ c \in Nat /\ Cardinality(C[c]) \in Nat
            /\ i + Cardinality(P[i]) <= c + Cardinality(C[c])
        BY <1>1, <1>3
      <4>2. i + Cardinality(P[i]) <= n
        BY <4>1, SizeAssumption
      <4> QED
        BY <4>2, <1>1, <1>3, <1>6
    <3>2. ASSUME NEW i \in DOMAIN C \ {c}
          PROVE  D[i] \in SUBSET V /\ D[i] # {} /\ i + Cardinality(D[i]) <= n
      BY <1>3, <1>6
    <3> QED
      BY <3>1, <3>2, <1>1, <1>2
  <2>3. D \in [DOMAIN D -> SUBSET V]
    BY <2>2, <1>2
  <2>4. \A v \in V : \E i \in DOMAIN D : v \in D[i]
    <3>1. SUFFICES ASSUME NEW v \in V PROVE \E i \in DOMAIN D : v \in D[i]
      OBVIOUS
    <3>2. PICK d \in DOMAIN C : v \in C[d]
      BY DEF IsPartition
    <3> QED
      BY <3>2, <1>1, <1>2, <1>6
  <2>5. ASSUME NEW i \in DOMAIN D, NEW j \in DOMAIN D, i < j
        PROVE  i + Cardinality(D[i]) <= j /\ D[i] \cap D[j] = {}
    <3>1. CASE i \in DOMAIN P /\ j \in DOMAIN P
      BY <3>1, <2>5, <1>1, <1>6
    <3>2. CASE i \in DOMAIN P /\ j \in DOMAIN C \ {c}
      <4>1. c < j
        <5>1. c <= i /\ i \in Nat /\ j \in Nat /\ c \in Nat
          BY <3>2, <1>1, <1>3
        <5> QED
          BY <5>1, <2>5
      <4>2. i + Cardinality(P[i]) <= j
        BY <4>1, <3>2, <1>4
      <4> QED
        BY <4>1, <4>2, <3>2, <1>1, <1>3, <1>6
    <3>3. CASE i \in DOMAIN C \ {c} /\ j \in DOMAIN P
      <4>1. i < c
        <5>1. i \in Nat /\ j \in Nat /\ c \in Nat /\ Cardinality(P[j]) \in Nat \ {0}
              /\ (c < i => j + Cardinality(P[j]) <= i)
          BY <3>3, <1>1, <1>3, <1>4
        <5> QED
          BY <5>1, <3>3, <2>5
      <4>2. i + Cardinality(C[i]) <= j
        BY <4>1, <3>3, <1>4
      <4> QED
        BY <4>1, <4>2, <3>3, <1>1, <1>3, <1>6
    <3>4. CASE i \in DOMAIN C \ {c} /\ j \in DOMAIN C \ {c}
      BY <3>4, <2>5, <1>3, <1>6
    <3> QED
      BY <3>1, <3>2, <3>3, <3>4, <1>1, <1>2
  <2> QED
    BY <2>1, <2>2, <2>3, <2>4, <2>5 DEF IsPartition
<1>8. \A i \in DOMAIN P : P[i] \subseteq C[c] /\ Uniform(P[i], W)
  BY <1>1 DEF Uniform
<1>9. \A u, v \in C[c] : EdgesTo(u, W) = EdgesTo(v, W) =>
        \A i \in DOMAIN P : u \in P[i] <=> v \in P[i]
  BY <1>1
<1>10. IsSplit(C, c, W, P, D)
  BY <1>2, <1>5, <1>6, <1>7, <1>8, <1>9 DEF IsSplit
<1> QED
  BY <1>10 DEF P, D

-----------------------------------------------------------------------------
(* Why one part may be left out of the queue.  A cell c that is not queued *)
(* lies in a set U of cells to which no cell has different numbers of      *)
(* edges, and the others in U are queued: once they have been refiners, no *)
(* cell has different numbers of edges to the rest, c.  Below, Q are the   *)
(* queued cells and M the refiner, empty when there is none.               *)
UnionOf(C, U) == U \subseteq V /\ \A d \in DOMAIN C : C[d] \subseteq U \/ C[d] \cap U = {}
AllUniform(C, U) == \A d \in DOMAIN C : Uniform(C[d], U)
Supports(C, Q, M, c, U) ==
  /\ UnionOf(C, U) /\ AllUniform(C, U) /\ C[c] \subseteq U
  /\ M \subseteq U \/ M \cap U = {}
  /\ \A d \in DOMAIN C \ {c} : C[d] \subseteq U => d \in Q \/ C[d] \subseteq M
QueueServes(C, Q, M) ==
  /\ UnionOf(C, M)
  /\ \A c, d \in DOMAIN C :
       c # d /\ C[c] \subseteq M /\ C[d] \subseteq M => c \in Q \/ d \in Q
  /\ \A c \in DOMAIN C :
       c \in Q \/ C[c] \subseteq M \/ \E U \in SUBSET V : Supports(C, Q, M, c, U)

LEMMA RefinerTaken ==
  ASSUME Input, NEW C, IsPartition(C), NEW h \in DOMAIN C, NEW Q, NEW R,
         QueueServes(C, Q, {}), Q \subseteq R \cup {h}
  PROVE  QueueServes(C, R, C[h])
<1>1. /\ C[h] \subseteq V
      /\ \A c \in DOMAIN C : C[c] # {}
      /\ \A c, d \in DOMAIN C : c # d => C[c] \cap C[d] = {}
  BY PartitionFacts
<1>2. UnionOf(C, C[h])
  BY <1>1 DEF UnionOf
<1>3. \A c \in DOMAIN C : C[c] \subseteq C[h] => c = h
  BY <1>1
<1>4. ASSUME NEW c \in DOMAIN C
      PROVE  c \in R \/ C[c] \subseteq C[h] \/ \E U \in SUBSET V : Supports(C, R, C[h], c, U)
  <2>1. CASE c \in Q
    BY <2>1
  <2>2. CASE c \notin Q
    <3>1. PICK U \in SUBSET V : Supports(C, Q, {}, c, U)
      BY <2>2, <1>1 DEF QueueServes
    <3>2. Supports(C, R, C[h], c, U)
      BY <3>1, <1>1 DEF Supports, UnionOf
    <3> QED
      BY <3>2
  <2> QED
    BY <2>1, <2>2
<1> QED
  BY <1>2, <1>3, <1>4 DEF QueueServes

LEMMA UniformSubset ==
  ASSUME NEW A, NEW B, A \subseteq B, NEW W, Uniform(B, W)
  PROVE  Uniform(A, W)
BY DEF Uniform

LEMMA SplitServes ==
  ASSUME Input, NEW C, IsPartition(C), NEW c \in DOMAIN C, NEW M, NEW Q, NEW R,
         QueueServes(C, Q, M), Q \subseteq R,
         c \in Q => DOMAIN Parts(C, c, M) \subseteq R,
         \E x : DOMAIN Parts(C, c, M) \ {x} \subseteq R
  PROVE  QueueServes(AfterSplit(C, c, M), R, M)
<1> DEFINE P == Parts(C, c, M)
           D == AfterSplit(C, c, M)
<1>1. /\ IsPartition(D)
      /\ DOMAIN D = DOMAIN C \cup DOMAIN P
      /\ DOMAIN C \cap DOMAIN P = {c}
      /\ \A i \in DOMAIN P : D[i] \subseteq C[c]
      /\ \A i \in DOMAIN C \ {c} : D[i] = C[i]
  <2>1. IsSplit(C, c, M, P, D)
    BY SplitFacts
  <2> HIDE DEF P, D
  <2> QED
    BY <2>1 DEF IsSplit
<1>2. \A i \in DOMAIN D : D[i] # {}
  BY <1>1, PartitionFacts
<1>3. PICK x : DOMAIN P \ {x} \subseteq R
  OBVIOUS
<1>4. c \in Q => DOMAIN P \subseteq R
  OBVIOUS
<1> HIDE DEF P, D
<1> DEFINE Old(i) == IF i \in DOMAIN P THEN c ELSE i
<1>5. \A i \in DOMAIN D : Old(i) \in DOMAIN C /\ D[i] \subseteq C[Old(i)]
  BY <1>1
<1>6. \A i \in DOMAIN D : Old(i) \in Q => i \in R
  BY <1>1, <1>4
<1>7. \A i, j \in DOMAIN D : i # j /\ Old(i) = Old(j) => i \in R \/ j \in R
  BY <1>1, <1>3
<1> HIDE DEF Old
<1>8. ASSUME NEW U, UnionOf(C, U)
      PROVE  /\ UnionOf(D, U)
             /\ \A i \in DOMAIN D : D[i] \subseteq U <=> C[Old(i)] \subseteq U
  BY <1>2, <1>5, <1>8 DEF UnionOf
<1>9. UnionOf(D, M) /\ \A i \in DOMAIN D : D[i] \subseteq M <=> C[Old(i)] \subseteq M
  BY <1>8 DEF QueueServes
<1>10. ASSUME NEW i \in DOMAIN D, NEW j \in DOMAIN D,
              i # j, D[i] \subseteq M, D[j] \subseteq M
       PROVE  i \in R \/ j \in R
  <2>1. CASE Old(i) = Old(j)
    BY <2>1, <1>7, <1>10
  <2>2. CASE Old(i) # Old(j)
    <3>1. Old(i) \in Q \/ Old(j) \in Q
      BY <2>2, <1>5, <1>9, <1>10 DEF QueueServes
    <3> QED
      BY <3>1, <1>6
  <2> QED
    BY <2>1, <2>2
<1>11. ASSUME NEW i \in DOMAIN D, i \notin R, ~(D[i] \subseteq M)
       PROVE  \E U \in SUBSET V : Supports(D, R, M, i, U)
  <2>1. Old(i) \in DOMAIN C /\ Old(i) \notin Q /\ ~(C[Old(i)] \subseteq M)
    BY <1>5, <1>6, <1>9, <1>11
  <2>2. PICK U \in SUBSET V : Supports(C, Q, M, Old(i), U)
    BY <2>1 DEF QueueServes
  <2>3. UnionOf(D, U) /\ \A j \in DOMAIN D : D[j] \subseteq U <=> C[Old(j)] \subseteq U
    BY <2>2, <1>8 DEF Supports
  <2>4. AllUniform(D, U)
    BY <2>2, <1>5, UniformSubset DEF Supports, AllUniform
  <2>5. D[i] \subseteq U /\ (M \subseteq U \/ M \cap U = {})
    BY <2>2, <2>3 DEF Supports
  <2>6. ASSUME NEW j \in DOMAIN D \ {i}, D[j] \subseteq U
        PROVE  j \in R \/ D[j] \subseteq M
    <3>1. CASE Old(j) = Old(i)
      BY <3>1, <1>7, <1>11
    <3>2. CASE Old(j) # Old(i)
      <4>1. Old(j) \in Q \/ C[Old(j)] \subseteq M
        BY <3>2, <2>2, <2>3, <2>6, <1>5 DEF Supports
      <4> QED
        BY <4>1, <1>6, <1>9
    <3> QED
      BY <3>1, <3>2
  <2>7. Supports(D, R, M, i, U)
    BY <2>3, <2>4, <2>5, <2>6 DEF Supports
  <2> QED
    BY <2>7
<1>12. QueueServes(D, R, M)
  BY <1>9, <1>10, <1>11 DEF QueueServes
<1> QED
  BY <1>12 DEF D

(* When no cell has different numbers of edges to the refiner any more.    *)
LEMMA RefinerServed ==
  ASSUME Input, NEW C, IsPartition(C), NEW Q, NEW M, QueueServes(C, Q, M), AllUniform(C, M)
  PROVE  QueueServes(C, Q, {})
<1>1. \A d \in DOMAIN C : C[d] # {} /\ C[d] \subseteq V
  BY PartitionFacts
<1>2. UnionOf(C, {})
  BY DEF UnionOf
<1>3. ASSUME NEW c \in DOMAIN C, c \notin Q
      PROVE  \E U \in SUBSET V : Supports(C, Q, {}, c, U)
  <2>1. CASE C[c] \subseteq M
    <3>1. UnionOf(C, M) /\ M \in SUBSET V
      BY DEF QueueServes, UnionOf
    <3>2. \A d \in DOMAIN C \ {c} : C[d] \subseteq M => d \in Q
      BY <1>3, <2>1 DEF QueueServes
    <3>3. Supports(C, Q, {}, c, M)
      BY <2>1, <3>1, <3>2 DEF Supports
    <3> QED
      BY <3>1, <3>3
  <2>2. CASE ~(C[c] \subseteq M)
    <3>1. PICK U \in SUBSET V : Supports(C, Q, M, c, U)
      BY <1>3, <2>2 DEF QueueServes
    <3>2. CASE M \cap U = {}
      <4>1. \A d \in DOMAIN C : C[d] \subseteq U => ~(C[d] \subseteq M)
        BY <3>2, <1>1
      <4>2. Supports(C, Q, {}, c, U)
        BY <3>1, <4>1 DEF Supports
      <4> QED
        BY <4>2
    <3>3. CASE M \subseteq U
      <4>1. /\ UnionOf(C, U) /\ UnionOf(C, M) /\ AllUniform(C, U) /\ C[c] \subseteq U
            /\ \A d \in DOMAIN C \ {c} : C[d] \subseteq U => d \in Q \/ C[d] \subseteq M
        BY <3>1 DEF Supports, QueueServes
      <4>2. UnionOf(C, U \ M) /\ C[c] \subseteq U \ M
        BY <4>1, <2>2 DEF UnionOf
      <4>3. AllUniform(C, U \ M)
        <5>1. SUFFICES ASSUME NEW d \in DOMAIN C, NEW u \in C[d], NEW v \in C[d]
                       PROVE  EdgesTo(u, U \ M) = EdgesTo(v, U \ M)
          BY DEF AllUniform, Uniform
        <5>2. EdgesTo(u, U) = EdgesTo(v, U) /\ EdgesTo(u, M) = EdgesTo(v, M)
          BY <4>1 DEF AllUniform, Uniform
        <5>3. u \in V /\ v \in V
          BY <1>1
        <5> QED
          BY <3>3, <5>2, <5>3, EdgesToDifference
      <4>4. \A d \in DOMAIN C \ {c} : C[d] \subseteq U \ M => d \in Q
        BY <4>1, <1>1
      <4>5. Supports(C, Q, {}, c, U \ M) /\ U \ M \in SUBSET V
        BY <4>2, <4>3, <4>4 DEF Supports
      <4> QED
        BY <4>5
    <3> QED
      BY <3>1, <3>2, <3>3 DEF Supports
  <2> QED
    BY <2>1, <2>2
<1> QED
  BY <1>1, <1>2, <1>3 DEF QueueServes

(* When the queue is empty, or there is nothing left to split.             *)
LEMMA EmptyQueueEquitable ==
  ASSUME Input, NEW C, IsPartition(C), QueueServes(C, {}, {})
  PROVE  Equitable(C)
<1>1. SUFFICES ASSUME NEW c \in DOMAIN C, NEW d \in DOMAIN C
               PROVE  Uniform(C[c], C[d])
  BY DEF Equitable
<1>2. \A e \in DOMAIN C : C[e] # {} /\ C[e] \subseteq V
  BY PartitionFacts
<1>3. PICK U \in SUBSET V : Supports(C, {}, {}, d, U)
  BY <1>2 DEF QueueServes
<1>4. \A e \in DOMAIN C : C[e] \cap U # {} => e = d
  BY <1>2, <1>3 DEF Supports, UnionOf
<1>5. U = C[d]
  <2>1. \A v \in U : \E e \in DOMAIN C : v \in C[e]
    BY DEF IsPartition
  <2>2. \A v \in U : v \in C[d]
    BY <2>1, <1>4
  <2> QED
    BY <2>2, <1>3 DEF Supports
<1> QED
  BY <1>3, <1>5 DEF Supports, AllUniform

LEMMA DiscreteEquitable ==
  ASSUME NEW C, IsPartition(C), Discrete(C)
  PROVE  Equitable(C)
<1>1. \A c \in DOMAIN C : \E x : C[c] = {x}
  <2>1. \A c \in DOMAIN C : IsFiniteSet(C[c]) /\ Cardinality(C[c]) = 1
    BY CellsAreFinite, PartitionFacts DEF Discrete
  <2> QED
    BY <2>1, FS_Singleton
<1> QED
  BY <1>1 DEF Equitable, Uniform

-----------------------------------------------------------------------------
(* Nothing is split that an equitable partition leaves together.           *)
Respects(f, M) == \A u \in M : \A v \in V : f[u] = f[v] => v \in M

LEMMA SameClassSameEdges ==
  ASSUME Input, NEW f \in [V -> V], Stable(f), NEW M \in SUBSET V, Respects(f, M),
         NEW u \in V, NEW v \in V, f[u] = f[v]
  PROVE  EdgesTo(u, M) = EdgesTo(v, M)
<1> DEFINE Upto(k) == {w \in M : f[w] < k}
           bad == {k \in 0 .. n : EdgesTo(u, Upto(k)) # EdgesTo(v, Upto(k))}
<1>0. n \in Nat /\ n \in 0 .. n /\ \A w \in V : f[w] \in Nat /\ 0 <= f[w] /\ f[w] < n
  BY SizeAssumption DEF V
<1>1. Upto(n) = M
  <2>1. \A w \in M : f[w] < n
    BY <1>0
  <2> QED
    BY <2>1
<1>2. SUFFICES bad = {}
  <2>1. EdgesTo(u, Upto(n)) = EdgesTo(v, Upto(n))
    BY <1>0, <1>2
  <2> QED
    BY <2>1, <1>1, Zenon
<1>3. bad \in SUBSET Nat /\ IsFiniteSet(bad)
  <2>1. IsFiniteSet(0 .. n)
    BY <1>0, FS_Interval
  <2>2. bad \in SUBSET (0 .. n)
    OBVIOUS
  <2> HIDE DEF bad
  <2>3. IsFiniteSet(bad)
    BY <2>1, <2>2, FS_Subset
  <2> QED
    BY <2>2, <2>3
<1>4. SUFFICES ASSUME bad # {} PROVE FALSE
  OBVIOUS
<1>5. PICK k \in bad : \A j \in bad : k <= j
  BY <1>3, <1>4, LeastElement
<1>6. ASSUME k = 0 PROVE FALSE
  <2>1. Upto(k) = {}
    <3>1. \A w \in M : ~(f[w] < k)
      BY <1>0, <1>6
    <3> QED
      BY <3>1
  <2>2. EdgesTo(u, {}) = 0 /\ EdgesTo(v, {}) = 0
    BY EdgesToNone
  <2>3. EdgesTo(u, Upto(k)) = EdgesTo(v, Upto(k))
    BY <2>1, <2>2, Zenon
  <2> QED
    BY <2>3
<1>7. ASSUME k # 0 PROVE FALSE
  <2> DEFINE j == k - 1
             K == {w \in M : f[w] = j}
  <2>1. k \in 1 .. n /\ j \in 0 .. n /\ j \in V /\ j \notin bad
    <3>1. k \in 0 .. n
      BY <1>5
    <3>2. k \in 1 .. n /\ j \in 0 .. n /\ j \in V /\ ~(k <= j)
      BY <3>1, <1>0, <1>7 DEF V
    <3> HIDE DEF bad
    <3> QED
      BY <3>2, <1>5
  <2>2. Upto(k) = Upto(j) \cup K /\ Upto(j) \cap K = {}
    <3>1. \A w \in M : f[w] \in Nat /\ (f[w] < k <=> f[w] < j \/ f[w] = j)
      BY <2>1, CellsAreFinite DEF V
    <3>2. \A w \in M : ~(f[w] < j /\ f[w] = j)
      BY <2>1, CellsAreFinite
    <3> HIDE DEF j
    <3> QED
      BY <3>1, <3>2
  <2>3. EdgesTo(u, Upto(j)) = EdgesTo(v, Upto(j))
    BY <2>1
  <2>4. EdgesTo(u, K) = EdgesTo(v, K)
    <3>1. CASE K = {}
      <4>1. EdgesTo(u, {}) = 0 /\ EdgesTo(v, {}) = 0
        BY EdgesToNone
      <4> QED
        BY <3>1, <4>1, Zenon
    <3>2. CASE K # {}
      <4>1. K = Class(f, j)
        BY <3>2 DEF Class, Respects
      <4>2. Uniform(Class(f, f[u]), Class(f, j)) /\ f[u] \in V
        BY <2>1 DEF Stable
      <4>3. u \in Class(f, f[u]) /\ v \in Class(f, f[u])
        BY DEF Class
      <4>4. EdgesTo(u, Class(f, j)) = EdgesTo(v, Class(f, j))
        BY <4>2, <4>3 DEF Uniform
      <4> QED
        BY <4>1, <4>4, Zenon
    <3> QED
      BY <3>1, <3>2
  <2> HIDE DEF Upto, K
  <2>5. \A x \in V : EdgesTo(x, Upto(j) \cup K) = EdgesTo(x, Upto(j)) + EdgesTo(x, K)
    BY <2>2, EdgesToUnion
  <2>6. EdgesTo(u, Upto(j) \cup K) = EdgesTo(v, Upto(j) \cup K)
    BY <2>3, <2>4, <2>5
  <2>7. EdgesTo(u, Upto(k)) = EdgesTo(v, Upto(k))
    BY <2>2, <2>6, Zenon
  <2> QED
    BY <2>7, <1>5
<1> QED
  BY <1>6, <1>7

LEMMA SplitRefines ==
  ASSUME Input, NEW C, IsPartition(C), NEW c \in DOMAIN C, NEW M \in SUBSET V,
         NEW f \in [V -> V], Stable(f), Respects(f, M), Refines(f, C)
  PROVE  Refines(f, AfterSplit(C, c, M))
<1> DEFINE P == Parts(C, c, M)
           D == AfterSplit(C, c, M)
<1>1. IsSplit(C, c, M, P, D)
  BY SplitFacts
<1> HIDE DEF P, D
<1>2. ASSUME NEW i \in DOMAIN D, NEW u \in D[i], NEW v \in V, f[u] = f[v]
      PROVE  v \in D[i]
  <2>1. CASE i \in DOMAIN C \ {c}
    BY <2>1, <1>1, <1>2 DEF IsSplit, Refines
  <2>2. CASE i \in DOMAIN P
    <3>1. u \in P[i] /\ u \in C[c] /\ v \in C[c] /\ u \in V
      BY <2>2, <1>1, <1>2, PartitionFacts DEF IsSplit, Refines
    <3>2. EdgesTo(u, M) = EdgesTo(v, M)
      BY <3>1, <1>2, SameClassSameEdges
    <3> QED
      BY <3>1, <3>2, <2>2, <1>1 DEF IsSplit
  <2> QED
    BY <2>1, <2>2, <1>1 DEF IsSplit
<1>3. Refines(f, D)
  BY <1>2 DEF Refines
<1> QED
  BY <1>3 DEF D

-----------------------------------------------------------------------------
(* The cells of a child.                                                   *)
ChildCells(B, c, v, last) ==
  [i \in DOMAIN B \cup {last} |-> IF i = last THEN {v} ELSE IF i = c THEN B[c] \ {v} ELSE B[i]]

LEMMA ChildFacts ==
  ASSUME Input, NEW B, IsPartition(B), Equitable(B), NEW c \in DOMAIN B, NEW v \in B[c],
         NEW last, last = c + Cardinality(B[c]) - 1, c # last
  PROVE  /\ IsPartition(ChildCells(B, c, v, last))
         /\ QueueServes(ChildCells(B, c, v, last), {last}, {})
         /\ last \in DOMAIN ChildCells(B, c, v, last)
<1> DEFINE D == ChildCells(B, c, v, last)
<1>1. /\ DOMAIN B \subseteq Nat /\ DOMAIN B \subseteq V
      /\ \A d \in DOMAIN B :
           /\ B[d] \in SUBSET V /\ B[d] # {} /\ IsFiniteSet(B[d])
           /\ Cardinality(B[d]) \in Nat \ {0} /\ d + Cardinality(B[d]) <= n
      /\ \A d, e \in DOMAIN B :
           d < e => d + Cardinality(B[d]) <= e /\ B[d] \cap B[e] = {}
      /\ \A d, e \in DOMAIN B : d # e => B[d] \cap B[e] = {}
  BY PartitionFacts, CellsAreFinite DEF IsPartition
<1>2. /\ c \in Nat /\ last \in Nat /\ c < last /\ last < n
      /\ Cardinality(B[c]) \in Nat
  BY <1>1, SizeAssumption
<1>3. \A d \in DOMAIN B : /\ d < c => d + Cardinality(B[d]) <= c
                          /\ c < d => last + 1 <= d
                          /\ d # last
  BY <1>1, <1>2
<1>4. /\ DOMAIN D = DOMAIN B \cup {last}
      /\ D[last] = {v} /\ D[c] = B[c] \ {v}
      /\ \A d \in DOMAIN B \ {c} : D[d] = B[d]
      /\ D = [i \in DOMAIN B \cup {last} |-> D[i]]
  BY <1>2, <1>3 DEF ChildCells
<1> HIDE DEF D
<1>5. Cardinality({v}) = 1 /\ Cardinality(B[c] \ {v}) = last - c
  <2>1. Cardinality({v}) = 1
    BY FS_Singleton
  <2>2. Cardinality(B[c] \ {v}) = Cardinality(B[c]) - 1
    BY <1>1, FS_RemoveElement
  <2> QED
    BY <2>1, <2>2, <1>2
<1>6. B[c] \ {v} # {}
  <2>1. Cardinality(B[c] \ {v}) # 0
    BY <1>2, <1>5
  <2> QED
    BY <2>1, FS_EmptySet
<1>7. \A i \in DOMAIN D : D[i] \in SUBSET V /\ D[i] # {} /\ i + Cardinality(D[i]) <= n
  <2>1. D[last] \in SUBSET V /\ D[last] # {} /\ last + Cardinality(D[last]) <= n
    BY <1>1, <1>2, <1>4, <1>5, SizeAssumption
  <2>2. D[c] \in SUBSET V /\ D[c] # {} /\ c + Cardinality(D[c]) <= n
    <3>1. c + Cardinality(D[c]) <= n
      BY <1>2, <1>4, <1>5, SizeAssumption
    <3> QED
      BY <3>1, <1>1, <1>4, <1>6
  <2>3. \A i \in DOMAIN B \ {c} : D[i] \in SUBSET V /\ D[i] # {} /\ i + Cardinality(D[i]) <= n
    BY <1>1, <1>4
  <2> QED
    BY <2>1, <2>2, <2>3, <1>4
<1>8. ASSUME NEW i \in DOMAIN D, NEW j \in DOMAIN D, i < j
      PROVE  i + Cardinality(D[i]) <= j /\ D[i] \cap D[j] = {}
  <2>1. CASE i = last
    <3>1. j \in DOMAIN B \ {c} /\ last + 1 <= j
      BY <2>1, <1>1, <1>2, <1>3, <1>4, <1>8
    <3> QED
      BY <2>1, <3>1, <1>1, <1>2, <1>4, <1>5
  <2>2. CASE j = last
    <3>1. CASE i = c
      BY <2>2, <3>1, <1>2, <1>4, <1>5
    <3>2. CASE i # c
      <4>1. i \in DOMAIN B \ {c} /\ i \in Nat
        BY <2>2, <3>2, <1>1, <1>2, <1>4, <1>8
      <4>2. i < c /\ i + Cardinality(B[i]) <= c /\ Cardinality(B[i]) \in Nat
        BY <2>2, <4>1, <1>1, <1>2, <1>3, <1>8
      <4>3. i + Cardinality(D[i]) <= j
        BY <2>2, <4>1, <4>2, <1>2, <1>4
      <4> QED
        BY <2>2, <4>1, <4>3, <1>1, <1>4
    <3> QED
      BY <3>1, <3>2
  <2>3. CASE i # last /\ j # last
    <3>1. i \in DOMAIN B /\ j \in DOMAIN B
      BY <2>3, <1>4
    <3>2. D[i] \cap D[j] = {}
      BY <3>1, <1>1, <1>4, <1>8
    <3>3. CASE i = c
      <4>1. last + 1 <= j /\ j \in Nat
        BY <3>1, <3>3, <1>1, <1>3, <1>8
      <4>2. c + Cardinality(D[c]) = last
        BY <1>2, <1>4, <1>5
      <4> QED
        BY <3>2, <3>3, <4>1, <4>2, <1>2
    <3>4. CASE i # c
      BY <3>1, <3>2, <3>4, <1>1, <1>4, <1>8
    <3> QED
      BY <3>3, <3>4
  <2> QED
    BY <2>1, <2>2, <2>3
<1>9. IsPartition(D)
  <2>1. DOMAIN D \subseteq V
    BY <1>1, <1>2, <1>4, SizeAssumption DEF V
  <2>2. D \in [DOMAIN D -> SUBSET V]
    BY <1>4, <1>7
  <2>3. \A x \in V : \E d \in DOMAIN D : x \in D[d]
    <3>1. SUFFICES ASSUME NEW x \in V PROVE \E d \in DOMAIN D : x \in D[d]
      OBVIOUS
    <3>2. PICK d \in DOMAIN B : x \in B[d]
      BY DEF IsPartition
    <3> QED
      BY <3>2, <1>4
  <2> QED
    BY <2>1, <2>2, <2>3, <1>7, <1>8 DEF IsPartition
<1> DEFINE Old(i) == IF i = last THEN c ELSE i
<1>10. \A i \in DOMAIN D : Old(i) \in DOMAIN B /\ D[i] \subseteq B[Old(i)]
  BY <1>4
<1>11. \A i, j \in DOMAIN D : i # j /\ Old(i) = Old(j) => i = last \/ j = last
  OBVIOUS
<1> HIDE DEF Old
<1>12. \A d \in DOMAIN B : UnionOf(D, B[d]) /\ AllUniform(D, B[d])
       /\ \A i \in DOMAIN D : D[i] \subseteq B[d] => Old(i) = d
  <2>1. SUFFICES ASSUME NEW d \in DOMAIN B
                 PROVE  UnionOf(D, B[d]) /\ AllUniform(D, B[d])
                        /\ \A i \in DOMAIN D : D[i] \subseteq B[d] => Old(i) = d
    OBVIOUS
  <2>2. \A i \in DOMAIN D : D[i] # {} /\ (Old(i) # d => D[i] \cap B[d] = {})
    BY <1>1, <1>7, <1>10
  <2>3. UnionOf(D, B[d])
    BY <2>2, <1>1, <1>10 DEF UnionOf
  <2>4. AllUniform(D, B[d])
    BY <1>10, UniformSubset DEF AllUniform, Equitable
  <2>5. \A i \in DOMAIN D : D[i] \subseteq B[d] => Old(i) = d
    BY <2>2
  <2> QED
    BY <2>3, <2>4, <2>5
<1>13. ASSUME NEW i \in DOMAIN D, i # last
       PROVE  \E U \in SUBSET V : Supports(D, {last}, {}, i, U)
  <2>1. B[Old(i)] \in SUBSET V /\ Old(i) \in DOMAIN B /\ D[i] \subseteq B[Old(i)]
    BY <1>1, <1>10
  <2>2. \A j \in DOMAIN D \ {i} : D[j] \subseteq B[Old(i)] => j \in {last}
    BY <2>1, <1>11, <1>12, <1>13
  <2>3. Supports(D, {last}, {}, i, B[Old(i)])
    BY <2>1, <2>2, <1>12 DEF Supports
  <2> QED
    BY <2>1, <2>3
<1>14. UnionOf(D, {})
  BY DEF UnionOf
<1>15. QueueServes(D, {last}, {})
  BY <1>7, <1>13, <1>14 DEF QueueServes
<1> QED
  BY <1>4, <1>9, <1>15 DEF D

-----------------------------------------------------------------------------
(* The invariant: what holds of the cells that are refined, and, while a   *)
(* refiner is at work, of the cells it has not come to yet.                *)
NothingLost(C, B) ==
  \A f \in [V -> V] : Refines(f, B) /\ Stable(f) => Refines(f, C)
CellsOK ==
  /\ IsPartition(cells) /\ DOMAIN start \subseteq DOMAIN cells
  /\ result = "Unchanged" => cells = start
  /\ result = "Changed" => DOMAIN cells # DOMAIN start
  /\ NothingLost(cells, start)
Serving(M) ==
  /\ M \subseteq V /\ pending \in Seq(DOMAIN cells)
  /\ QueueServes(cells, Range(queue), M)
  /\ \A c \in DOMAIN cells : c \in Range(pending) \/ Uniform(cells[c], M)
  /\ \A f \in [V -> V] : Refines(f, start) /\ Stable(f) => Respects(f, M)
Control ==
  /\ pc \in {"idle", "refine", "split"} /\ result \in {"Unchanged", "Changed", "Abort"}
  /\ pc # "idle" => result # "Abort"
  /\ pc = "idle" => base # None
BaseOK == base # None => IsPartition(base) /\ Equitable(base)
IInv ==
  /\ Input /\ Control /\ BaseOK /\ IsPartition(start)
  /\ IF result = "Abort" THEN cells = None ELSE CellsOK
  /\ pc = "idle" /\ result # "Abort" => Equitable(cells)
  /\ pc # "idle" => queue \in Seq(DOMAIN cells)
  /\ pc = "refine" => queue # <<>> /\ QueueServes(cells, Range(queue), {})
  /\ pc = "split" => Serving(refiner.members)

(* An empty queue has no members, and numbers of a set are ones of a       *)
(* larger set.                                                             *)
LEMMA RangeOfEmpty == Range(<<>>) = {}
BY DEF Range

LEMMA SeqGrows ==
  ASSUME NEW A, NEW B, A \subseteq B, NEW s \in Seq(A)
  PROVE  s \in Seq(B)
<1>1. Len(s) \in Nat /\ s \in [1 .. Len(s) -> A]
  OBVIOUS
<1>2. s \in [1 .. Len(s) -> B]
  BY <1>1
<1> QED
  BY <1>1, <1>2

(* Every cell is queued at the root.                                       *)
LEMMA AllQueued ==
  ASSUME NEW C, IsPartition(C), NEW Q, DOMAIN C \subseteq Q
  PROVE  QueueServes(C, Q, {})
<1>1. \A c \in DOMAIN C : C[c] # {}
  BY PartitionFacts
<1> QED
  BY <1>1 DEF QueueServes, UnionOf

LEMMA Initially ==
  ASSUME Init
  PROVE  IInv
<1>1. Input /\ IsPartition(cells) /\ start = cells /\ base = None
  BY InputsAssumption DEF Init, Input
<1>2. DOMAIN cells \in SUBSET Nat /\ IsFiniteSet(DOMAIN cells) /\ DOMAIN cells # {}
  BY <1>1, PartitionFacts
<1>3. queue \in Seq(DOMAIN cells) /\ Range(queue) = DOMAIN cells
  BY <1>2, AscendingLists DEF Init
<1>4. queue # <<>>
  BY <1>2, <1>3, RangeOfEmpty
<1>5. QueueServes(cells, Range(queue), {})
  BY <1>1, <1>3, AllQueued
<1>6. CellsOK
  BY <1>1 DEF Init, CellsOK, NothingLost
<1> QED
  BY <1>1, <1>3, <1>4, <1>5, <1>6 DEF Init, IInv, Control, BaseOK

(* A refiner is taken from the queue: it has no edges to the cells that it *)
(* does not come to, or they have one member.                              *)
LEMMA TakeRefinerStep ==
  ASSUME IInv, TakeRefiner
  PROVE  IInv'
<1> DEFINE h == Head(queue)
           W == cells[h]
           hit == {c \in DOMAIN cells : /\ Cardinality(cells[c]) > 1
                                        /\ \E v \in cells[c] : EdgesTo(v, W) > 0}
<1>1. /\ Input /\ Control /\ BaseOK /\ IsPartition(start)
      /\ pc = "refine" /\ result # "Abort" /\ CellsOK /\ IsPartition(cells)
      /\ queue \in Seq(DOMAIN cells) /\ queue # <<>> /\ QueueServes(cells, Range(queue), {})
  BY DEF TakeRefiner, IInv, Control, CellsOK
<1>2. /\ refiner'.members = W /\ pending' = Ascending(hit) /\ queue' = Tail(queue)
      /\ pc' = "split"
      /\ UNCHANGED <<input, base, start, cells, result>>
  BY DEF TakeRefiner
<1>3. h \in DOMAIN cells /\ queue' \in Seq(DOMAIN cells)
      /\ Range(queue) = {h} \cup Range(queue')
  BY <1>1, <1>2, HeadAndTail
<1>4. QueueServes(cells, Range(queue'), W)
  BY <1>1, <1>3, RefinerTaken
<1>5. /\ DOMAIN cells \subseteq Nat /\ IsFiniteSet(DOMAIN cells)
      /\ \A c \in DOMAIN cells : cells[c] \in SUBSET V /\ Cardinality(cells[c]) \in Nat \ {0}
  BY <1>1, PartitionFacts
<1>6. pending' \in Seq(DOMAIN cells) /\ Range(pending') = hit
  <2>1. hit \in SUBSET DOMAIN cells
    OBVIOUS
  <2> HIDE DEF hit
  <2>2. hit \in SUBSET Nat /\ IsFiniteSet(hit)
    BY <2>1, <1>5, FS_Subset
  <2>3. pending' \in Seq(hit) /\ Range(pending') = hit
    BY <2>2, <1>2, AscendingLists
  <2> QED
    BY <2>1, <2>3, SeqGrows
<1>7. ASSUME NEW c \in DOMAIN cells, c \notin hit
      PROVE  Uniform(cells[c], W)
  <2>1. CASE Cardinality(cells[c]) > 1
    <3>1. \A v \in cells[c] : EdgesTo(v, W) \in Nat
      BY <1>1, <1>5, EdgesToType
    <3>2. \A v \in cells[c] : EdgesTo(v, W) = 0
      BY <2>1, <1>7, <3>1
    <3> QED
      BY <3>2 DEF Uniform
  <2>2. CASE ~(Cardinality(cells[c]) > 1)
    <3>1. Cardinality(cells[c]) = 1 /\ IsFiniteSet(cells[c])
      BY <2>2, <1>5, CellsAreFinite
    <3>2. \E x : cells[c] = {x}
      BY <3>1, FS_Singleton
    <3> QED
      BY <3>2 DEF Uniform
  <2> QED
    BY <2>1, <2>2
<1>8. ASSUME NEW f \in [V -> V], Refines(f, start), Stable(f)
      PROVE  Respects(f, W)
  BY <1>1, <1>3, <1>8 DEF CellsOK, NothingLost, Refines, Respects
<1> HIDE DEF W, hit
<1>9. Serving(refiner.members)'
  <2>1. W \subseteq V
    BY <1>3, <1>5 DEF W
  <2>2. QueueServes(cells, Range(queue), refiner.members)'
    BY <1>2, <1>4 DEF QueueServes, Supports, UnionOf, AllUniform, Uniform, EdgesTo, Range
  <2>3. \A c \in DOMAIN cells' : c \in Range(pending') \/ Uniform(cells[c], refiner.members)'
    BY <1>2, <1>6, <1>7 DEF Uniform, EdgesTo
  <2>4. \A f \in [V -> V] : (Refines(f, start) /\ Stable(f) => Respects(f, refiner.members))'
    BY <1>2, <1>8 DEF Refines, Stable, Respects, Uniform, EdgesTo
  <2> QED
    BY <2>1, <2>2, <2>3, <2>4, <1>2, <1>6 DEF Serving
<1>10. CellsOK'
  BY <1>1, <1>2 DEF CellsOK, NothingLost, Stable, Uniform, EdgesTo
<1> QED
  BY <1>1, <1>2, <1>3, <1>9, <1>10
  DEF IInv, Input, Control, BaseOK, Equitable, Uniform, EdgesTo

(* The graph does not change, so that what holds of cells with its edges   *)
(* holds of them after the step.                                           *)
LEMMA ServesAfterStep ==
  ASSUME input' = input, NEW Q, Range(queue') = Q, NEW M, refiner'.members = M,
         QueueServes(cells', Q, M)
  PROVE  QueueServes(cells, Range(queue), refiner.members)'
BY DEF QueueServes, Supports, UnionOf, AllUniform, Uniform, EdgesTo, Range

(* While a refiner is at work, the next pending cell is one of the cells.  *)
LEMMA NextPending ==
  ASSUME IInv, pc = "split", pending # <<>>
  PROVE  /\ Head(pending) \in DOMAIN cells /\ Tail(pending) \in Seq(DOMAIN cells)
         /\ Range(pending) = {Head(pending)} \cup Range(Tail(pending))
         /\ Input /\ Control /\ BaseOK /\ IsPartition(start) /\ result # "Abort"
         /\ CellsOK /\ IsPartition(cells)
         /\ queue \in Seq(DOMAIN cells) /\ Serving(refiner.members)
<1>1. /\ Input /\ Control /\ BaseOK /\ IsPartition(start) /\ result # "Abort"
      /\ CellsOK /\ IsPartition(cells)
      /\ queue \in Seq(DOMAIN cells) /\ Serving(refiner.members)
  BY DEF IInv, Control, CellsOK
<1>2. pending \in Seq(DOMAIN cells)
  BY <1>1 DEF Serving
<1> QED
  BY <1>1, <1>2, HeadAndTail

LEMMA JoinedUniformlyStep ==
  ASSUME IInv, JoinedUniformly
  PROVE  IInv'
<1> DEFINE c == Head(pending)
           M == refiner.members
           P == Parts(cells, c, M)
<1>1. /\ pc = "split" /\ pending # <<>> /\ DOMAIN P = {c} /\ pending' = Tail(pending)
      /\ UNCHANGED <<input, pc, base, start, cells, queue, refiner, result>>
  BY DEF JoinedUniformly
<1>2. /\ c \in DOMAIN cells /\ Tail(pending) \in Seq(DOMAIN cells)
      /\ Range(pending) = {c} \cup Range(Tail(pending))
      /\ Input /\ Control /\ BaseOK /\ IsPartition(start) /\ result # "Abort"
      /\ CellsOK /\ IsPartition(cells)
      /\ queue \in Seq(DOMAIN cells) /\ Serving(M)
  BY <1>1, NextPending
<1>3. Uniform(cells[c], M)
  <2>1. /\ \A v \in cells[c] : \E i \in DOMAIN P : v \in P[i]
        /\ \A i \in DOMAIN P :
             \A u \in P[i], v \in cells[c] : v \in P[i] <=> EdgesTo(u, M) = EdgesTo(v, M)
    BY <1>2, PartsFacts
  <2> HIDE DEF P
  <2>2. \A u, v \in cells[c] : u \in P[c] /\ v \in P[c]
    BY <1>1, <2>1
  <2> QED
    BY <1>1, <2>1, <2>2 DEF Uniform
<1>4. \A d \in DOMAIN cells : d \in Range(pending') \/ Uniform(cells[d], M)
  BY <1>1, <1>2, <1>3 DEF Serving
<1>5. Serving(refiner.members)'
  <2>0. QueueServes(cells, Range(queue), M) /\ M = refiner'.members
    BY <1>1, <1>2 DEF Serving
  <2> HIDE DEF M
  <2>1. QueueServes(cells, Range(queue), refiner.members)'
    <3>1. QueueServes(cells', Range(queue), M) /\ Range(queue') = Range(queue) /\ input' = input
      BY <1>1, <2>0
    <3> QED
      BY <2>0, <3>1, ServesAfterStep
  <2>2. \A d \in DOMAIN cells' : d \in Range(pending') \/ Uniform(cells[d], refiner.members)'
    BY <1>1, <1>4, <2>0 DEF Uniform, EdgesTo
  <2>3. \A f \in [V -> V] : (Refines(f, start) /\ Stable(f) => Respects(f, refiner.members))'
    BY <1>1, <1>2, <2>0 DEF Serving, Refines, Stable, Respects, Uniform, EdgesTo
  <2>4. (refiner.members \subseteq V /\ pending \in Seq(DOMAIN cells))'
    BY <1>1, <1>2, <2>0 DEF Serving
  <2> QED
    BY <2>1, <2>2, <2>3, <2>4 DEF Serving
<1>6. CellsOK'
  BY <1>1, <1>2 DEF CellsOK, NothingLost, Stable, Uniform, EdgesTo
<1> QED
  BY <1>1, <1>2, <1>5, <1>6 DEF IInv, Input, Control, BaseOK, Equitable, Uniform, EdgesTo

(* A cell is split: of its parts, at most one is left out of the queue,    *)
(* and none if the cell is queued.                                         *)
LEMMA NewRefinersFacts ==
  ASSUME NEW P, DOMAIN P \in SUBSET Nat, IsFiniteSet(DOMAIN P), NEW c \in DOMAIN P
  PROVE  /\ NewRefiners(P, c) \in Seq(DOMAIN P)
         /\ c \in Range(queue) => DOMAIN P \ {c} \subseteq Range(NewRefiners(P, c))
         /\ \E x : DOMAIN P \ {x} \subseteq Range(NewRefiners(P, c))
<1>1. ASSUME NEW x
      PROVE  LET A == Ascending(DOMAIN P \ {x})
             IN A \in Seq(DOMAIN P) /\ Range(A) = DOMAIN P \ {x}
  <2>1. DOMAIN P \ {x} \in SUBSET Nat /\ IsFiniteSet(DOMAIN P \ {x})
    BY FS_Subset
  <2>2. /\ Ascending(DOMAIN P \ {x}) \in Seq(DOMAIN P \ {x})
        /\ Range(Ascending(DOMAIN P \ {x})) = DOMAIN P \ {x}
    BY <2>1, AscendingLists
  <2>3. DOMAIN P \ {x} \subseteq DOMAIN P
    OBVIOUS
  <2> QED
    BY <2>2, <2>3, SeqGrows
<1>2. CASE c \in Range(queue)
  <2>1. NewRefiners(P, c) = Ascending(DOMAIN P \ {c})
    BY <1>2 DEF NewRefiners, AllNew
  <2> QED
    BY <1>1, <2>1
<1>3. CASE c \notin Range(queue)
  <2>1. NewRefiners(P, c) = Ascending(DOMAIN P \ {LargestPart(P)})
    BY <1>3 DEF NewRefiners, AllButLargest
  <2> QED
    BY <1>1, <1>3, <2>1
<1> QED
  BY <1>2, <1>3

LEMMA SplitOneStep ==
  ASSUME IInv, SplitOne
  PROVE  IInv'
<1> DEFINE c == Head(pending)
           M == refiner.members
           P == Parts(cells, c, M)
           D == AfterSplit(cells, c, M)
<1>1. /\ pc = "split" /\ pending # <<>> /\ DOMAIN P # {c} /\ cells' = D
      /\ queue' = queue \o NewRefiners(P, c) /\ pending' = Tail(pending)
      /\ result' = "Changed" /\ UNCHANGED <<input, pc, base, start, refiner>>
  BY DEF SplitOne
<1>2. /\ c \in DOMAIN cells /\ Tail(pending) \in Seq(DOMAIN cells)
      /\ Range(pending) = {c} \cup Range(Tail(pending))
      /\ Input /\ Control /\ BaseOK /\ IsPartition(start) /\ result # "Abort"
      /\ CellsOK /\ IsPartition(cells)
      /\ queue \in Seq(DOMAIN cells) /\ Serving(M)
  BY <1>1, NextPending
<1>3. IsSplit(cells, c, M, P, D)
  BY <1>2, SplitFacts
<1>4. IsPartition(D) /\ DOMAIN D = DOMAIN cells \cup DOMAIN P /\ DOMAIN cells \cap DOMAIN P = {c}
  BY <1>3 DEF IsSplit
<1>5. DOMAIN D \subseteq Nat /\ IsFiniteSet(DOMAIN D)
  BY <1>4, PartitionFacts
<1>6. DOMAIN P \in SUBSET Nat /\ IsFiniteSet(DOMAIN P)
  <2> HIDE DEF P, D
  <2>1. DOMAIN P \in SUBSET DOMAIN D
    BY <1>4
  <2> QED
    BY <2>1, <1>5, FS_Subset
<1>7. /\ NewRefiners(P, c) \in Seq(DOMAIN P)
      /\ c \in Range(queue) => DOMAIN P \ {c} \subseteq Range(NewRefiners(P, c))
      /\ \E x : DOMAIN P \ {x} \subseteq Range(NewRefiners(P, c))
  <2> HIDE DEF P
  <2> QED
    BY <1>4, <1>6, NewRefinersFacts
<1> DEFINE R == Range(queue')
<1>8. queue' \in Seq(DOMAIN D) /\ R = Range(queue) \cup Range(NewRefiners(P, c))
  <2> HIDE DEF P, D
  <2>1. queue \in Seq(DOMAIN D) /\ NewRefiners(P, c) \in Seq(DOMAIN D)
    BY <1>2, <1>4, <1>7, SeqGrows
  <2> QED
    BY <2>1, <1>1, RangeOfConcat
<1>9. QueueServes(D, R, M)
  <2> HIDE DEF R
  <2>1. QueueServes(cells, Range(queue), M)
    BY <1>2 DEF Serving
  <2>2. Range(queue) \subseteq R /\ (c \in Range(queue) => DOMAIN P \subseteq R)
    BY <1>7, <1>8
  <2>3. \E x : DOMAIN P \ {x} \subseteq R
    BY <1>7, <1>8
  <2> QED
    BY <2>1, <2>2, <2>3, <1>2, SplitServes
<1>10. pending' \in Seq(DOMAIN D)
  <2> HIDE DEF D
  <2> QED
    BY <1>1, <1>2, <1>4, SeqGrows
<1>11. ASSUME NEW i \in DOMAIN D PROVE i \in Range(pending') \/ Uniform(D[i], M)
  <2> HIDE DEF P, D
  <2>1. CASE i \in DOMAIN P
    BY <2>1, <1>3, UniformSubset DEF IsSplit
  <2>2. CASE i \in DOMAIN cells \ {c}
    <3>1. D[i] = cells[i]
      BY <2>2, <1>3 DEF IsSplit
    <3>2. i \in Range(pending) \/ Uniform(cells[i], M)
      BY <2>2, <1>2 DEF Serving
    <3>3. i \in Range(pending) => i \in Range(pending')
      BY <2>2, <1>1, <1>2
    <3> QED
      BY <3>1, <3>2, <3>3
  <2> QED
    BY <2>1, <2>2, <1>4
<1>12. ASSUME NEW f \in [V -> V], Refines(f, start), Stable(f)
       PROVE  Refines(f, D) /\ Respects(f, M)
  <2>1. M \in SUBSET V /\ Respects(f, M) /\ Refines(f, cells)
    BY <1>2, <1>12 DEF Serving, CellsOK, NothingLost
  <2> QED
    BY <2>1, <1>2, <1>12, SplitRefines
<1>13. DOMAIN start \subseteq DOMAIN D /\ DOMAIN D # DOMAIN start
  <2> HIDE DEF P, D
  <2>1. DOMAIN start \subseteq DOMAIN cells
    BY <1>2 DEF CellsOK
  <2>2. PICK i \in DOMAIN P : i # c
    BY <1>1, <1>4
  <2>3. i \in DOMAIN D /\ i \notin DOMAIN cells
    BY <2>2, <1>4
  <2> QED
    BY <2>1, <2>3, <1>4
<1> HIDE DEF D, P
<1>14. Serving(refiner.members)'
  <2>1. M \subseteq V /\ refiner'.members = M
    BY <1>1, <1>2 DEF Serving
  <2> HIDE DEF M, R
  <2>2. QueueServes(cells, Range(queue), refiner.members)'
    <3>1. QueueServes(cells', R, M) /\ Range(queue') = R /\ input' = input
      BY <1>1, <1>9 DEF R
    <3> QED
      BY <2>1, <3>1, ServesAfterStep
  <2>3. \A d \in DOMAIN cells' : d \in Range(pending') \/ Uniform(cells[d], refiner.members)'
    BY <1>1, <1>11, <2>1 DEF Uniform, EdgesTo
  <2>4. \A f \in [V -> V] : (Refines(f, start) /\ Stable(f) => Respects(f, refiner.members))'
    BY <1>1, <1>12, <2>1 DEF Refines, Stable, Respects, Uniform, EdgesTo
  <2>5. (refiner.members \subseteq V /\ pending \in Seq(DOMAIN cells))'
    BY <1>1, <1>10, <2>1
  <2> QED
    BY <2>2, <2>3, <2>4, <2>5 DEF Serving
<1>15. CellsOK'
  <2>1. \A f \in [V -> V] : (Refines(f, start) /\ Stable(f) => Refines(f, cells))'
    BY <1>1, <1>12 DEF Refines, Stable, Uniform, EdgesTo
  <2> QED
    BY <2>1, <1>1, <1>4, <1>13 DEF CellsOK, NothingLost
<1> QED
  BY <1>1, <1>2, <1>8, <1>14, <1>15 DEF IInv, Input, Control, BaseOK, Equitable, Uniform, EdgesTo

(* The refiner has come to all cells.                                      *)
LEMMA RefinerDoneStep ==
  ASSUME IInv, RefinerDone
  PROVE  IInv'
<1> DEFINE M == refiner.members
<1>1. pc = "split" /\ pending = <<>> /\ UNCHANGED <<input, start, cells>>
  BY DEF RefinerDone
<1>2. /\ Input /\ Control /\ BaseOK /\ IsPartition(start) /\ result # "Abort"
      /\ CellsOK /\ IsPartition(cells)
      /\ queue \in Seq(DOMAIN cells) /\ Serving(M)
  BY <1>1 DEF IInv, Control, CellsOK
<1>3. QueueServes(cells, Range(queue), {})
  <2>1. AllUniform(cells, M)
    BY <1>1, <1>2, RangeOfEmpty DEF Serving, AllUniform
  <2>2. QueueServes(cells, Range(queue), M)
    BY <1>2 DEF Serving
  <2> QED
    BY <2>1, <2>2, <1>2, RefinerServed
<1>4. CASE Discrete(cells) \/ queue = <<>>
  <2>1. Equitable(cells)
    <3>1. CASE Discrete(cells)
      BY <3>1, <1>2, DiscreteEquitable
    <3>2. CASE queue = <<>>
      BY <3>2, <1>2, <1>3, RangeOfEmpty, EmptyQueueEquitable
    <3> QED
      BY <1>4, <3>1, <3>2
  <2>2. /\ pc' = "idle" /\ result' = result
        /\ base' = cells \/ (base # None /\ base' = base)
    BY <1>4 DEF RefinerDone, End
  <2>3. (base # None /\ IsPartition(base) /\ Equitable(base))'
    <3>1. base' # None /\ IsPartition(base') /\ Equitable(base')
      <4>1. cells # None
        BY <1>2, NoneAssumption DEF IsPartition
      <4> QED
        BY <4>1, <2>1, <2>2, <1>2 DEF BaseOK
    <3> QED
      BY <3>1, <1>1 DEF Equitable, Uniform, EdgesTo
  <2>4. Equitable(cells)'
    BY <2>1, <1>1 DEF Equitable, Uniform, EdgesTo
  <2>5. CellsOK'
    BY <1>1, <1>2, <2>2 DEF CellsOK, NothingLost, Stable, Uniform, EdgesTo
  <2> QED
    BY <1>1, <1>2, <2>2, <2>3, <2>4, <2>5 DEF IInv, Input, Control, BaseOK
<1>5. CASE ~Discrete(cells) /\ queue # <<>>
  <2>1. pc' = "refine" /\ UNCHANGED <<base, queue, result>>
    BY <1>5 DEF RefinerDone
  <2>2. QueueServes(cells, Range(queue), {})'
    BY <1>1, <1>3, <2>1
    DEF QueueServes, Supports, UnionOf, AllUniform, Uniform, EdgesTo, Range
  <2>3. CellsOK'
    BY <1>1, <1>2, <2>1 DEF CellsOK, NothingLost, Stable, Uniform, EdgesTo
  <2> QED
    BY <1>1, <1>2, <1>5, <2>1, <2>2, <2>3
    DEF IInv, Input, Control, BaseOK, Equitable, Uniform, EdgesTo
<1> QED
  BY <1>4, <1>5

LEMMA AbortStep ==
  ASSUME IInv, Abort
  PROVE  IInv'
BY DEF IInv, Abort, End, Input, Control, BaseOK, Equitable, Uniform, EdgesTo

(* A child begins with the individualised vertex as the only refiner.      *)
LEMMA CreateChildStep ==
  ASSUME IInv, CreateChild
  PROVE  IInv'
<1>1. /\ Input /\ IsPartition(base) /\ Equitable(base)
  BY DEF IInv, Control, BaseOK, CreateChild
<1>2. PICK c \in DOMAIN base : \E v \in base[c] :
        LET last == c + Cardinality(base[c]) - 1
        IN /\ c # last
           /\ cells' = ChildCells(base, c, v, last)
           /\ queue' = <<last>>
  BY DEF CreateChild, ChildCells
<1> DEFINE last == c + Cardinality(base[c]) - 1
<1>0. PICK v \in base[c] : c # last /\ cells' = ChildCells(base, c, v, last) /\ queue' = <<last>>
  BY <1>2
<1>3. /\ c # last /\ cells' = ChildCells(base, c, v, last) /\ queue' = <<last>>
      /\ start' = cells' /\ pc' = "refine" /\ result' = "Unchanged"
      /\ UNCHANGED <<input, base, refiner, pending>>
  BY <1>0 DEF CreateChild
<1>4. /\ IsPartition(cells') /\ QueueServes(cells', {last}, {}) /\ last \in DOMAIN cells'
  BY <1>1, <1>3, ChildFacts
<1> HIDE DEF last
<1>5. queue' \in Seq(DOMAIN cells') /\ queue' # <<>> /\ Range(queue') = {last}
  BY <1>3, <1>4 DEF Range
<1>6. QueueServes(cells, Range(queue), {})'
  <2>1. QueueServes(cells', Range(queue'), {}) /\ input' = input
    BY <1>3, <1>4, <1>5
  <2> QED
    BY <2>1 DEF QueueServes, Supports, UnionOf, AllUniform, Uniform, EdgesTo, Range
<1>7. CellsOK'
  BY <1>3, <1>4 DEF CellsOK, NothingLost
<1>8. (Input /\ Control /\ BaseOK)'
  BY <1>1, <1>3 DEF IInv, Input, Control, BaseOK, Equitable, Uniform, EdgesTo
<1> QED
  BY <1>3, <1>4, <1>5, <1>6, <1>7, <1>8 DEF IInv

LEMMA NothingHappens ==
  ASSUME IInv, UNCHANGED vars
  PROVE  IInv'
<1>1. UNCHANGED <<input, pc, base, start, cells, queue, refiner, pending, result>>
  BY DEF vars
<1>2. ASSUME pc = "split" PROVE Serving(refiner.members)'
  <2>1. Serving(refiner.members)
    BY <1>2 DEF IInv
  <2>2. QueueServes(cells, Range(queue), refiner.members)'
    <3>1. /\ QueueServes(cells', Range(queue), refiner.members) /\ Range(queue') = Range(queue)
          /\ refiner'.members = refiner.members /\ input' = input
      BY <1>1, <2>1 DEF Serving
    <3> QED
      BY <3>1, ServesAfterStep
  <2>3. \A d \in DOMAIN cells' : d \in Range(pending') \/ Uniform(cells[d], refiner.members)'
    BY <1>1, <2>1 DEF Serving, Uniform, EdgesTo
  <2>4. \A f \in [V -> V] : (Refines(f, start) /\ Stable(f) => Respects(f, refiner.members))'
    BY <1>1, <2>1 DEF Serving, Refines, Stable, Respects, Uniform, EdgesTo
  <2> QED
    BY <1>1, <2>1, <2>2, <2>3, <2>4 DEF Serving
<1>3. ASSUME pc = "refine" PROVE QueueServes(cells, Range(queue), {})'
  <2>1. QueueServes(cells', Range(queue'), {}) /\ input' = input
    BY <1>1, <1>3 DEF IInv
  <2> QED
    BY <2>1 DEF QueueServes, Supports, UnionOf, AllUniform, Uniform, EdgesTo, Range
<1>4. ASSUME CellsOK PROVE CellsOK'
  BY <1>1, <1>4 DEF CellsOK, NothingLost, Stable, Uniform, EdgesTo
<1>5. (Input /\ Control /\ BaseOK)' /\ (pc = "idle" /\ result # "Abort" => Equitable(cells))'
  BY <1>1 DEF IInv, Input, Control, BaseOK, Equitable, Uniform, EdgesTo
<1> QED
  BY <1>1, <1>2, <1>3, <1>4, <1>5 DEF IInv

LEMMA Inductive ==
  ASSUME IInv, [Next]_vars
  PROVE  IInv'
<1>1. CASE TakeRefiner
  BY <1>1, TakeRefinerStep
<1>2. CASE JoinedUniformly
  BY <1>2, JoinedUniformlyStep
<1>3. CASE SplitOne
  BY <1>3, SplitOneStep
<1>4. CASE RefinerDone
  BY <1>4, RefinerDoneStep
<1>5. CASE Abort
  BY <1>5, AbortStep
<1>6. CASE CreateChild
  BY <1>6, CreateChildStep
<1>7. CASE Stop \/ UNCHANGED vars
  BY <1>7, NothingHappens DEF Stop
<1> QED
  BY <1>1, <1>2, <1>3, <1>4, <1>5, <1>6, <1>7 DEF Next

-----------------------------------------------------------------------------
(* For every number of vertices, graph and cells to start from: what holds *)
(* throughout the refinement of a node (refine() and split_cell() of       *)
(* WL_1.hpp).                                                              *)
THEOREM RefinementInvariant == Spec => []IInv
BY Initially, Inductive, PTL DEF Spec

(* A refinement that is not aborted ends with the coarsest equitable       *)
(* partition that refines the one it began with, although of every cell    *)
(* that is split a largest part is left out of the queue.                  *)
THEOREM AlwaysCoarsest == Spec => []CoarsestReached
<1>1. IInv => CoarsestReached
  BY DEF IInv, CellsOK, NothingLost, CoarsestReached, Colourings
<1> QED
  BY <1>1, RefinementInvariant, PTL

(* The answer Unchanged is given exactly when no cell was split, Abort     *)
(* included: the visitors' combination and the loop rely on it.            *)
THEOREM AlwaysTrueResult == Spec => []ResultIsTrue
<1>1. ASSUME IInv PROVE ResultIsTrue
  <2>1. CASE result = "Abort"
    <3>1. cells = None /\ IsPartition(start)
      BY <1>1, <2>1 DEF IInv
    <3>2. start # None
      BY <3>1, NoneAssumption DEF IsPartition
    <3> QED
      BY <2>1, <3>1, <3>2 DEF ResultIsTrue
  <2>2. CASE result # "Abort"
    <3>1. CellsOK /\ result \in {"Unchanged", "Changed"}
      BY <1>1, <2>2 DEF IInv, Control
    <3> QED
      BY <3>1 DEF ResultIsTrue, CellsOK
  <2> QED
    BY <2>1, <2>2
<1> QED
  BY <1>1, RefinementInvariant, PTL
=============================================================================
