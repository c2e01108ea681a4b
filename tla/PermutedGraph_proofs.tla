------------------------ MODULE PermutedGraph_proofs ------------------------
EXTENDS PermutedGraph, FiniteSetTheorems, TLAPS

-----------------------------------------------------------------------------
(* Finite sets that are strictly ordered by a set of pairs.                *)
Lower(S, R, x) == {y \in S : <<y, x>> \in R}
IsOrder(S, R) ==
  /\ \A x \in S : <<x, x>> \notin R
  /\ \A x, y \in S : x # y => <<x, y>> \in R \/ <<y, x>> \in R
  /\ \A x, y, z \in S : <<x, y>> \in R /\ <<y, z>> \in R => <<x, z>> \in R

LEMMA LowerGrows ==
  ASSUME NEW S, IsFiniteSet(S), NEW R, IsOrder(S, R), NEW x \in S, NEW y \in S,
         <<x, y>> \in R
  PROVE  Cardinality(Lower(S, R, x)) < Cardinality(Lower(S, R, y))
<1>1. Lower(S, R, y) \in SUBSET S /\ Lower(S, R, x) \in SUBSET Lower(S, R, y)
  BY DEF IsOrder, Lower
<1>2. x \in Lower(S, R, y) /\ x \notin Lower(S, R, x)
  BY DEF IsOrder, Lower
<1>3. IsFiniteSet(Lower(S, R, y))
  BY <1>1, FS_Subset
<1>4. IsFiniteSet(Lower(S, R, x))
      /\ Cardinality(Lower(S, R, x)) <= Cardinality(Lower(S, R, y))
      /\ Cardinality(Lower(S, R, x)) # Cardinality(Lower(S, R, y))
  BY <1>1, <1>2, <1>3, FS_Subset
<1> QED
  BY <1>3, <1>4, FS_CardinalityType

(* Each rank is that of an element.                                        *)
LEMMA Ranked ==
  ASSUME NEW S, IsFiniteSet(S), NEW R, IsOrder(S, R)
  PROVE  /\ \A x \in S : Cardinality(Lower(S, R, x)) \in 0 .. Cardinality(S) - 1
         /\ \A x, y \in S : Cardinality(Lower(S, R, x)) = Cardinality(Lower(S, R, y)) => x = y
         /\ \A i \in 0 .. Cardinality(S) - 1 : \E x \in S : Cardinality(Lower(S, R, x)) = i
<1> DEFINE m == Cardinality(S)
           f == [x \in S |-> Cardinality(Lower(S, R, x))]
<1>1. m \in Nat
  BY FS_CardinalityType
<1>2. ASSUME NEW x \in S PROVE Cardinality(Lower(S, R, x)) \in 0 .. m - 1
  <2>1. Lower(S, R, x) \in SUBSET S /\ x \notin Lower(S, R, x)
    BY DEF Lower, IsOrder
  <2>2. IsFiniteSet(Lower(S, R, x)) /\ Cardinality(Lower(S, R, x)) <= m
        /\ Cardinality(Lower(S, R, x)) # m
    BY <2>1, FS_Subset
  <2>3. Cardinality(Lower(S, R, x)) \in Nat
    BY <2>2, FS_CardinalityType
  <2> QED
    BY <1>1, <2>2, <2>3
<1>3. ASSUME NEW x \in S, NEW y \in S, Cardinality(Lower(S, R, x)) = Cardinality(Lower(S, R, y))
      PROVE  x = y
  <2>1. Cardinality(Lower(S, R, x)) \in 0 .. m - 1
    BY <1>2
  <2>2. ~(<<x, y>> \in R) /\ ~(<<y, x>> \in R)
    BY <1>1, <1>3, <2>1, LowerGrows
  <2> QED
    BY <2>2 DEF IsOrder
<1>4. f \in Injection(S, 0 .. m - 1)
  <2>1. f \in [S -> 0 .. m - 1]
    BY <1>2
  <2>2. \A x, y \in S : f[x] = f[y] => x = y
    BY <1>3
  <2> HIDE DEF f
  <2> QED
    BY <2>1, <2>2 DEF Injection, IsInjective
<1>5. IsFiniteSet(0 .. m - 1) /\ Cardinality(0 .. m - 1) = m
  BY <1>1, FS_Interval
<1>6. f \in Surjection(S, 0 .. m - 1)
  <2> HIDE DEF f
  <2> QED
    BY <1>4, <1>5, FS_Injection
<1>7. \A i \in 0 .. m - 1 : \E x \in S : f[x] = i
  <2> HIDE DEF f
  <2> QED
    BY <1>6 DEF Surjection
<1> QED
  BY <1>2, <1>3, <1>7

LEMMA LeastElement ==
  ASSUME NEW S \in SUBSET Nat, IsFiniteSet(S), S # {}
  PROVE  Min(S) \in S /\ \A y \in S : Min(S) <= y
<1> DEFINE R == {k \in S \X S : k[1] < k[2]}
<1>1. \A x, y \in S : <<x, y>> \in R <=> x < y
  OBVIOUS
<1>2. \A x \in S : x \in Nat
  OBVIOUS
<1> HIDE DEF R
<1>3. IsOrder(S, R)
  BY <1>1, <1>2 DEF IsOrder
<1>4. Cardinality(S) \in Nat /\ Cardinality(S) # 0
  BY FS_CardinalityType, FS_EmptySet
<1>5. PICK x \in S : Cardinality(Lower(S, R, x)) = 0
  <2>1. 0 \in 0 .. Cardinality(S) - 1
    BY <1>4
  <2>2. \A i \in 0 .. Cardinality(S) - 1 : \E x \in S : Cardinality(Lower(S, R, x)) = i
    <3>1. ASSUME NEW T, IsFiniteSet(T), NEW Q, IsOrder(T, Q)
          PROVE  \A i \in 0 .. Cardinality(T) - 1 : \E x \in T : Cardinality(Lower(T, Q, x)) = i
      BY <3>1, Ranked
    <3> QED
      BY <1>3, <3>1
  <2> QED
    BY <2>1, <2>2
<1>6. Lower(S, R, x) = {}
  <2>1. Lower(S, R, x) \in SUBSET S
    BY DEF Lower
  <2> QED
    BY <1>5, <2>1, FS_Subset, FS_EmptySet
<1>7. ASSUME NEW y \in S PROVE x <= y
  <2>1. <<y, x>> \notin R
    BY <1>6 DEF Lower
  <2>2. ~(y < x)
    BY <1>1, <2>1
  <2>3. x \in Nat /\ y \in Nat
    BY <1>2
  <2> QED
    BY <2>2, <2>3
<1>8. Min(S) = CHOOSE z \in S : \A y \in S : z <= y
  BY DEF Min
<1> QED
  BY <1>7, <1>8

-----------------------------------------------------------------------------
(* Sorting.                                                                *)
Places(s) == 1 .. Len(s)
Comes(less, j, k) == <<j, k>> \in less \/ (<<k, j>> \notin less /\ j < k)

(* A comparison as std::sort requires it, on places 1 to m.                *)
IsWeakOrder(less, m) ==
  /\ \A j, k \in 1 .. m : <<j, k>> \in less => <<k, j>> \notin less
  /\ \A i, j, k \in 1 .. m : <<i, k>> \in less => <<i, j>> \in less \/ <<j, k>> \in less

LEMMA Rearranges ==
  ASSUME NEW S, NEW s \in Seq(S), NEW less, IsWeakOrder(less, Len(s))
  PROVE  \E q \in [Places(s) -> Places(s)] :
           /\ \A i, j \in Places(s) : q[i] = q[j] => i = j
           /\ \A k \in Places(s) : \E i \in Places(s) : q[i] = k
           /\ Arranged(s, less) = [i \in Places(s) |-> s[q[i]]]
           /\ \A i, j \in Places(s) : i < j => <<q[j], q[i]>> \notin less
<1> DEFINE P == Places(s)
           R == {k \in P \X P : Comes(less, k[1], k[2])}
           q == [i \in P |-> CHOOSE k \in P : Cardinality(Before(s, less, k)) = i - 1]
<1>1. Len(s) \in Nat /\ P = 1 .. Len(s) /\ IsFiniteSet(P) /\ Cardinality(P) = Len(s)
  BY FS_Interval DEF Places
<1>2. \A j, k \in P : <<j, k>> \in R <=> Comes(less, j, k)
  OBVIOUS
<1>3. IsOrder(P, R)
  <2> HIDE DEF R
  <2>1. \A j \in P : j \in Nat
    BY <1>1
  <2> HIDE DEF P
  <2>2. ASSUME NEW x \in P, NEW y \in P, NEW z \in P, Comes(less, x, y), Comes(less, y, z)
        PROVE  Comes(less, x, z)
    <3>1. /\ <<x, z>> \in less => <<z, x>> \notin less
          /\ <<x, y>> \in less => <<y, x>> \notin less
          /\ <<y, z>> \in less => <<z, y>> \notin less
          /\ <<z, x>> \in less => <<z, y>> \in less \/ <<y, x>> \in less
          /\ <<y, z>> \in less => <<y, x>> \in less \/ <<x, z>> \in less
          /\ <<x, y>> \in less => <<x, z>> \in less \/ <<z, y>> \in less
      BY <1>1 DEF IsWeakOrder
    <3>2. x \in Nat /\ y \in Nat /\ z \in Nat
      BY <2>1
    <3> QED
      BY <2>2, <3>1, <3>2 DEF Comes
  <2>3. ASSUME NEW x \in P, NEW y \in P, x # y
        PROVE  Comes(less, x, y) \/ Comes(less, y, x)
    <3>1. <<x, y>> \in less => <<y, x>> \notin less
      BY <1>1 DEF IsWeakOrder
    <3>2. x < y \/ y < x
      BY <2>1, <2>3
    <3> QED
      BY <3>1, <3>2 DEF Comes
  <2>4. \A x \in P : ~Comes(less, x, x)
    BY <1>1, <2>1 DEF Comes, IsWeakOrder
  <2> QED
    BY <1>2, <2>2, <2>3, <2>4 DEF IsOrder
<1>4. \A k \in P : Before(s, less, k) = Lower(P, R, k)
  BY <1>1, <1>2 DEF Before, Lower, Comes
<1> HIDE DEF R
<1>5. /\ \A k \in P : Cardinality(Before(s, less, k)) \in 0 .. Len(s) - 1
      /\ \A j, k \in P : Cardinality(Before(s, less, j)) = Cardinality(Before(s, less, k)) => j = k
      /\ \A i \in 0 .. Len(s) - 1 : \E k \in P : Cardinality(Before(s, less, k)) = i
  <2>1. ASSUME NEW T, IsFiniteSet(T), NEW Q, IsOrder(T, Q)
        PROVE  /\ \A x \in T : Cardinality(Lower(T, Q, x)) \in 0 .. Cardinality(T) - 1
               /\ \A x, y \in T : Cardinality(Lower(T, Q, x)) = Cardinality(Lower(T, Q, y)) => x = y
               /\ \A i \in 0 .. Cardinality(T) - 1 : \E x \in T : Cardinality(Lower(T, Q, x)) = i
    BY <2>1, Ranked
  <2> HIDE DEF P, q
  <2>2. /\ \A x \in P : Cardinality(Lower(P, R, x)) \in 0 .. Len(s) - 1
        /\ \A x, y \in P : Cardinality(Lower(P, R, x)) = Cardinality(Lower(P, R, y)) => x = y
        /\ \A i \in 0 .. Len(s) - 1 : \E x \in P : Cardinality(Lower(P, R, x)) = i
    <3>1. IsFiniteSet(P) /\ IsOrder(P, R)
      BY <1>1, <1>3
    <3>2. Cardinality(P) = Len(s)
      BY <1>1
    <3>3. /\ \A x \in P : Cardinality(Lower(P, R, x)) \in 0 .. Cardinality(P) - 1
          /\ \A x, y \in P : Cardinality(Lower(P, R, x)) = Cardinality(Lower(P, R, y)) => x = y
          /\ \A i \in 0 .. Cardinality(P) - 1 : \E x \in P : Cardinality(Lower(P, R, x)) = i
      BY ONLY <2>1, <3>1
    <3> QED
      BY ONLY <3>2, <3>3
  <2>3. \A k \in P : Cardinality(Before(s, less, k)) \in 0 .. Len(s) - 1
    BY <1>4, <2>2
  <2>4. ASSUME NEW j \in P, NEW k \in P,
               Cardinality(Before(s, less, j)) = Cardinality(Before(s, less, k))
        PROVE  j = k
    BY <1>4, <2>2, <2>4
  <2>5. ASSUME NEW i \in 0 .. Len(s) - 1
        PROVE  \E k \in P : Cardinality(Before(s, less, k)) = i
    BY <1>4, <2>2
  <2> QED
    BY <2>3, <2>4, <2>5
<1>6. \A i \in P : q[i] \in P /\ Cardinality(Before(s, less, q[i])) = i - 1
  <2>1. \A i \in P : i - 1 \in 0 .. Len(s) - 1
    BY <1>1
  <2> QED
    BY <1>5, <2>1
<1>7. q \in [P -> P]
  BY <1>6
<1>8. \A k \in P : \E i \in P : q[i] = k
  <2>1. ASSUME NEW k \in P PROVE \E i \in P : q[i] = k
    <3>1. PICK i \in P : Cardinality(Before(s, less, k)) = i - 1
      <4>1. Cardinality(Before(s, less, k)) + 1 \in P
        BY <1>1, <1>5
      <4>2. Cardinality(Before(s, less, k)) \in Nat
        BY <1>5
      <4> QED
        BY <4>1, <4>2
    <3>2. q[i] = k
      BY <1>5, <1>6, <3>1
    <3> QED
      BY <3>2
  <2> QED
    BY <2>1
<1>9. Arranged(s, less) = [i \in P |-> s[q[i]]]
  BY <1>1 DEF Arranged
<1> HIDE DEF q
<1>10. \A i, j \in P : q[i] = q[j] => i = j
  <2>1. \A i \in P : i \in Nat
    BY <1>1
  <2> QED
    BY <1>6, <2>1
<1>11. ASSUME NEW i \in P, NEW j \in P, i < j PROVE <<q[j], q[i]>> \notin less
  <2>1. q[i] \in P /\ q[j] \in P
    BY <1>6
  <2>2. CASE <<q[j], q[i]>> \in R
    <3>1. Cardinality(Lower(P, R, q[j])) < Cardinality(Lower(P, R, q[i]))
      BY <1>1, <1>3, <2>1, <2>2, LowerGrows
    <3>2. j - 1 < i - 1
      BY <1>4, <1>6, <2>1, <3>1
    <3> QED
      BY <1>1, <1>11, <3>2
  <2>3. CASE <<q[j], q[i]>> \notin R
    BY <1>2, <2>1, <2>3 DEF Comes
  <2> QED
    BY <2>2, <2>3
<1> QED
  BY <1>7, <1>8, <1>9, <1>10, <1>11

(* The places where an element of T is.                                    *)
At(s, T) == {i \in Places(s) : s[i] \in T}

LEMMA PlacesAreFinite ==
  ASSUME NEW S, NEW s \in Seq(S), NEW T
  PROVE  /\ Len(s) \in Nat /\ \A i \in Places(s) : i \in Nat /\ s[i] \in S
         /\ IsFiniteSet(Places(s)) /\ IsFiniteSet(At(s, T))
         /\ Cardinality(At(s, T)) \in Nat
<1>1. Len(s) \in Nat /\ IsFiniteSet(Places(s))
  BY FS_Interval DEF Places
<1>2. At(s, T) \in SUBSET Places(s)
  BY DEF At
<1>3. IsFiniteSet(At(s, T))
  BY <1>1, <1>2, FS_Subset
<1>4. \A i \in Places(s) : i \in Nat /\ s[i] \in S
  BY <1>1 DEF Places
<1> QED
  BY <1>1, <1>3, <1>4, FS_CardinalityType

LEMMA ElementsOf ==
  ASSUME NEW S, NEW s \in Seq(S)
  PROVE  Len(s) \in Nat /\ \A i \in Places(s) : i \in Nat /\ s[i] \in S
  BY PlacesAreFinite

(* A sorted list has the elements of the list, each as often.              *)
LEMMA ArrangedCounts ==
  ASSUME NEW S, NEW s \in Seq(S), NEW less, IsWeakOrder(less, Len(s))
  PROVE  /\ Arranged(s, less) \in Seq(S)
         /\ Len(Arranged(s, less)) = Len(s)
         /\ \A T : Cardinality(At(Arranged(s, less), T)) = Cardinality(At(s, T))
<1> DEFINE t == Arranged(s, less)
<1>1. PICK q \in [Places(s) -> Places(s)] :
           /\ \A i, j \in Places(s) : q[i] = q[j] => i = j
           /\ \A k \in Places(s) : \E i \in Places(s) : q[i] = k
           /\ t = [i \in Places(s) |-> s[q[i]]]
  BY Rearranges
<1> HIDE DEF t
<1>2. Len(s) \in Nat /\ \A i \in Places(s) : s[i] \in S
  BY ElementsOf
<1>3. t \in Seq(S) /\ Len(t) = Len(s)
  <2>1. t \in [1 .. Len(s) -> S]
    BY <1>1, <1>2 DEF Places
  <2> QED
    BY <1>2, <2>1
<1>4. ASSUME NEW T PROVE Cardinality(At(t, T)) = Cardinality(At(s, T))
  <2> DEFINE f == [i \in At(t, T) |-> q[i]]
  <2>1. Places(t) = Places(s)
    BY <1>3 DEF Places
  <2>2. \A i \in At(t, T) : i \in Places(s) /\ q[i] \in At(s, T)
    BY <1>1, <2>1 DEF At
  <2>3. f \in [At(t, T) -> At(s, T)]
    BY <2>2
  <2>4. ASSUME NEW i \in At(t, T), NEW j \in At(t, T), f[i] = f[j] PROVE i = j
    BY <1>1, <2>2, <2>4
  <2>5. ASSUME NEW k \in At(s, T) PROVE \E i \in At(t, T) : f[i] = k
    <3>1. PICK i \in Places(s) : q[i] = k
      BY <1>1 DEF At
    <3>2. i \in At(t, T)
      BY <1>1, <2>1, <3>1 DEF At
    <3> QED
      BY <3>1, <3>2
  <2> HIDE DEF f
  <2>6. f \in Bijection(At(t, T), At(s, T))
    BY <2>3, <2>4, <2>5 DEF Bijection, Injection, Surjection, IsInjective
  <2>7. IsFiniteSet(At(t, T))
    BY <1>3, PlacesAreFinite
  <2>8. ExistsBijection(At(t, T), At(s, T))
    BY <2>6 DEF ExistsBijection
  <2> QED
    BY <2>7, <2>8, FS_Bijection
<1> QED
  BY <1>3, <1>4 DEF t

-----------------------------------------------------------------------------
(* Lists of edges that are sorted by the index where they lead, and then by*)
(* their labels.                                                           *)
IsSorted(a, f) == \A i, j \in Places(a) : i < j => ~EdgeLess(f, a[j], a[i])
EdgesTo(f, x, l) == {e \in Edges : f[e.to] = x /\ e.label = l}
SameKeys(a, f, b, g) ==
  \A x \in Indices, l \in Nat :
    Cardinality(At(a, EdgesTo(f, x, l))) = Cardinality(At(b, EdgesTo(g, x, l)))
SameAt(a, f, b, g, i) == f[a[i].to] = g[b[i].to] /\ a[i].label = b[i].label

LEMMA IndicesAreNatural == \A v \in Indices : v \in Nat
  BY WidthAssumption DEF Indices

LEMMA EdgeAt ==
  ASSUME NEW a \in Seq(Edges), NEW f \in [Indices -> Indices], NEW i \in Places(a)
  PROVE  /\ a[i] \in Edges /\ a[i].to \in Indices
         /\ f[a[i].to] \in Indices /\ f[a[i].to] \in Nat /\ a[i].label \in Nat
<1>1. a[i] \in Edges
  BY ElementsOf
<1> QED
  BY <1>1, IndicesAreNatural DEF Edges

(* The first list cannot come first where the two differ.                  *)
LEMMA NoFirstDifference ==
  ASSUME NEW a \in Seq(Edges), NEW f \in [Indices -> Indices], IsSorted(a, f),
         NEW b \in Seq(Edges), NEW g \in [Indices -> Indices], IsSorted(b, g),
         SameKeys(a, f, b, g),
         NEW i \in Places(a),
         \A j \in Places(a) : j < i => j \in Places(b) /\ SameAt(a, f, b, g, j)
  PROVE  i \in Places(b) /\ ~(\/ f[a[i].to] < g[b[i].to]
                              \/ f[a[i].to] = g[b[i].to] /\ a[i].label < b[i].label)
<1> DEFINE x == f[a[i].to]
           l == a[i].label
           A == At(a, EdgesTo(f, x, l))
           B == At(b, EdgesTo(g, x, l))
<1>1. a[i] \in Edges /\ x \in Indices /\ l \in Nat
  BY EdgeAt
<1>2. IsFiniteSet(A) /\ IsFiniteSet(B) /\ Cardinality(A) = Cardinality(B)
  BY <1>1, PlacesAreFinite DEF SameKeys
<1>3. Len(a) \in Nat /\ Len(b) \in Nat /\ i \in 1 .. Len(a)
  BY ElementsOf DEF Places
<1> SUFFICES ASSUME \/ i \notin Places(b)
                    \/ i \in Places(b) /\ (\/ x < g[b[i].to]
                                           \/ x = g[b[i].to] /\ l < b[i].label)
             PROVE  FALSE
  OBVIOUS
<1>4. ASSUME NEW j \in B PROVE j < i
  <2>1. j \in Places(b) /\ b[j] \in Edges /\ g[b[j].to] = x /\ b[j].label = l
    BY DEF At, EdgesTo
  <2>2. j \in 1 .. Len(b)
    BY <2>1 DEF Places
  <2>3. CASE i \notin Places(b)
    BY <1>3, <2>2, <2>3 DEF Places
  <2>4. CASE i \in Places(b) /\ (\/ x < g[b[i].to]
                                 \/ x = g[b[i].to] /\ l < b[i].label)
    <3>1. b[i] \in Edges /\ g[b[i].to] \in Nat /\ x \in Nat /\ b[i].label \in Nat
      BY <1>1, <2>4, EdgeAt, IndicesAreNatural
    <3>2. i # j
      BY <1>1, <2>1, <2>4, <3>1
    <3>3. EdgeLess(g, b[j], b[i])
      BY <1>1, <2>1, <2>4, <3>1 DEF EdgeLess, CompareLabels
    <3>4. ~(i < j)
      BY <2>1, <2>4, <3>3 DEF IsSorted
    <3> QED
      BY <1>3, <2>2, <3>2, <3>4
  <2> QED
    BY <2>3, <2>4
<1>5. B \in SUBSET A
  <2>1. ASSUME NEW j \in B PROVE j \in A
    <3>1. j < i /\ j \in Places(b) /\ g[b[j].to] = x /\ b[j].label = l
      BY <1>4 DEF At, EdgesTo
    <3>2. j \in Places(a)
      BY <1>3, <3>1 DEF Places
    <3>3. f[a[j].to] = x /\ a[j].label = l /\ a[j] \in Edges
      BY <3>1, <3>2, EdgeAt DEF SameAt
    <3> QED
      BY <3>2, <3>3 DEF At, EdgesTo
  <2> QED
    BY <2>1
<1>6. i \in A
  BY <1>1 DEF At, EdgesTo
<1>7. i \notin B
  BY <1>3, <1>4
<1> QED
  <2>1. B # A
    BY <1>6, <1>7
  <2> HIDE DEF A, B
  <2> QED
    BY <1>2, <1>5, <2>1, FS_Subset

LEMMA SortedAlike ==
  ASSUME NEW a \in Seq(Edges), NEW f \in [Indices -> Indices], IsSorted(a, f),
         NEW b \in Seq(Edges), NEW g \in [Indices -> Indices], IsSorted(b, g),
         SameKeys(a, f, b, g)
  PROVE  Len(a) = Len(b) /\ \A i \in Places(a) : SameAt(a, f, b, g, i)
<1>1. SameKeys(b, g, a, f)
  BY DEF SameKeys
<1> DEFINE D == {i \in Nat : \/ i \in Places(a) /\ ~(i \in Places(b) /\ SameAt(a, f, b, g, i))
                             \/ i \in Places(b) /\ ~(i \in Places(a) /\ SameAt(a, f, b, g, i))}
<1>2. Len(a) \in Nat /\ Len(b) \in Nat /\ (\A i \in Places(a) \cup Places(b) : i \in Nat)
      /\ IsFiniteSet(Places(a)) /\ IsFiniteSet(Places(b))
  BY PlacesAreFinite
<1>3. ASSUME D # {} PROVE FALSE
  <2>1. D \in SUBSET Nat /\ D \in SUBSET (Places(a) \cup Places(b))
    OBVIOUS
  <2>2. IsFiniteSet(D)
    <3> HIDE DEF D
    <3> QED
      BY <1>2, <2>1, FS_Union, FS_Subset
  <2>3. PICK i \in D : \A j \in D : i <= j
    <3> HIDE DEF D
    <3> QED
      BY <1>3, <2>1, <2>2, LeastElement
  <2>4. ASSUME NEW j \in Nat, j < i, j \in Places(a) \cup Places(b)
        PROVE  j \in Places(a) /\ j \in Places(b) /\ SameAt(a, f, b, g, j) /\ SameAt(b, g, a, f, j)
    <3>1. j \notin D
      BY <2>3, <2>4
    <3> QED
      BY <2>4, <3>1 DEF SameAt
  <2>5. ASSUME i \in Places(a)
        PROVE  i \in Places(b) /\ ~(\/ f[a[i].to] < g[b[i].to]
                                    \/ f[a[i].to] = g[b[i].to] /\ a[i].label < b[i].label)
    <3>1. \A j \in Places(a) : j < i => j \in Places(b) /\ SameAt(a, f, b, g, j)
      BY <1>2, <2>4
    <3> QED
      BY <2>5, <3>1, NoFirstDifference
  <2>6. ASSUME i \in Places(b)
        PROVE  i \in Places(a) /\ ~(\/ g[b[i].to] < f[a[i].to]
                                    \/ g[b[i].to] = f[a[i].to] /\ b[i].label < a[i].label)
    <3>1. \A j \in Places(b) : j < i => j \in Places(a) /\ SameAt(b, g, a, f, j)
      BY <1>2, <2>4
    <3> QED
      BY <1>1, <2>6, <3>1, NoFirstDifference
  <2>7. i \in Places(a) /\ i \in Places(b) /\ ~SameAt(a, f, b, g, i)
    BY <2>5, <2>6
  <2>8. /\ f[a[i].to] \in Nat /\ g[b[i].to] \in Nat
        /\ a[i].label \in Nat /\ b[i].label \in Nat
    BY <2>7, EdgeAt
  <2> QED
    BY <2>5, <2>6, <2>7, <2>8 DEF SameAt
<1>4. \A i \in Nat : i \in Places(a) <=> i \in Places(b)
  BY <1>3
<1>5. \A i \in Places(a) : SameAt(a, f, b, g, i)
  BY <1>2, <1>3
<1>6. Len(a) = Len(b)
  <2>1. Len(a) \in Places(a) \/ Len(a) = 0
    BY <1>2 DEF Places
  <2>2. Len(b) \in Places(b) \/ Len(b) = 0
    BY <1>2 DEF Places
  <2>3. Len(a) <= Len(b)
    BY <1>2, <1>4, <2>1 DEF Places
  <2>4. Len(b) <= Len(a)
    BY <1>2, <1>4, <2>2 DEF Places
  <2> QED
    BY <1>2, <2>3, <2>4
<1> QED
  BY <1>5, <1>6

-----------------------------------------------------------------------------
(* Leaves as permutations.                                                 *)
LEMMA InverseFacts ==
  ASSUME NEW p \in Orders
  PROVE  /\ p \in [Indices -> Indices] /\ InverseOf(p) \in [Indices -> Indices]
         /\ \A i \in Indices : InverseOf(p)[p[i]] = i
         /\ \A v \in Indices : p[InverseOf(p)[v]] = v
         /\ \A i, j \in Indices : p[i] = p[j] => i = j
         /\ \A u, v \in Indices : InverseOf(p)[u] = InverseOf(p)[v] => u = v
<1>1. p \in [Indices -> Indices] /\ \A v \in Indices : \E i \in Indices : p[i] = v
  BY DEF Orders
<1>2. IsFiniteSet(Indices)
  BY WidthAssumption, FS_Interval DEF Indices
<1>3. p \in Surjection(Indices, Indices)
  BY <1>1 DEF Surjection
<1>4. p \in Injection(Indices, Indices)
  BY <1>2, <1>3, FS_Surjection
<1>5. \A i, j \in Indices : p[i] = p[j] => i = j
  BY <1>4 DEF Injection, IsInjective
<1>6. ASSUME NEW v \in Indices
      PROVE  InverseOf(p)[v] \in Indices /\ p[InverseOf(p)[v]] = v
  BY <1>1 DEF InverseOf
<1>7. InverseOf(p) \in [Indices -> Indices]
  BY <1>6 DEF InverseOf
<1>8. \A i \in Indices : InverseOf(p)[p[i]] = i
  BY <1>1, <1>5, <1>6
<1> QED
  BY <1>1, <1>5, <1>6, <1>7, <1>8

(* The comparison of edges is one that std::sort can use.                  *)
LEMMA EdgesOrdered ==
  ASSUME NEW f \in [Indices -> Indices], NEW s \in Seq(Edges)
  PROVE  IsWeakOrder({k \in (1 .. Len(s)) \X (1 .. Len(s)) : EdgeLess(f, s[k[1]], s[k[2]])},
                     Len(s))
<1> DEFINE less == {k \in (1 .. Len(s)) \X (1 .. Len(s)) : EdgeLess(f, s[k[1]], s[k[2]])}
<1>1. \A j, k \in 1 .. Len(s) : <<j, k>> \in less <=> EdgeLess(f, s[j], s[k])
  OBVIOUS
<1>2. \A k \in 1 .. Len(s) : f[s[k].to] \in Nat /\ s[k].label \in Nat
  BY EdgeAt DEF Places
<1> HIDE DEF less
<1>3. ASSUME NEW j \in 1 .. Len(s), NEW k \in 1 .. Len(s), <<j, k>> \in less
      PROVE  <<k, j>> \notin less
  <2>1. /\ f[s[j].to] \in Nat /\ s[j].label \in Nat
        /\ f[s[k].to] \in Nat /\ s[k].label \in Nat
    BY <1>2
  <2>2. EdgeLess(f, s[j], s[k])
    BY <1>1, <1>3
  <2>3. ~EdgeLess(f, s[k], s[j])
    BY <2>1, <2>2 DEF EdgeLess, CompareLabels
  <2> QED
    BY <1>1, <2>3
<1>4. ASSUME NEW i \in 1 .. Len(s), NEW j \in 1 .. Len(s), NEW k \in 1 .. Len(s),
             <<i, k>> \in less
      PROVE  <<i, j>> \in less \/ <<j, k>> \in less
  <2>1. /\ f[s[i].to] \in Nat /\ s[i].label \in Nat
        /\ f[s[j].to] \in Nat /\ s[j].label \in Nat
        /\ f[s[k].to] \in Nat /\ s[k].label \in Nat
    BY <1>2
  <2>2. EdgeLess(f, s[i], s[k])
    BY <1>1, <1>4
  <2>3. EdgeLess(f, s[i], s[j]) \/ EdgeLess(f, s[j], s[k])
    BY <2>1, <2>2 DEF EdgeLess, CompareLabels
  <2> QED
    BY <1>1, <2>3
<1>5. IsWeakOrder(less, Len(s))
  BY <1>3, <1>4 DEF IsWeakOrder
<1> QED
  BY <1>5 DEF less

LEMMA SortedByFacts ==
  ASSUME NEW p \in Orders, NEW s \in Seq(Edges)
  PROVE  /\ SortedBy(p, s) \in Seq(Edges) /\ Len(SortedBy(p, s)) = Len(s)
         /\ IsSorted(SortedBy(p, s), InverseOf(p))
         /\ \A T : Cardinality(At(SortedBy(p, s), T)) = Cardinality(At(s, T))
<1> DEFINE less == {k \in (1 .. Len(s)) \X (1 .. Len(s)) :
                      EdgeLess(InverseOf(p), s[k[1]], s[k[2]])}
           t == Arranged(s, less)
<1>1. IsWeakOrder(less, Len(s))
  BY InverseFacts, EdgesOrdered
<1>2. \A j, k \in Places(s) : EdgeLess(InverseOf(p), s[j], s[k]) => <<j, k>> \in less
  BY DEF Places
<1>3. SortedBy(p, s) = t
  BY DEF SortedBy
<1> HIDE DEF less
<1>4. /\ t \in Seq(Edges) /\ Len(t) = Len(s)
      /\ \A T : Cardinality(At(t, T)) = Cardinality(At(s, T))
  BY <1>1, ArrangedCounts
<1>5. PICK q \in [Places(s) -> Places(s)] :
           /\ t = [i \in Places(s) |-> s[q[i]]]
           /\ \A i, j \in Places(s) : i < j => <<q[j], q[i]>> \notin less
  BY <1>1, Rearranges
<1> HIDE DEF t
<1>6. IsSorted(t, InverseOf(p))
  <2>1. Places(t) = Places(s)
    BY <1>4 DEF Places
  <2> QED
    BY <1>2, <1>5, <2>1 DEF IsSorted
<1> QED
  BY <1>3, <1>4, <1>6

(* To sort a list that was sorted for another leaf is to sort the list.    *)
LEMMA SortedOnce ==
  ASSUME NEW p \in Orders, NEW q \in Orders, NEW s \in Seq(Edges)
  PROVE  SortedBy(p, SortedBy(q, s)) = SortedBy(p, s)
<1> DEFINE a == SortedBy(p, SortedBy(q, s))
           b == SortedBy(p, s)
           f == InverseOf(p)
<1>1. /\ SortedBy(q, s) \in Seq(Edges)
      /\ \A T : Cardinality(At(SortedBy(q, s), T)) = Cardinality(At(s, T))
  BY SortedByFacts
<1>2. a \in Seq(Edges) /\ IsSorted(a, f) /\ b \in Seq(Edges) /\ IsSorted(b, f)
  BY <1>1, SortedByFacts
<1>3. \A T : Cardinality(At(a, T)) = Cardinality(At(b, T))
  BY <1>1, SortedByFacts
<1>4. f \in [Indices -> Indices] /\ \A u, v \in Indices : f[u] = f[v] => u = v
  BY InverseFacts
<1> HIDE DEF a, b, f
<1>5. SameKeys(a, f, b, f)
  BY <1>3 DEF SameKeys
<1>6. Len(a) = Len(b) /\ \A i \in Places(a) : SameAt(a, f, b, f, i)
  BY <1>2, <1>4, <1>5, SortedAlike
<1>7. ASSUME NEW i \in Places(a) PROVE a[i] = b[i]
  <2>1. i \in Places(b)
    BY <1>6 DEF Places
  <2>2. a[i] \in Edges /\ b[i] \in Edges
    BY <1>2, <2>1, ElementsOf
  <2>3. a[i].to = b[i].to /\ a[i].label = b[i].label
    BY <1>4, <1>6, <2>2 DEF SameAt, Edges
  <2> QED
    BY <2>2, <2>3 DEF Edges
<1>8. a = b
  BY <1>2, <1>6, <1>7 DEF Places
<1> QED
  BY <1>8 DEF a, b

-----------------------------------------------------------------------------
(* Views.                                                                  *)
LEMMA GraphFacts ==
  ASSUME graph \in Graphs
  PROVE  \A v \in Indices : /\ graph[v].label \in Nat /\ graph[v].out_edges \in Seq(Edges)
                            /\ Len(graph[v].out_edges) < SizeTypeSize
  BY GraphsAssumption DEF IsGraph

LEMMA ViewFacts ==
  ASSUME graph \in Graphs, NEW p \in Orders
  PROVE  /\ View(p) \in Views /\ View(p).leaf = p
         /\ \A i \in Indices : /\ View(p).repr[i].v = p[i]
                               /\ View(p).repr[i].out_edges = SortedBy(p, graph[p[i]].out_edges)
<1>1. \A i \in Indices : p[i] \in Indices /\ SortedBy(p, graph[p[i]].out_edges) \in Seq(Edges)
  BY GraphFacts, InverseFacts, SortedByFacts
<1> QED
  BY <1>1 DEF View, Views

LEMMA RepermutedIsNew ==
  ASSUME graph \in Graphs, NEW p \in Orders, NEW q \in Orders
  PROVE  Repermute(View(q), p) = View(p)
<1> DEFINE at(i) == InverseOf(q)[p[i]]
<1>1. \A i \in Indices : p[i] \in Indices /\ at(i) \in Indices /\ q[at(i)] = p[i]
  BY InverseFacts
<1>2. ASSUME NEW i \in Indices
      PROVE  /\ Moved(View(q), p)[i].v = p[i]
             /\ Moved(View(q), p)[i].out_edges = SortedBy(q, graph[p[i]].out_edges)
  BY <1>1, <1>2 DEF Moved, View
<1>3. ASSUME NEW i \in Indices
      PROVE  SortedBy(p, Moved(View(q), p)[i].out_edges) = SortedBy(p, graph[p[i]].out_edges)
  <2>1. SortedBy(p, SortedBy(q, graph[p[i]].out_edges)) = SortedBy(p, graph[p[i]].out_edges)
    BY <1>1, GraphFacts, SortedOnce
  <2> DEFINE a == Moved(View(q), p)[i].out_edges
  <2>2. a = SortedBy(q, graph[p[i]].out_edges)
    BY <1>2
  <2> HIDE DEF a
  <2>3. SortedBy(p, a) = SortedBy(p, graph[p[i]].out_edges)
    BY <2>1, <2>2
  <2> QED
    BY <2>3 DEF a
<1> QED
  BY <1>2, <1>3 DEF Repermute, View

-----------------------------------------------------------------------------
(* The first difference, of two lists and of three.                        *)
Opposite(a, b) == (a < 0 <=> b > 0) /\ (a = 0 <=> b = 0)
Chained(a, b, c) ==
  /\ a = 0 /\ b = 0 => c = 0
  /\ a <= 0 /\ b <= 0 /\ (a # 0 \/ b # 0) => c < 0
IsFirst(f, i) == i \in DOMAIN f /\ f[i] # 0 /\ \A j \in DOMAIN f : j < i => f[j] = 0

LEMMA FirstFacts ==
  ASSUME NEW D \in SUBSET Nat, IsFiniteSet(D), NEW f \in [D -> Int]
  PROVE  /\ FirstDifference(f) \in Int
         /\ FirstDifference(f) = 0 <=> \A i \in D : f[i] = 0
         /\ FirstDifference(f) # 0 => \E i \in D : IsFirst(f, i) /\ FirstDifference(f) = f[i]
         /\ \A i \in D : IsFirst(f, i) => FirstDifference(f) = f[i]
<1> DEFINE different == {i \in DOMAIN f : f[i] # 0}
<1>1. different \in SUBSET D /\ different \in SUBSET Nat /\ DOMAIN f = D
  OBVIOUS
<1>2. IsFiniteSet(different)
  BY <1>1, FS_Subset
<1>3. CASE different = {}
  <2>1. FirstDifference(f) = 0
    BY <1>3 DEF FirstDifference
  <2>2. \A i \in D : f[i] = 0
    BY <1>3
  <2> QED
    BY <2>1, <2>2 DEF IsFirst
<1>4. CASE different # {}
  <2> DEFINE m == Min(different)
  <2>1. FirstDifference(f) = f[m]
    BY <1>4 DEF FirstDifference
  <2> HIDE DEF different
  <2>2. m \in different /\ \A j \in different : m <= j
    BY <1>1, <1>2, <1>4, LeastElement
  <2> HIDE DEF m
  <2>3. m \in D /\ m \in Nat /\ f[m] # 0 /\ f[m] \in Int
    BY <1>1, <2>2 DEF different
  <2>4. ASSUME NEW j \in D, j < m PROVE f[j] = 0
    <3>1. j \in Nat
      BY <1>1
    <3>2. j \notin different
      BY <2>2, <2>3, <2>4, <3>1
    <3> QED
      BY <3>2 DEF different
  <2>5. IsFirst(f, m)
    BY <2>3, <2>4 DEF IsFirst
  <2>6. ASSUME NEW i \in D, IsFirst(f, i) PROVE i = m
    <3>1. i \in Nat /\ ~(i < m) /\ ~(m < i)
      BY <1>1, <2>3, <2>5, <2>6 DEF IsFirst
    <3> QED
      BY <2>3, <3>1
  <2> QED
    BY <2>1, <2>3, <2>5, <2>6
<1> QED
  BY <1>3, <1>4

LEMMA FirstOpposite ==
  ASSUME NEW D \in SUBSET Nat, IsFiniteSet(D), NEW f \in [D -> Int], NEW g \in [D -> Int],
         \A i \in D : Opposite(f[i], g[i])
  PROVE  Opposite(FirstDifference(f), FirstDifference(g))
<1>1. CASE \A i \in D : f[i] = 0
  <2>1. \A i \in D : g[i] = 0
    BY <1>1 DEF Opposite
  <2>2. FirstDifference(f) = 0 /\ FirstDifference(g) = 0
    BY <1>1, <2>1, FirstFacts
  <2> QED
    BY <2>2 DEF Opposite
<1>2. CASE ~(\A i \in D : f[i] = 0)
  <2>1. PICK i \in D : IsFirst(f, i) /\ FirstDifference(f) = f[i]
    BY <1>2, FirstFacts
  <2>2. IsFirst(g, i)
    BY <2>1 DEF IsFirst, Opposite
  <2>3. FirstDifference(g) = g[i]
    BY <2>2, FirstFacts
  <2> QED
    BY <2>1, <2>3
<1> QED
  BY <1>1, <1>2

LEMMA FirstChained ==
  ASSUME NEW D \in SUBSET Nat, IsFiniteSet(D), NEW f \in [D -> Int], NEW g \in [D -> Int],
         NEW h \in [D -> Int], \A i \in D : Chained(f[i], g[i], h[i])
  PROVE  Chained(FirstDifference(f), FirstDifference(g), FirstDifference(h))
<1>1. ASSUME FirstDifference(f) = 0, FirstDifference(g) = 0
      PROVE  FirstDifference(h) = 0
  <2>1. \A i \in D : f[i] = 0 /\ g[i] = 0
    BY <1>1, FirstFacts
  <2>2. \A i \in D : h[i] = 0
    BY <2>1 DEF Chained
  <2> QED
    BY <2>2, FirstFacts
<1>2. ASSUME FirstDifference(f) <= 0, FirstDifference(g) <= 0,
             FirstDifference(f) # 0 \/ FirstDifference(g) # 0
      PROVE  FirstDifference(h) < 0
  <2> DEFINE E == {i \in D : f[i] # 0 \/ g[i] # 0}
  <2>1. E \in SUBSET D /\ E \in SUBSET Nat
    OBVIOUS
  <2>2. E # {}
    BY <1>2, FirstFacts
  <2>3. IsFiniteSet(E)
    BY <2>1, FS_Subset
  <2>4. PICK i \in E : \A j \in E : i <= j
    <3> HIDE DEF E
    <3> QED
      BY <2>1, <2>2, <2>3, LeastElement
  <2>5. ASSUME NEW j \in D, j < i PROVE f[j] = 0 /\ g[j] = 0
    <3>1. j \in Nat /\ i \in Nat
      BY <2>1, <2>4
    <3>2. j \notin E
      BY <2>4, <2>5, <3>1
    <3> QED
      BY <3>2
  <2>6. f[i] <= 0
    <3>1. CASE f[i] = 0
      BY <3>1
    <3>2. CASE f[i] # 0
      <4>1. IsFirst(f, i)
        BY <2>4, <2>5, <3>2 DEF IsFirst
      <4> QED
        BY <1>2, <2>4, <4>1, FirstFacts
    <3> QED
      BY <3>1, <3>2
  <2>7. g[i] <= 0
    <3>1. CASE g[i] = 0
      BY <3>1
    <3>2. CASE g[i] # 0
      <4>1. IsFirst(g, i)
        BY <2>4, <2>5, <3>2 DEF IsFirst
      <4> QED
        BY <1>2, <2>4, <4>1, FirstFacts
    <3> QED
      BY <3>1, <3>2
  <2>8. h[i] < 0
    BY <2>4, <2>6, <2>7 DEF Chained
  <2>9. \A j \in D : j < i => h[j] = 0
    BY <2>5 DEF Chained
  <2>10. IsFirst(h, i)
    BY <2>4, <2>8, <2>9 DEF IsFirst
  <2> QED
    BY <2>4, <2>8, <2>10, FirstFacts
<1> QED
  BY <1>1, <1>2 DEF Chained

-----------------------------------------------------------------------------
(* The comparison of the views of two leaves.                              *)
Out(p, i) == SortedBy(p, graph[p[i]].out_edges)
OutDifferences(p, q, i) ==
  [j \in 1 .. Len(Out(p, i)) |-> EdgeDifference(View(p), View(q), Out(p, i)[j], Out(q, i)[j])]
EntryDifferences(p, q) == [i \in Indices |-> EntryDifference(View(p), View(q), i)]
SameEntry(p, q, i) ==
  /\ Len(Out(p, i)) = Len(Out(q, i))
  /\ \A j \in Places(Out(p, i)) : SameAt(Out(p, i), InverseOf(p), Out(q, i), InverseOf(q), j)

LEMMA OutFacts ==
  ASSUME graph \in Graphs, NEW p \in Orders, NEW i \in Indices
  PROVE  /\ Out(p, i) \in Seq(Edges) /\ Len(Out(p, i)) \in Nat
         /\ Len(Out(p, i)) < SizeTypeSize
         /\ Len(Out(p, i)) = Len(graph[p[i]].out_edges)
         /\ IsSorted(Out(p, i), InverseOf(p))
         /\ \A T : Cardinality(At(Out(p, i), T)) = Cardinality(At(graph[p[i]].out_edges, T))
<1>1. p[i] \in Indices
  BY InverseFacts
<1>2. graph[p[i]].out_edges \in Seq(Edges) /\ Len(graph[p[i]].out_edges) < SizeTypeSize
  BY <1>1, GraphFacts
<1> DEFINE s == graph[p[i]].out_edges
<1> HIDE DEF s
<1>3. /\ SortedBy(p, s) \in Seq(Edges) /\ Len(SortedBy(p, s)) = Len(s)
      /\ IsSorted(SortedBy(p, s), InverseOf(p))
      /\ \A T : Cardinality(At(SortedBy(p, s), T)) = Cardinality(At(s, T))
  BY <1>2, SortedByFacts DEF s
<1> QED
  BY <1>2, <1>3, ElementsOf DEF Out, s

LEMMA DifferenceFacts ==
  ASSUME NEW a \in Nat, NEW b \in Nat, a < SizeTypeSize, b < SizeTypeSize
  PROVE  /\ Difference(a, b) \in Int
         /\ Difference(a, b) = 0 <=> a = b
         /\ ~DifferenceWraps => Difference(a, b) = a - b
<1>1. SizeTypeSize \in Nat /\ SizeTypeSize > 0
  BY WidthAssumption
<1>2. ASSUME NEW c \in Int, c > -SizeTypeSize, c < SizeTypeSize
      PROVE  c % SizeTypeSize \in Int /\ (c % SizeTypeSize = 0 <=> c = 0)
  BY <1>1, <1>2
<1>3. /\ a - b \in Int /\ a - b > -SizeTypeSize /\ a - b < SizeTypeSize
      /\ a - b = 0 <=> a = b
  BY <1>1
<1>4. (a - b) % SizeTypeSize \in Int /\ ((a - b) % SizeTypeSize = 0 <=> a - b = 0)
  BY <1>2, <1>3
<1> QED
  BY <1>3, <1>4 DEF Difference

LEMMA EdgeDifferenceFacts ==
  ASSUME graph \in Graphs, NEW p \in Orders, NEW q \in Orders, NEW d \in Edges, NEW e \in Edges
  PROVE  /\ EdgeDifference(View(p), View(q), d, e) \in Int
         /\ EdgeDifference(View(p), View(q), d, e) = 0 <=>
              InverseOf(p)[d.to] = InverseOf(q)[e.to] /\ d.label = e.label
         /\ ~DifferenceWraps =>
              EdgeDifference(View(p), View(q), d, e) =
                IF InverseOf(p)[d.to] # InverseOf(q)[e.to]
                THEN InverseOf(p)[d.to] - InverseOf(q)[e.to] ELSE d.label - e.label
<1> DEFINE a == InverseOf(p)[d.to]
           b == InverseOf(q)[e.to]
<1>1. d.to \in Indices /\ e.to \in Indices /\ d.label \in Nat /\ e.label \in Nat
  BY DEF Edges
<1>2. a \in Nat /\ a < SizeTypeSize /\ b \in Nat /\ b < SizeTypeSize
  <2>1. a \in Indices /\ b \in Indices
    <3>1. InverseOf(p) \in [Indices -> Indices] /\ InverseOf(q) \in [Indices -> Indices]
      BY InverseFacts
    <3> QED
      BY <1>1, <3>1
  <2>2. \A k \in Indices : k \in Nat /\ k < SizeTypeSize
    BY WidthAssumption DEF Indices
  <2> HIDE DEF a, b
  <2> QED
    BY <2>1, <2>2
<1>3. TargetDifference(View(p), View(q), d, e) = Difference(a, b)
  BY ViewFacts DEF TargetDifference
<1> HIDE DEF a, b
<1>4. Difference(a, b) \in Int /\ (Difference(a, b) = 0 <=> a = b)
      /\ (~DifferenceWraps => Difference(a, b) = a - b)
  BY <1>2, DifferenceFacts
<1> QED
  BY <1>1, <1>3, <1>4 DEF EdgeDifference, CompareLabels, a, b

LEMMA SignedEdgeDifference ==
  ASSUME graph \in Graphs, ~DifferenceWraps
  PROVE  \A p, q \in Orders, d, e \in Edges :
           EdgeDifference(View(p), View(q), d, e) =
             IF InverseOf(p)[d.to] # InverseOf(q)[e.to]
             THEN InverseOf(p)[d.to] - InverseOf(q)[e.to] ELSE d.label - e.label
  BY EdgeDifferenceFacts

LEMMA EntryDifferenceFacts ==
  ASSUME graph \in Graphs, NEW p \in Orders, NEW q \in Orders, NEW i \in Indices
  PROVE  /\ EntryDifference(View(p), View(q), i) =
              IF Len(Out(p, i)) # Len(Out(q, i))
              THEN Difference(Len(Out(p, i)), Len(Out(q, i)))
              ELSE FirstDifference(OutDifferences(p, q, i))
         /\ EntryDifference(View(p), View(q), i) \in Int
         /\ EntryDifference(View(p), View(q), i) = 0 <=> SameEntry(p, q, i)
<1> DEFINE a == Out(p, i)
           b == Out(q, i)
           D == 1 .. Len(a)
           f == OutDifferences(p, q, i)
<1>1. /\ a \in Seq(Edges) /\ Len(a) \in Nat /\ Len(a) < SizeTypeSize
      /\ b \in Seq(Edges) /\ Len(b) \in Nat /\ Len(b) < SizeTypeSize
  BY OutFacts
<1>2. View(p).repr[i].out_edges = a /\ View(q).repr[i].out_edges = b
  BY ViewFacts DEF Out
<1>3. EntryDifference(View(p), View(q), i) =
        IF Len(a) # Len(b) THEN Difference(Len(a), Len(b)) ELSE FirstDifference(f)
  BY <1>2 DEF EntryDifference, OutDifferences
<1>4. CASE Len(a) # Len(b)
  <2> HIDE DEF a, b
  <2>1. Difference(Len(a), Len(b)) \in Int /\ Difference(Len(a), Len(b)) # 0
    BY <1>1, <1>4, DifferenceFacts
  <2> QED
    BY <1>3, <1>4, <2>1 DEF SameEntry, a, b
<1>5. CASE Len(a) = Len(b)
  <2>1. D \in SUBSET Nat /\ IsFiniteSet(D)
    BY <1>1, FS_Interval
  <2>2. ASSUME NEW j \in D
        PROVE  /\ f[j] \in Int
               /\ f[j] = 0 <=> SameAt(a, InverseOf(p), b, InverseOf(q), j)
    <3>1. a[j] \in Edges /\ b[j] \in Edges
      BY <1>1, <1>5, ElementsOf DEF Places
    <3>2. f[j] = EdgeDifference(View(p), View(q), a[j], b[j])
      BY DEF OutDifferences
    <3> QED
      BY <3>1, <3>2, EdgeDifferenceFacts DEF SameAt
  <2>3. f \in [D -> Int]
    BY <2>2 DEF OutDifferences
  <2> HIDE DEF f
  <2>4. FirstDifference(f) \in Int /\ (FirstDifference(f) = 0 <=> \A j \in D : f[j] = 0)
    BY <2>1, <2>3, FirstFacts
  <2>5. FirstDifference(f) = 0 <=> SameEntry(p, q, i)
    BY <1>5, <2>2, <2>4 DEF SameEntry, Places
  <2> QED
    BY <1>3, <1>5, <2>4, <2>5 DEF f
<1> QED
  BY <1>3, <1>4, <1>5

LEMMA IndicesFinite == Indices \in SUBSET Nat /\ IsFiniteSet(Indices)
  BY WidthAssumption, FS_Interval DEF Indices

LEMMA CompareFacts ==
  ASSUME graph \in Graphs, NEW p \in Orders, NEW q \in Orders
  PROVE  /\ Compare(View(p), View(q)) = FirstDifference(EntryDifferences(p, q))
         /\ EntryDifferences(p, q) \in [Indices -> Int]
         /\ Compare(View(p), View(q)) \in Int
         /\ Compare(View(p), View(q)) = 0 <=> \A i \in Indices : SameEntry(p, q, i)
<1> DEFINE f == EntryDifferences(p, q)
<1>1. Compare(View(p), View(q)) = FirstDifference(f)
  BY DEF Compare, EntryDifferences
<1>2. f \in [Indices -> Int] /\ \A i \in Indices : f[i] = 0 <=> SameEntry(p, q, i)
  BY EntryDifferenceFacts DEF EntryDifferences
<1> HIDE DEF f
<1> QED
  BY <1>1, <1>2, FirstFacts, IndicesFinite DEF f

-----------------------------------------------------------------------------
(* With differences that keep their sign the comparison is a total order.  *)
LEMMA OutTyped ==
  ASSUME graph \in Graphs, NEW p \in Orders, NEW q \in Orders, NEW i \in Indices,
         Len(Out(p, i)) = Len(Out(q, i))
  PROVE  /\ OutDifferences(p, q, i) \in [1 .. Len(Out(p, i)) -> Int]
         /\ 1 .. Len(Out(p, i)) \in SUBSET Nat /\ IsFiniteSet(1 .. Len(Out(p, i)))
         /\ \A j \in 1 .. Len(Out(p, i)) : Out(p, i)[j] \in Edges /\ Out(q, i)[j] \in Edges
<1> DEFINE a == Out(p, i)
           b == Out(q, i)
<1>1. a \in Seq(Edges) /\ b \in Seq(Edges) /\ Len(a) \in Nat /\ Len(b) = Len(a)
  BY OutFacts
<1>2. \A j \in 1 .. Len(a) : a[j] \in Edges /\ b[j] \in Edges
  <2> HIDE DEF a, b
  <2> QED
    BY <1>1, ElementsOf DEF Places
<1>3. 1 .. Len(a) \in SUBSET Nat /\ IsFiniteSet(1 .. Len(a))
  <2>1. ASSUME NEW m \in Nat PROVE 1 .. m \in SUBSET Nat /\ IsFiniteSet(1 .. m)
    BY FS_Interval
  <2> HIDE DEF a, b
  <2> QED
    BY <1>1, <2>1
<1>4. \A j \in 1 .. Len(a) : EdgeDifference(View(p), View(q), a[j], b[j]) \in Int
  BY <1>2, EdgeDifferenceFacts
<1> QED
  BY <1>2, <1>3, <1>4 DEF OutDifferences

LEMMA EntryOpposite ==
  ASSUME graph \in Graphs, ~DifferenceWraps, NEW p \in Orders, NEW q \in Orders, NEW i \in Indices
  PROVE  Opposite(EntryDifference(View(p), View(q), i), EntryDifference(View(q), View(p), i))
<1> DEFINE a == Out(p, i)
           b == Out(q, i)
<1>1. /\ Len(a) \in Nat /\ Len(a) < SizeTypeSize
      /\ Len(b) \in Nat /\ Len(b) < SizeTypeSize
  BY OutFacts
<1>2. CASE Len(a) # Len(b)
  <2>1. /\ EntryDifference(View(p), View(q), i) = Difference(Len(a), Len(b))
        /\ EntryDifference(View(q), View(p), i) = Difference(Len(b), Len(a))
    BY <1>2, EntryDifferenceFacts
  <2> HIDE DEF a, b
  <2>2. /\ Difference(Len(a), Len(b)) = Len(a) - Len(b)
        /\ Difference(Len(b), Len(a)) = Len(b) - Len(a)
    BY <1>1, DifferenceFacts
  <2> QED
    BY <1>1, <2>1, <2>2 DEF Opposite
<1>3. CASE Len(a) = Len(b)
  <2> DEFINE f == OutDifferences(p, q, i)
             g == OutDifferences(q, p, i)
             D == 1 .. Len(a)
  <2>1. /\ f \in [D -> Int] /\ g \in [D -> Int] /\ D \in SUBSET Nat /\ IsFiniteSet(D)
        /\ \A j \in D : a[j] \in Edges /\ b[j] \in Edges
    BY <1>3, OutTyped
  <2>2. ASSUME NEW j \in D PROVE Opposite(f[j], g[j])
    <3> DEFINE x == InverseOf(p)[a[j].to]
               y == InverseOf(q)[b[j].to]
    <3>1. /\ f[j] = EdgeDifference(View(p), View(q), a[j], b[j])
          /\ g[j] = EdgeDifference(View(q), View(p), b[j], a[j])
      BY <1>3 DEF OutDifferences
    <3>2. /\ f[j] = IF x # y THEN x - y ELSE a[j].label - b[j].label
          /\ g[j] = IF y # x THEN y - x ELSE b[j].label - a[j].label
      BY <2>1, <3>1, SignedEdgeDifference
    <3>3. x \in Nat /\ y \in Nat /\ a[j].label \in Nat /\ b[j].label \in Nat
      <4>1. InverseOf(p) \in [Indices -> Indices] /\ InverseOf(q) \in [Indices -> Indices]
        BY InverseFacts
      <4>2. a[j] \in Edges /\ b[j] \in Edges
        BY <2>1
      <4> QED
        BY <4>1, <4>2, IndicesAreNatural DEF Edges
    <3> HIDE DEF x, y, f, g, a, b
    <3> QED
      BY <3>2, <3>3 DEF Opposite
  <2>3. /\ EntryDifference(View(p), View(q), i) = FirstDifference(f)
        /\ EntryDifference(View(q), View(p), i) = FirstDifference(g)
    BY <1>3, EntryDifferenceFacts
  <2> HIDE DEF f, g, D
  <2> QED
    BY <2>1, <2>2, <2>3, FirstOpposite
<1> QED
  BY <1>2, <1>3

LEMMA EntryChained ==
  ASSUME graph \in Graphs, ~DifferenceWraps,
         NEW p \in Orders, NEW q \in Orders, NEW r \in Orders, NEW i \in Indices
  PROVE  Chained(EntryDifference(View(p), View(q), i), EntryDifference(View(q), View(r), i),
                 EntryDifference(View(p), View(r), i))
<1> DEFINE a == Out(p, i)
           b == Out(q, i)
           c == Out(r, i)
<1>1. /\ Len(a) \in Nat /\ Len(a) < SizeTypeSize
      /\ Len(b) \in Nat /\ Len(b) < SizeTypeSize
      /\ Len(c) \in Nat /\ Len(c) < SizeTypeSize
  BY OutFacts
<1>2. CASE ~(Len(a) = Len(b) /\ Len(b) = Len(c))
  <2>1. /\ Difference(Len(a), Len(b)) = Len(a) - Len(b)
        /\ Difference(Len(b), Len(c)) = Len(b) - Len(c)
        /\ Difference(Len(a), Len(c)) = Len(a) - Len(c)
    <3> HIDE DEF a, b, c
    <3> QED
      BY <1>1, DifferenceFacts
  <2>2. /\ Len(a) # Len(b) => EntryDifference(View(p), View(q), i) = Len(a) - Len(b)
        /\ Len(b) # Len(c) => EntryDifference(View(q), View(r), i) = Len(b) - Len(c)
        /\ Len(a) # Len(c) => EntryDifference(View(p), View(r), i) = Len(a) - Len(c)
    BY <2>1, EntryDifferenceFacts
  <2> HIDE DEF a, b, c
  <2> QED
    BY <1>1, <1>2, <2>2 DEF Chained
<1>3. CASE Len(a) = Len(b) /\ Len(b) = Len(c)
  <2> DEFINE f == OutDifferences(p, q, i)
             g == OutDifferences(q, r, i)
             h == OutDifferences(p, r, i)
             D == 1 .. Len(a)
  <2>1. /\ f \in [D -> Int] /\ g \in [D -> Int] /\ h \in [D -> Int]
        /\ D \in SUBSET Nat /\ IsFiniteSet(D)
        /\ \A j \in D : a[j] \in Edges /\ b[j] \in Edges /\ c[j] \in Edges
    BY <1>3, OutTyped
  <2>2. ASSUME NEW j \in D PROVE Chained(f[j], g[j], h[j])
    <3> DEFINE x == InverseOf(p)[a[j].to]
               y == InverseOf(q)[b[j].to]
               z == InverseOf(r)[c[j].to]
    <3>1. /\ f[j] = EdgeDifference(View(p), View(q), a[j], b[j])
          /\ g[j] = EdgeDifference(View(q), View(r), b[j], c[j])
          /\ h[j] = EdgeDifference(View(p), View(r), a[j], c[j])
      BY <1>3 DEF OutDifferences
    <3>2. /\ f[j] = IF x # y THEN x - y ELSE a[j].label - b[j].label
          /\ g[j] = IF y # z THEN y - z ELSE b[j].label - c[j].label
          /\ h[j] = IF x # z THEN x - z ELSE a[j].label - c[j].label
      <4>1. a[j] \in Edges /\ b[j] \in Edges /\ c[j] \in Edges
        BY <2>1
      <4> HIDE DEF a, b, c, f, g, h
      <4>2. EdgeDifference(View(p), View(q), a[j], b[j]) =
              IF x # y THEN x - y ELSE a[j].label - b[j].label
        BY <4>1, SignedEdgeDifference
      <4>3. EdgeDifference(View(q), View(r), b[j], c[j]) =
              IF y # z THEN y - z ELSE b[j].label - c[j].label
        BY <4>1, SignedEdgeDifference
      <4>4. EdgeDifference(View(p), View(r), a[j], c[j]) =
              IF x # z THEN x - z ELSE a[j].label - c[j].label
        BY <4>1, SignedEdgeDifference
      <4> QED
        BY <3>1, <4>2, <4>3, <4>4
    <3>3. /\ x \in Nat /\ y \in Nat /\ z \in Nat
          /\ a[j].label \in Nat /\ b[j].label \in Nat /\ c[j].label \in Nat
      <4>1. /\ InverseOf(p) \in [Indices -> Indices] /\ InverseOf(q) \in [Indices -> Indices]
            /\ InverseOf(r) \in [Indices -> Indices]
        BY InverseFacts
      <4>2. a[j] \in Edges /\ b[j] \in Edges /\ c[j] \in Edges
        BY <2>1
      <4> QED
        BY <4>1, <4>2, IndicesAreNatural DEF Edges
    <3> DEFINE u == a[j].label
               v == b[j].label
               w == c[j].label
    <3>4. /\ f[j] = IF x # y THEN x - y ELSE u - v
          /\ g[j] = IF y # z THEN y - z ELSE v - w
          /\ h[j] = IF x # z THEN x - z ELSE u - w
      BY <3>2
    <3>5. x \in Nat /\ y \in Nat /\ z \in Nat /\ u \in Nat /\ v \in Nat /\ w \in Nat
      BY <3>3
    <3> HIDE DEF x, y, z, u, v, w, f, g, h, a, b, c, D
    <3>6. f[j] = 0 /\ g[j] = 0 => h[j] = 0
      BY <3>4, <3>5
    <3>7. ASSUME f[j] =< 0, g[j] =< 0, f[j] # 0 \/ g[j] # 0
          PROVE  h[j] < 0
      <4>1. CASE x # y
        BY <3>4, <3>5, <3>7, <4>1
      <4>2. CASE x = y
        BY <3>4, <3>5, <3>7, <4>2
      <4> QED
        BY <4>1, <4>2
    <3> QED
      BY <3>6, <3>7 DEF Chained
  <2>3. /\ EntryDifference(View(p), View(q), i) = FirstDifference(f)
        /\ EntryDifference(View(q), View(r), i) = FirstDifference(g)
        /\ EntryDifference(View(p), View(r), i) = FirstDifference(h)
    BY <1>3, EntryDifferenceFacts
  <2> HIDE DEF f, g, h, D
  <2> QED
    BY <2>1, <2>2, <2>3, FirstChained
<1> QED
  BY <1>2, <1>3

LEMMA CompareOpposite ==
  ASSUME graph \in Graphs, ~DifferenceWraps, NEW p \in Orders, NEW q \in Orders
  PROVE  Opposite(Compare(View(p), View(q)), Compare(View(q), View(p)))
<1> DEFINE f == EntryDifferences(p, q)
           g == EntryDifferences(q, p)
<1>1. /\ f \in [Indices -> Int] /\ Compare(View(p), View(q)) = FirstDifference(f)
      /\ g \in [Indices -> Int] /\ Compare(View(q), View(p)) = FirstDifference(g)
  BY CompareFacts
<1>2. \A i \in Indices : Opposite(f[i], g[i])
  BY EntryOpposite DEF EntryDifferences
<1> HIDE DEF f, g
<1> QED
  BY <1>1, <1>2, IndicesFinite, FirstOpposite

LEMMA CompareChained ==
  ASSUME graph \in Graphs, ~DifferenceWraps, NEW p \in Orders, NEW q \in Orders, NEW r \in Orders
  PROVE  Chained(Compare(View(p), View(q)), Compare(View(q), View(r)), Compare(View(p), View(r)))
<1> DEFINE f == EntryDifferences(p, q)
           g == EntryDifferences(q, r)
           h == EntryDifferences(p, r)
<1>1. /\ f \in [Indices -> Int] /\ Compare(View(p), View(q)) = FirstDifference(f)
      /\ g \in [Indices -> Int] /\ Compare(View(q), View(r)) = FirstDifference(g)
      /\ h \in [Indices -> Int] /\ Compare(View(p), View(r)) = FirstDifference(h)
  BY CompareFacts
<1>2. \A i \in Indices : Chained(f[i], g[i], h[i])
  BY EntryChained DEF EntryDifferences
<1> HIDE DEF f, g, h
<1> QED
  BY <1>1, <1>2, IndicesFinite, FirstChained

-----------------------------------------------------------------------------
(* Leaves have the same labels at the same positions.                      *)
LEMMA LabelsNotLess ==
  ASSUME graph \in Graphs, NEW p \in Leaves, NEW q \in Leaves, NEW i \in Indices
  PROVE  ~(graph[p[i]].label < graph[q[i]].label)
<1> DEFINE x == graph[p[i]].label
           V == {v \in Indices : graph[v].label <= x}
<1>1. p \in Orders /\ q \in Orders
  BY DEF Leaves
<1>2. SUFFICES ASSUME x < graph[q[i]].label PROVE FALSE
  OBVIOUS
<1>3. i \in Nat /\ i < n /\ \A j \in 0 .. i : j \in Indices
  BY WidthAssumption DEF Indices
<1>4. \A j \in Indices : /\ p[j] \in Indices /\ graph[p[j]].label \in Nat
                         /\ q[j] \in Indices /\ graph[q[j]].label \in Nat
  <2>1. p \in [Indices -> Indices] /\ q \in [Indices -> Indices]
    BY <1>1 DEF Orders
  <2> QED
    BY <2>1, GraphFacts
<1>5. \A j \in 0 .. i : p[j] \in V
  <2>1. ASSUME NEW j \in 0 .. i PROVE p[j] \in V
    <3>1. j \in Indices /\ (j < i \/ j = i)
      BY <1>3
    <3>2. j < i => graph[p[j]].label <= x
      BY <3>1 DEF Leaves
    <3> QED
      BY <1>4, <3>1, <3>2
  <2> QED
    BY <2>1
<1>6. \A v \in V : InverseOf(q)[v] \in 0 .. i - 1
  <2>1. ASSUME NEW v \in V PROVE InverseOf(q)[v] \in 0 .. i - 1
    <3> DEFINE j == InverseOf(q)[v]
    <3>1. j \in Indices /\ q[j] = v /\ v \in Indices /\ graph[v].label <= x
      BY <1>1, InverseFacts
    <3> HIDE DEF j
    <3>2. j # i
      BY <1>2, <1>4, <3>1
    <3>3. ~(i < j)
      <4>1. i < j => graph[q[i]].label <= graph[q[j]].label
        BY <3>1 DEF Leaves
      <4> QED
        BY <1>2, <1>4, <3>1, <4>1
    <3>4. j \in 0 .. i - 1
      BY <1>3, <3>1, <3>2, <3>3 DEF Indices
    <3> QED
      BY <3>4 DEF j
  <2> QED
    BY <2>1
<1>7. IsFiniteSet(V)
  <2>1. V \in SUBSET Indices
    OBVIOUS
  <2> HIDE DEF V
  <2> QED
    BY <2>1, IndicesFinite, FS_Subset
<1>8. i + 1 <= Cardinality(V)
  <2> DEFINE f == [j \in 0 .. i |-> p[j]]
  <2>1. f \in [0 .. i -> V]
    BY <1>5
  <2>2. ASSUME NEW j \in 0 .. i, NEW k \in 0 .. i, f[j] = f[k] PROVE j = k
    BY <1>1, <1>3, <2>2, InverseFacts
  <2> HIDE DEF f, V
  <2>3. f \in Injection(0 .. i, V)
    BY <2>1, <2>2 DEF Injection, IsInjective
  <2>4. IsFiniteSet(0 .. i) /\ Cardinality(0 .. i) = i + 1
    BY <1>3, FS_Interval
  <2> QED
    BY <1>7, <2>3, <2>4, FS_Injection
<1>9. Cardinality(V) <= i
  <2> DEFINE g == [v \in V |-> InverseOf(q)[v]]
  <2>1. g \in [V -> 0 .. i - 1]
    BY <1>6
  <2>2. ASSUME NEW u \in V, NEW v \in V, g[u] = g[v] PROVE u = v
    <3>1. u \in Indices /\ v \in Indices /\ InverseOf(q)[u] = InverseOf(q)[v]
      BY <2>2
    <3> QED
      BY <1>1, <3>1, InverseFacts
  <2> HIDE DEF g, V
  <2>3. g \in Injection(V, 0 .. i - 1)
    BY <2>1, <2>2 DEF Injection, IsInjective
  <2>4. IsFiniteSet(0 .. i - 1) /\ Cardinality(0 .. i - 1) = i
    BY <1>3, FS_Interval
  <2> QED
    BY <2>3, <2>4, FS_Injection
<1>10. Cardinality(V) \in Nat
  <2> HIDE DEF V
  <2> QED
    BY <1>7, FS_CardinalityType
<1> HIDE DEF V
<1> QED
  BY <1>3, <1>8, <1>9, <1>10

LEMMA LabelsAgree ==
  ASSUME graph \in Graphs, NEW p \in Leaves, NEW q \in Leaves
  PROVE  \A i \in Indices : graph[p[i]].label = graph[q[i]].label
<1>1. p \in Orders /\ q \in Orders
  BY DEF Leaves
<1>2. \A i \in Indices : graph[p[i]].label \in Nat /\ graph[q[i]].label \in Nat
  <2>1. p \in [Indices -> Indices] /\ q \in [Indices -> Indices]
    BY <1>1 DEF Orders
  <2> QED
    BY <2>1, GraphFacts
<1>3. \A i \in Indices : /\ ~(graph[p[i]].label < graph[q[i]].label)
                         /\ ~(graph[q[i]].label < graph[p[i]].label)
  BY LabelsNotLess
<1> QED
  BY <1>2, <1>3

-----------------------------------------------------------------------------
(* The maps between leaves whose views are the same are the automorphisms. *)
LEMMA KeysOfOut ==
  ASSUME graph \in Graphs, NEW p \in Orders, NEW i \in Indices, NEW x \in Indices, NEW l \in Nat
  PROVE  Cardinality(At(Out(p, i), EdgesTo(InverseOf(p), x, l))) =
           Cardinality(EdgesBetween(p[i], p[x], l))
<1> DEFINE T == EdgesTo(InverseOf(p), x, l)
           s == graph[p[i]].out_edges
<1>1. p[i] \in Indices /\ p[x] \in Indices /\ s \in Seq(Edges)
  BY GraphFacts, InverseFacts
<1>2. ASSUME NEW e \in Edges PROVE e \in T <=> e = [to |-> p[x], label |-> l]
  <2>1. e.to \in Indices /\ e = [to |-> e.to, label |-> e.label]
    BY DEF Edges
  <2>2. InverseOf(p)[e.to] = x <=> e.to = p[x]
    BY <2>1, InverseFacts
  <2> QED
    BY <2>1, <2>2 DEF EdgesTo
<1>3. Cardinality(At(Out(p, i), T)) = Cardinality(At(s, T))
  BY OutFacts
<1>4. At(s, T) = EdgesBetween(p[i], p[x], l)
  <2>1. DOMAIN s = Places(s) /\ \A k \in Places(s) : s[k] \in Edges
    <3> HIDE DEF s
    <3> QED
      BY <1>1, ElementsOf DEF Places
  <2>2. EdgesBetween(p[i], p[x], l) = {k \in DOMAIN s : s[k] = [to |-> p[x], label |-> l]}
    BY DEF EdgesBetween
  <2> HIDE DEF s, T
  <2> QED
    BY <1>2, <2>1, <2>2 DEF At
<1> QED
  BY <1>3, <1>4

LEMMA NoOtherLabels ==
  ASSUME graph \in Graphs, NEW u \in Indices, NEW v \in Indices, NEW l, l \notin Labels
  PROVE  EdgesBetween(u, v, l) = {}
<1>1. SUFFICES ASSUME NEW i \in DOMAIN graph[u].out_edges,
                      graph[u].out_edges[i] = [to |-> v, label |-> l]
               PROVE  FALSE
  BY DEF EdgesBetween
<1> DEFINE e == graph[u].out_edges[i]
<1>2. e \in Range(graph[u].out_edges)
  BY DEF Range
<1>3. e.label \in Labels
  BY <1>2 DEF Labels
<1> QED
  BY <1>1, <1>3

LEMMA MapFacts ==
  ASSUME NEW p \in Orders, NEW q \in Orders
  PROVE  MapOf(q, p) \in Orders /\ \A i \in Indices : MapOf(q, p)[q[i]] = p[i]
<1>1. \A v \in Indices : InverseOf(q)[v] \in Indices /\ p[InverseOf(q)[v]] \in Indices
  BY InverseFacts
<1>2. MapOf(q, p) \in [Indices -> Indices]
  BY <1>1 DEF MapOf
<1>3. \A i \in Indices : MapOf(q, p)[q[i]] = p[i]
  BY InverseFacts DEF MapOf
<1>4. ASSUME NEW v \in Indices PROVE \E u \in Indices : MapOf(q, p)[u] = v
  <2>1. InverseOf(p)[v] \in Indices /\ q[InverseOf(p)[v]] \in Indices
    BY InverseFacts
  <2>2. MapOf(q, p)[q[InverseOf(p)[v]]] = v
    BY <1>3, <2>1, InverseFacts
  <2> QED
    BY <2>1, <2>2
<1> QED
  BY <1>2, <1>3, <1>4 DEF Orders

SameGraph(p, q) ==
  \A i \in Indices : graph[p[i]].label = graph[q[i]].label /\ SameEntry(p, q, i)

LEMMA SameIsAutomorphism ==
  ASSUME graph \in Graphs, NEW p \in Orders, NEW q \in Orders, SameGraph(p, q)
  PROVE  IsAutomorphism(MapOf(q, p))
<1> DEFINE m == MapOf(q, p)
<1>1. ASSUME NEW i \in Indices, NEW x \in Indices, NEW l \in Nat
      PROVE  Cardinality(EdgesBetween(q[i], q[x], l)) = Cardinality(EdgesBetween(p[i], p[x], l))
  <2>1. SameEntry(p, q, i)
    BY DEF SameGraph
  <2>2. Out(p, i) \in Seq(Edges) /\ Out(q, i) \in Seq(Edges)
    BY OutFacts
  <2>3. At(Out(p, i), EdgesTo(InverseOf(p), x, l)) = At(Out(q, i), EdgesTo(InverseOf(q), x, l))
    <3>1. Places(Out(p, i)) = Places(Out(q, i))
      BY <2>1 DEF SameEntry, Places
    <3>2. \A k \in Places(Out(p, i)) : Out(p, i)[k] \in Edges /\ Out(q, i)[k] \in Edges
      BY <2>2, <3>1, ElementsOf
    <3>3. \A k \in Places(Out(p, i)) :
             Out(p, i)[k] \in EdgesTo(InverseOf(p), x, l) <=> Out(q, i)[k] \in EdgesTo(InverseOf(q), x, l)
      BY <2>1, <3>2 DEF SameEntry, SameAt, EdgesTo
    <3> QED
      BY <3>1, <3>3 DEF At
  <2> QED
    BY <2>3, KeysOfOut
<1>2. m \in Orders /\ \A i \in Indices : m[q[i]] = p[i]
  BY MapFacts
<1> HIDE DEF m
<1>3. Labels \in SUBSET Nat
  <2>1. ASSUME NEW u \in Indices, NEW e \in Range(graph[u].out_edges) PROVE e.label \in Nat
    <3>1. graph[u].out_edges \in Seq(Edges)
      BY GraphFacts
    <3>2. e \in Edges
      BY <3>1 DEF Range
    <3> QED
      BY <3>2 DEF Edges
  <2> QED
    BY <2>1 DEF Labels
<1>4. ASSUME NEW u \in Indices, NEW v \in Indices
      PROVE  /\ graph[u].label = graph[m[u]].label
             /\ \A l \in Labels :
                  Cardinality(EdgesBetween(u, v, l)) = Cardinality(EdgesBetween(m[u], m[v], l))
  <2>1. PICK i \in Indices : q[i] = u
    BY DEF Orders
  <2>2. PICK x \in Indices : q[x] = v
    BY DEF Orders
  <2>3. m[u] = p[i] /\ m[v] = p[x]
    BY <1>2, <2>1, <2>2
  <2> QED
    BY <1>1, <1>3, <2>1, <2>2, <2>3 DEF SameGraph
<1>5. IsAutomorphism(m)
  BY <1>2, <1>4 DEF IsAutomorphism
<1> QED
  BY <1>5 DEF m

LEMMA AutomorphismIsSame ==
  ASSUME graph \in Graphs, NEW p \in Orders, NEW q \in Orders, IsAutomorphism(MapOf(q, p))
  PROVE  SameGraph(p, q)
<1> DEFINE m == MapOf(q, p)
<1>1. m \in Orders /\ \A i \in Indices : m[q[i]] = p[i]
  BY MapFacts
<1>2. \A i \in Indices : p[i] \in Indices /\ q[i] \in Indices
  BY InverseFacts
<1>3. ASSUME NEW i \in Indices PROVE graph[p[i]].label = graph[q[i]].label
  BY <1>1, <1>2 DEF IsAutomorphism
<1>4. ASSUME NEW i \in Indices PROVE SameEntry(p, q, i)
  <2> DEFINE a == Out(p, i)
             b == Out(q, i)
             f == InverseOf(p)
             g == InverseOf(q)
  <2>1. ASSUME NEW x \in Indices, NEW l \in Nat
        PROVE  Cardinality(At(a, EdgesTo(f, x, l))) = Cardinality(At(b, EdgesTo(g, x, l)))
    <3>1. Cardinality(EdgesBetween(q[i], q[x], l)) = Cardinality(EdgesBetween(p[i], p[x], l))
      <4>1. CASE l \in Labels
        BY <1>1, <1>2, <4>1 DEF IsAutomorphism
      <4>2. CASE l \notin Labels
        <5>1. EdgesBetween(q[i], q[x], l) = {} /\ EdgesBetween(p[i], p[x], l) = {}
          BY <1>2, <4>2, NoOtherLabels
        <5> QED
          BY <5>1
      <4> QED
        BY <4>1, <4>2
    <3> QED
      BY <3>1, KeysOfOut
  <2>2. a \in Seq(Edges) /\ IsSorted(a, f) /\ b \in Seq(Edges) /\ IsSorted(b, g)
    BY OutFacts
  <2>3. f \in [Indices -> Indices] /\ g \in [Indices -> Indices]
    BY InverseFacts
  <2>4. Len(a) = Len(b) /\ \A k \in Places(a) : SameAt(a, f, b, g, k)
    <3> HIDE DEF a, b, f, g
    <3>1. SameKeys(a, f, b, g)
      BY <2>1 DEF SameKeys
    <3> QED
      BY <2>2, <2>3, <3>1, SortedAlike
  <2> QED
    BY <2>4 DEF SameEntry
<1> QED
  BY <1>3, <1>4 DEF SameGraph

-----------------------------------------------------------------------------
(* The graph in the order of a leaf.                                       *)
(* The operators that OrderedGraph extends are the same ones.              *)
LEMMA UsersCardinality == ASSUME NEW S PROVE Users!Cardinality(S) = Cardinality(S)
  BY DEF Users!Cardinality, Cardinality

LEMMA UsersMin == ASSUME NEW S PROVE Users!Min(S) = Min(S)
  BY DEF Users!Min, Min

LEMMA UsersArranged ==
  ASSUME NEW s, NEW less PROVE Users!Arranged(s, less) = Arranged(s, less)
  BY DEF Users!Arranged, Arranged, Users!Before, Before, Users!Cardinality, Cardinality

LEMMA UsersSort ==
  ASSUME NEW p \in Orders, NEW s \in Seq(Edges)
  PROVE  Users!SortedOutEdges(InverseOf(p), s) = SortedBy(p, s)
<1> DEFINE f == InverseOf(p)
           P == 1 .. Len(s)
<1>1. \A k \in P : s[k].label \in Nat
  BY InverseFacts, EdgeAt DEF Places
<1>2. \A k \in P \X P :
         Users!OutEdgeLess(f, s[k[1]], s[k[2]]) <=> EdgeLess(f, s[k[1]], s[k[2]])
  <2>1. ASSUME NEW j \in P, NEW k \in P
        PROVE  Users!OutEdgeLess(f, s[j], s[k]) <=> EdgeLess(f, s[j], s[k])
    <3>1. s[j].label < s[k].label <=> s[j].label - s[k].label < 0
      BY <1>1
    <3> HIDE DEF f
    <3> QED
      BY <3>1 DEF Users!OutEdgeLess, EdgeLabelLess, EdgeLess, CompareLabels
  <2> QED
    BY <2>1
<1>3. {k \in P \X P : Users!OutEdgeLess(f, s[k[1]], s[k[2]])} =
        {k \in P \X P : EdgeLess(f, s[k[1]], s[k[2]])}
  BY <1>2
<1> QED
  BY <1>3, UsersArranged DEF Users!SortedOutEdges, SortedBy

LEMMA InOrderFacts ==
  ASSUME graph \in Graphs, NEW p \in Orders
  PROVE  /\ InOrder(p).idx = InverseOf(p)
         /\ Len(InOrder(p).data) = n
         /\ \A k \in 1 .. n :
              /\ InOrder(p).data[k].label = graph[p[k - 1]].label
              /\ InOrder(p).data[k].out_edges = Out(p, k - 1)
<1> DEFINE data == [k \in 1 .. n |->
                      LET v == Users!VertexAt(InverseOf(p), k - 1)
                      IN [v |-> v, label |-> graph[v].label,
                          out_edges |-> Users!SortedOutEdges(InverseOf(p), graph[v].out_edges)]]
<1>1. Cardinality(DOMAIN graph) = n
  <2>1. DOMAIN graph = 0 .. n - 1
    BY GraphsAssumption DEF IsGraph, Indices
  <2> QED
    BY <2>1, WidthAssumption, FS_Interval
<1>2. Users!Cardinality(DOMAIN graph) = n
  BY <1>1, UsersCardinality
<1>3. InOrder(p) = [idx |-> InverseOf(p), data |-> data]
  BY <1>2 DEF InOrder, Users!Ordered
<1>4. n \in Nat
  BY WidthAssumption
<1>5. ASSUME NEW k \in 1 .. n
      PROVE  /\ data[k].label = graph[p[k - 1]].label
             /\ data[k].out_edges = Out(p, k - 1)
  <2>1. k - 1 \in Indices
    BY <1>4 DEF Indices
  <2>2. /\ DOMAIN InverseOf(p) = Indices
        /\ p[k - 1] \in Indices
        /\ \A v \in Indices : InverseOf(p)[v] = k - 1 <=> v = p[k - 1]
    BY <2>1, InverseFacts
  <2>3. Users!VertexAt(InverseOf(p), k - 1) = p[k - 1]
    BY <2>2 DEF Users!VertexAt
  <2>4. Users!SortedOutEdges(InverseOf(p), graph[p[k - 1]].out_edges) = Out(p, k - 1)
    BY <2>2, GraphFacts, UsersSort DEF Out
  <2> QED
    BY <2>3, <2>4
<1>6. Len(data) = n
  BY <1>4
<1> HIDE DEF data
<1> QED
  BY <1>3, <1>5, <1>6

(* Where the two graphs differ at an index.                                *)
LEMMA DiffersFacts ==
  ASSUME graph \in Graphs, NEW p \in Orders, NEW q \in Orders, NEW i \in Indices
  PROVE  /\ Users!VertexDiffers(InOrder(p), InOrder(q), i + 1) <=>
              graph[p[i]].label # graph[q[i]].label
         /\ Users!DegreeDiffers(InOrder(p), InOrder(q), i + 1) <=>
              Len(Out(p, i)) # Len(Out(q, i))
         /\ Len(Out(p, i)) = Len(Out(q, i)) =>
              /\ Users!Places(InOrder(p), InOrder(q), i + 1) = Places(Out(p, i))
              /\ \A j \in Places(Out(p, i)) :
                    (\/ Users!TargetsDiffer(InOrder(p), InOrder(q), i + 1, j)
                     \/ Users!EdgesDiffer(InOrder(p), InOrder(q), i + 1, j)) <=>
                    ~SameAt(Out(p, i), InverseOf(p), Out(q, i), InverseOf(q), j)
         /\ Users!EntryDiffers(InOrder(p), InOrder(q), i + 1) <=>
              ~(graph[p[i]].label = graph[q[i]].label /\ SameEntry(p, q, i))
<1> DEFINE L == InOrder(p)
           R == InOrder(q)
<1>1. i + 1 \in 1 .. n /\ (i + 1) - 1 = i
  BY WidthAssumption DEF Indices
<1>2. /\ L.idx = InverseOf(p) /\ R.idx = InverseOf(q)
      /\ L.data[i + 1].label = graph[p[i]].label /\ L.data[i + 1].out_edges = Out(p, i)
      /\ R.data[i + 1].label = graph[q[i]].label /\ R.data[i + 1].out_edges = Out(q, i)
  BY <1>1, InOrderFacts
<1> HIDE DEF L, R
<1>3. Users!VertexDiffers(L, R, i + 1) <=> graph[p[i]].label # graph[q[i]].label
  BY <1>2 DEF Users!VertexDiffers, LabelEqual
<1>4. Users!DegreeDiffers(L, R, i + 1) <=> Len(Out(p, i)) # Len(Out(q, i))
  BY <1>2 DEF Users!DegreeDiffers
<1>5. ASSUME Len(Out(p, i)) = Len(Out(q, i))
      PROVE  Users!Places(L, R, i + 1) = Places(Out(p, i))
  BY <1>2, <1>5 DEF Users!Places, Places
<1>6. \A j :
         (Users!TargetsDiffer(L, R, i + 1, j) \/ Users!EdgesDiffer(L, R, i + 1, j)) <=>
         ~SameAt(Out(p, i), InverseOf(p), Out(q, i), InverseOf(q), j)
  BY <1>2 DEF Users!TargetsDiffer, Users!EdgesDiffer, EdgeLabelEqual, SameAt
<1>7. Users!EntryDiffers(L, R, i + 1) <=>
        ~(graph[p[i]].label = graph[q[i]].label /\ SameEntry(p, q, i))
  BY <1>3, <1>4, <1>5, <1>6 DEF Users!EntryDiffers, SameEntry
<1> QED
  BY <1>3, <1>4, <1>5, <1>6, <1>7 DEF L, R

LEMMA ReasonFacts ==
  ASSUME graph \in Graphs, NEW p \in Orders, NEW q \in Orders
  PROVE  LET L == InOrder(p)
             R == InOrder(q)
             different == {k \in 1 .. n : Users!EntryDiffers(L, R, k)}
             i == Min(different)
             j == Min({k \in Users!Places(L, R, i) : Users!TargetsDiffer(L, R, i, k)
                                                       \/ Users!EdgesDiffer(L, R, i, k)})
         IN  Users!OrderedGraphReason(L, R) =
               IF different = {} THEN [at |-> "equal"]
               ELSE IF Users!VertexDiffers(L, R, i) THEN [at |-> "vertex_compare", i |-> i]
               ELSE IF Users!DegreeDiffers(L, R, i) THEN [at |-> "out_degree", i |-> i]
               ELSE IF Users!TargetsDiffer(L, R, i, j) THEN [at |-> "out_edge", i |-> i, j |-> j]
               ELSE [at |-> "edge_compare", i |-> i, j |-> j]
<1> DEFINE L == InOrder(p)
           R == InOrder(q)
<1>1. Len(L.data) = n /\ Len(R.data) = n
  BY InOrderFacts
<1> HIDE DEF L, R
<1>2. \A S : Users!Min(S) = Min(S)
  BY UsersMin
<1>3. LET different == {k \in 1 .. n : Users!EntryDiffers(L, R, k)}
          i == Min(different)
          j == Min({k \in Users!Places(L, R, i) : Users!TargetsDiffer(L, R, i, k)
                                                    \/ Users!EdgesDiffer(L, R, i, k)})
      IN  Users!OrderedGraphReason(L, R) =
            IF different = {} THEN [at |-> "equal"]
            ELSE IF Users!VertexDiffers(L, R, i) THEN [at |-> "vertex_compare", i |-> i]
            ELSE IF Users!DegreeDiffers(L, R, i) THEN [at |-> "out_degree", i |-> i]
            ELSE IF Users!TargetsDiffer(L, R, i, j) THEN [at |-> "out_edge", i |-> i, j |-> j]
            ELSE [at |-> "edge_compare", i |-> i, j |-> j]
  BY <1>1, <1>2 DEF Users!OrderedGraphReason
<1> QED
  BY <1>3 DEF L, R

LEMMA EqualFacts ==
  ASSUME graph \in Graphs, NEW p \in Orders, NEW q \in Orders
  PROVE  Users!OrderedGraphEqual(InOrder(p), InOrder(q)) <=> SameGraph(p, q)
<1> DEFINE L == InOrder(p)
           R == InOrder(q)
           different == {k \in 1 .. n : Users!EntryDiffers(L, R, k)}
           m == Min(different)
           j == Min({k \in Users!Places(L, R, m) : Users!TargetsDiffer(L, R, m, k)
                                                     \/ Users!EdgesDiffer(L, R, m, k)})
           reason == Users!OrderedGraphReason(L, R)
<1>1. different = {} <=> SameGraph(p, q)
  <2>1. \A i \in Indices : i + 1 \in 1 .. n
    BY WidthAssumption DEF Indices
  <2>2. \A k \in 1 .. n : k - 1 \in Indices /\ (k - 1) + 1 = k
    BY WidthAssumption DEF Indices
  <2>3. \A i \in Indices : Users!EntryDiffers(L, R, i + 1) <=>
           ~(graph[p[i]].label = graph[q[i]].label /\ SameEntry(p, q, i))
    BY DiffersFacts
  <2> HIDE DEF L, R
  <2>4. different = {} <=> \A k \in 1 .. n : ~Users!EntryDiffers(L, R, k)
    OBVIOUS
  <2>5. ASSUME NEW k \in 1 .. n, \A i \in Indices : ~Users!EntryDiffers(L, R, i + 1)
        PROVE  ~Users!EntryDiffers(L, R, k)
    <3>1. ~Users!EntryDiffers(L, R, (k - 1) + 1)
      BY <2>2, <2>5
    <3> QED
      BY <2>2, <3>1
  <2> QED
    BY <2>1, <2>3, <2>4, <2>5 DEF SameGraph
<1>2. reason =
        IF different = {} THEN [at |-> "equal"]
        ELSE IF Users!VertexDiffers(L, R, m) THEN [at |-> "vertex_compare", i |-> m]
        ELSE IF Users!DegreeDiffers(L, R, m) THEN [at |-> "out_degree", i |-> m]
        ELSE IF Users!TargetsDiffer(L, R, m, j) THEN [at |-> "out_edge", i |-> m, j |-> j]
        ELSE [at |-> "edge_compare", i |-> m, j |-> j]
  BY ReasonFacts
<1>3. reason.at = "equal" <=> different = {}
  <2> HIDE DEF different, L, R, m, j, reason
  <2> QED
    BY <1>2
<1> QED
  <2> HIDE DEF different, L, R
  <2> QED
    BY <1>1, <1>3 DEF Users!OrderedGraphEqual, L, R

(* For leaves, the order of the user is that of the views.                 *)
LEMMA LessFacts ==
  ASSUME graph \in Graphs, ~DifferenceWraps, NEW p \in Leaves, NEW q \in Leaves,
         Users!OrderedGraphLess(InOrder(p), InOrder(q))
  PROVE  Compare(View(p), View(q)) < 0
<1> DEFINE L == InOrder(p)
           R == InOrder(q)
           different == {k \in 1 .. n : Users!EntryDiffers(L, R, k)}
           m == Min(different)
           i == m - 1
           a == Out(p, i)
           b == Out(q, i)
           kinds == {k \in Users!Places(L, R, m) : Users!TargetsDiffer(L, R, m, k)
                                                     \/ Users!EdgesDiffer(L, R, m, k)}
           j == Min(kinds)
           reason == Users!OrderedGraphReason(L, R)
<1>1. p \in Orders /\ q \in Orders
  BY DEF Leaves
<1>2. /\ L.idx = InverseOf(p) /\ R.idx = InverseOf(q)
      /\ \A k \in 1 .. n : L.data[k].out_edges = Out(p, k - 1) /\ R.data[k].out_edges = Out(q, k - 1)
  BY <1>1, InOrderFacts
<1>3. reason =
        IF different = {} THEN [at |-> "equal"]
        ELSE IF Users!VertexDiffers(L, R, m) THEN [at |-> "vertex_compare", i |-> m]
        ELSE IF Users!DegreeDiffers(L, R, m) THEN [at |-> "out_degree", i |-> m]
        ELSE IF Users!TargetsDiffer(L, R, m, j) THEN [at |-> "out_edge", i |-> m, j |-> j]
        ELSE [at |-> "edge_compare", i |-> m, j |-> j]
  BY <1>1, ReasonFacts
<1>4. different # {}
  <2> HIDE DEF L, R, different, m, j
  <2>1. ASSUME different = {} PROVE FALSE
    <3>1. reason.at = "equal"
      BY <1>3, <2>1
    <3> HIDE DEF reason
    <3> QED
      BY <3>1 DEF Users!OrderedGraphLess, reason, L, R
  <2> QED
    BY <2>1
<1>5. m \in 1 .. n /\ m \in different /\ \A k \in different : m <= k
  <2>1. different \in SUBSET (1 .. n) /\ n \in Nat
    BY WidthAssumption
  <2>2. IsFiniteSet(1 .. n)
    BY <2>1, FS_Interval
  <2> HIDE DEF different
  <2>3. IsFiniteSet(different)
    BY <2>1, <2>2, FS_Subset
  <2>4. different \in SUBSET Nat
    BY <2>1
  <2> QED
    BY <1>4, <2>1, <2>3, <2>4, LeastElement
<1> HIDE DEF m
<1>6. i \in Indices /\ i + 1 = m /\ i \in Nat
  BY <1>5, WidthAssumption DEF Indices
<1>7. /\ graph[p[i]].label = graph[q[i]].label
      /\ ~SameEntry(p, q, i)
      /\ ~Users!VertexDiffers(L, R, m)
      /\ Users!DegreeDiffers(L, R, m) <=> Len(a) # Len(b)
      /\ Len(a) = Len(b) =>
           /\ Users!Places(L, R, m) = Places(a)
           /\ \A k \in Places(a) :
                 (Users!TargetsDiffer(L, R, m, k) \/ Users!EdgesDiffer(L, R, m, k)) <=>
                 ~SameAt(a, InverseOf(p), b, InverseOf(q), k)
  <2>1. graph[p[i]].label = graph[q[i]].label
    BY <1>6, LabelsAgree
  <2>2. Users!EntryDiffers(L, R, m)
    BY <1>5
  <2> QED
    BY <1>1, <1>6, <2>1, <2>2, DiffersFacts
<1>8. ASSUME NEW k \in Indices, k < i PROVE SameEntry(p, q, k)
  <2>1. k + 1 \in 1 .. n /\ k + 1 < m
    BY <1>6, <1>8, WidthAssumption DEF Indices
  <2>2. ~Users!EntryDiffers(L, R, k + 1)
    BY <1>5, <2>1
  <2> QED
    BY <1>1, <2>2, DiffersFacts
<1>9. Compare(View(p), View(q)) = EntryDifference(View(p), View(q), i)
  <2> DEFINE f == EntryDifferences(p, q)
  <2>1. Compare(View(p), View(q)) = FirstDifference(f) /\ f \in [Indices -> Int]
    BY <1>1, CompareFacts
  <2>2. \A k \in Indices : f[k] = EntryDifference(View(p), View(q), k)
                           /\ (f[k] = 0 <=> SameEntry(p, q, k))
    BY <1>1, EntryDifferenceFacts DEF EntryDifferences
  <2> HIDE DEF f
  <2>3. IsFirst(f, i)
    BY <1>6, <1>7, <1>8, <2>1, <2>2 DEF IsFirst
  <2> QED
    BY <1>6, <2>1, <2>2, <2>3, IndicesFinite, FirstFacts
<1>10. /\ a \in Seq(Edges) /\ Len(a) \in Nat /\ Len(a) < SizeTypeSize
       /\ b \in Seq(Edges) /\ Len(b) \in Nat /\ Len(b) < SizeTypeSize
  BY <1>1, <1>6, OutFacts
<1>11. L.data[m].out_edges = a /\ R.data[m].out_edges = b
  BY <1>2, <1>5
<1>12. CASE Len(a) # Len(b)
  <2>1. reason = [at |-> "out_degree", i |-> m]
    BY <1>3, <1>4, <1>7, <1>12
  <2> HIDE DEF reason, L, R, different, j, a, b
  <2>2. Len(a) < Len(b)
    <3>1. Len(L.data[m].out_edges) < Len(R.data[m].out_edges)
      BY <2>1 DEF Users!OrderedGraphLess, reason, L, R
    <3> QED
      BY <1>11, <3>1
  <2>3. EntryDifference(View(p), View(q), i) = Difference(Len(a), Len(b))
    BY <1>1, <1>6, <1>12, EntryDifferenceFacts DEF a, b
  <2>4. Difference(Len(a), Len(b)) = Len(a) - Len(b)
    BY <1>10, DifferenceFacts
  <2> QED
    BY <1>9, <1>10, <2>2, <2>3, <2>4
<1>13. CASE Len(a) = Len(b)
  <2> DEFINE f == OutDifferences(p, q, i)
             D == 1 .. Len(a)
  <2>1. /\ f \in [D -> Int] /\ D \in SUBSET Nat /\ IsFiniteSet(D)
        /\ \A k \in D : a[k] \in Edges /\ b[k] \in Edges
    BY <1>1, <1>6, <1>13, OutTyped
  <2>2. ASSUME NEW k \in D
        PROVE  /\ f[k] = IF InverseOf(p)[a[k].to] # InverseOf(q)[b[k].to]
                         THEN InverseOf(p)[a[k].to] - InverseOf(q)[b[k].to]
                         ELSE a[k].label - b[k].label
               /\ f[k] = 0 <=> SameAt(a, InverseOf(p), b, InverseOf(q), k)
    <3>1. a[k] \in Edges /\ b[k] \in Edges
      BY <2>1
    <3>2. f[k] = EdgeDifference(View(p), View(q), a[k], b[k])
      BY DEF OutDifferences
    <3> HIDE DEF a, b, f
    <3> QED
      BY <1>1, <3>1, <3>2, SignedEdgeDifference, EdgeDifferenceFacts DEF SameAt
  <2>3. kinds = {k \in D : f[k] # 0}
    BY <1>7, <1>13, <2>2 DEF Places
  <2>4. kinds # {}
    BY <1>7, <1>13, <2>2, <2>3 DEF SameEntry, Places
  <2>5. j \in kinds /\ \A k \in kinds : j <= k
    <3>1. kinds \in SUBSET D
      BY <2>3
    <3> HIDE DEF kinds, D
    <3>2. IsFiniteSet(kinds) /\ kinds \in SUBSET Nat
      BY <2>1, <3>1, FS_Subset
    <3> QED
      BY <2>4, <3>2, LeastElement
  <2> HIDE DEF j
  <2>6. IsFirst(f, j)
    <3> HIDE DEF f, D, kinds
    <3>1. j \in D /\ f[j] # 0
      BY <2>3, <2>5
    <3>2. ASSUME NEW k \in D, k < j PROVE f[k] = 0
      <4>1. k \in Nat /\ j \in Nat
        BY <2>1, <3>1
      <4>2. k \notin kinds
        BY <2>5, <3>2, <4>1
      <4> QED
        BY <2>3, <4>2
    <3> QED
      BY <2>1, <3>1, <3>2 DEF IsFirst
  <2>7. EntryDifference(View(p), View(q), i) = f[j]
    <3>1. EntryDifference(View(p), View(q), i) = FirstDifference(f)
      BY <1>1, <1>6, <1>13, EntryDifferenceFacts
    <3> HIDE DEF f, D
    <3> QED
      BY <2>1, <2>3, <2>5, <2>6, <3>1, FirstFacts
  <2> DEFINE x == InverseOf(p)[a[j].to]
             y == InverseOf(q)[b[j].to]
  <2>8. x \in Nat /\ y \in Nat /\ a[j].label \in Nat /\ b[j].label \in Nat
    <3>1. InverseOf(p) \in [Indices -> Indices] /\ InverseOf(q) \in [Indices -> Indices]
      BY <1>1, InverseFacts
    <3>2. a[j] \in Edges /\ b[j] \in Edges
      BY <2>1, <2>3, <2>5
    <3> QED
      BY <3>1, <3>2, IndicesAreNatural DEF Edges
  <2>9. Users!TargetsDiffer(L, R, m, j) <=> x # y
    BY <1>2, <1>11 DEF Users!TargetsDiffer
  <2>10. f[j] = IF x # y THEN x - y ELSE a[j].label - b[j].label
    BY <2>2, <2>3, <2>5
  <2>11. CASE x # y
    <3>1. reason = [at |-> "out_edge", i |-> m, j |-> j]
      BY <1>3, <1>4, <1>7, <1>13, <2>9, <2>11 DEF j
    <3> HIDE DEF reason, L, R, different, a, b, f
    <3>2. L.idx[L.data[m].out_edges[j].to] < R.idx[R.data[m].out_edges[j].to]
      BY <3>1 DEF Users!OrderedGraphLess, reason, L, R
    <3>3. x < y
      BY <1>2, <1>11, <3>2
    <3> HIDE DEF x, y
    <3> QED
      BY <1>9, <2>7, <2>8, <2>10, <2>11, <3>3
  <2>12. CASE x = y
    <3>1. reason = [at |-> "edge_compare", i |-> m, j |-> j]
      BY <1>3, <1>4, <1>7, <1>13, <2>9, <2>12 DEF j
    <3> HIDE DEF reason, L, R, different, a, b, f
    <3>2. EdgeLabelLess(L.data[m].out_edges[j], R.data[m].out_edges[j])
      BY <3>1 DEF Users!OrderedGraphLess, reason, L, R
    <3>3. a[j].label < b[j].label
      BY <1>11, <3>2 DEF EdgeLabelLess
    <3> HIDE DEF x, y
    <3> QED
      BY <1>9, <2>7, <2>8, <2>10, <2>12, <3>3
  <2> QED
    BY <2>11, <2>12
<1> QED
  BY <1>12, <1>13

-----------------------------------------------------------------------------
(* The inductive invariant.  The views are of two leaves that were         *)
(* reported, so that they never stand for the leaf that is reported next;  *)
(* the candidate compares as the least of the leaves since it was pruned,  *)
(* and for each that compares equal the automorphism was found.            *)
LeavesKnown ==
  /\ graph \in Graphs
  /\ reported \subseteq Leaves /\ since \subseteq reported
  /\ canon_leaf \in since \/ (canon_leaf = Nobody /\ since = {})
ViewsKnown ==
  \/ canon_view = Nobody /\ extra_view = Nobody
  \/ \E p, q \in reported : p # q /\ canon_view = View(p) /\ extra_view = View(q)
LeastKnown ==
  ~DifferenceWraps =>
    \A p \in since :
      /\ Compare(View(p), View(canon_leaf)) >= 0
      /\ Compare(View(p), View(canon_leaf)) = 0 =>
           p = canon_leaf \/ MapOf(canon_leaf, p) \in found
IInv == LeavesKnown /\ ViewsKnown /\ AutomorphismsAreReal /\ LeastKnown

LEMMA NobodyIsNew ==
  ASSUME graph \in Graphs
  PROVE  (\A p \in Leaves : p \in Orders /\ p # Nobody) /\ (\A p \in Orders : View(p) # Nobody)
<1>1. \A p \in Orders : View(p) \in Views
  BY ViewFacts
<1> QED
  BY <1>1, NobodyAssumption DEF Leaves

(* Nothing but the graph decides what a view, a leaf or an automorphism is.*)
LEMMA GraphDecides ==
  ASSUME graph' = graph
  PROVE  /\ Leaves' = Leaves
         /\ \A p : View(p)' = View(p)
         /\ \A p : IsAutomorphism(p)' <=> IsAutomorphism(p)
<1>1. Leaves' = Leaves
  BY DEF Leaves, OutDegree
<1>2. ASSUME NEW p PROVE View(p)' = View(p)
  BY DEF View
<1>3. ASSUME NEW p PROVE IsAutomorphism(p)' <=> IsAutomorphism(p)
  BY DEF IsAutomorphism, EdgesBetween, Labels
<1> QED
  BY <1>1, <1>2, <1>3

LEMMA InitKnown == Init => IInv
  BY DEF Init, IInv, LeavesKnown, ViewsKnown, AutomorphismsAreReal, LeastKnown

LEMMA SelfCompare ==
  ASSUME graph \in Graphs, NEW p \in Orders
  PROVE  Compare(View(p), View(p)) = 0
<1>1. \A i \in Indices : SameEntry(p, p, i)
  BY DEF SameEntry, SameAt
<1> QED
  BY <1>1, CompareFacts

LEMMA FirstLeafKnown ==
  ASSUME IInv, NEW p \in Leaves \ reported, ReportLeaf(p), FirstLeaf(p)
  PROVE  IInv'
<1>1. /\ graph' = graph /\ canon_leaf' = p /\ since = {} /\ since' = {p}
      /\ reported' = reported \cup {p}
      /\ canon_view' = canon_view /\ extra_view' = extra_view /\ found' = found
  BY NobodyIsNew DEF IInv, LeavesKnown, ReportLeaf, FirstLeaf
<1>2. /\ Leaves' = Leaves /\ \A q : View(q)' = View(q)
      /\ \A q : IsAutomorphism(q)' <=> IsAutomorphism(q)
  BY <1>1, GraphDecides
<1>3. LeavesKnown'
  BY <1>1, <1>2 DEF IInv, LeavesKnown
<1>4. ViewsKnown'
  BY <1>1, <1>2 DEF IInv, ViewsKnown
<1>5. AutomorphismsAreReal'
  BY <1>1, <1>2 DEF IInv, AutomorphismsAreReal
<1>6. LeastKnown'
  <2>1. Compare(View(p), View(p)) = 0
    BY SelfCompare, NobodyIsNew DEF IInv, LeavesKnown
  <2> QED
    BY <1>1, <1>2, <2>1 DEF LeastKnown
<1> QED
  BY <1>3, <1>4, <1>5, <1>6 DEF IInv

LEMMA NextLeafKnown ==
  ASSUME IInv, NEW p \in Leaves \ reported, ReportLeaf(p), NextLeaf(p)
  PROVE  IInv'
<1> DEFINE cmp == Compare(View(p), View(canon_leaf))
<1>1. /\ graph \in Graphs /\ reported \subseteq Leaves /\ since \subseteq reported
      /\ canon_leaf \in since /\ canon_leaf \in Orders /\ p \in Orders /\ p # canon_leaf
  BY NobodyIsNew DEF IInv, LeavesKnown, NextLeaf
<1>2. ViewOfCandidate = View(canon_leaf) /\ ViewOfNew(p) = View(p)
  <2>1. CASE canon_view = Nobody /\ extra_view = Nobody
    BY <2>1 DEF ViewOfCandidate, ViewOfNew
  <2>2. CASE \E q, r \in reported : canon_view = View(q) /\ extra_view = View(r)
    <3>1. PICK q \in reported, r \in reported : canon_view = View(q) /\ extra_view = View(r)
      BY <2>2
    <3>2. q \in Orders /\ r \in Orders
      BY <1>1, NobodyIsNew
    <3>3. canon_view # Nobody /\ extra_view # Nobody
      BY <1>1, <3>1, <3>2, NobodyIsNew
    <3>4. canon_view.leaf = q
      BY <1>1, <3>1, <3>2, ViewFacts
    <3>5. /\ Repermute(canon_view, canon_leaf) = View(canon_leaf)
          /\ Repermute(extra_view, p) = View(p)
      BY <1>1, <3>1, <3>2, RepermutedIsNew
    <3> QED
      BY <3>1, <3>3, <3>4, <3>5 DEF ViewOfCandidate, ViewOfNew
  <2> QED
    BY <2>1, <2>2 DEF IInv, ViewsKnown
<1>3. /\ canon_leaf' = IF cmp < 0 THEN p ELSE canon_leaf
      /\ canon_view' = IF cmp < 0 THEN View(p) ELSE View(canon_leaf)
      /\ extra_view' = IF cmp < 0 THEN View(canon_leaf) ELSE View(p)
      /\ found' = IF cmp = 0 THEN found \cup {MapOf(canon_leaf, p)} ELSE found
  BY <1>2 DEF NextLeaf, ExplicitAutomorphism, MapOf
<1>4. graph' = graph /\ reported' = reported \cup {p} /\ since' = since \cup {p}
  BY DEF ReportLeaf
<1>5. /\ Leaves' = Leaves /\ \A q : View(q)' = View(q)
      /\ \A q : IsAutomorphism(q)' <=> IsAutomorphism(q)
  BY <1>4, GraphDecides
<1>6. LeavesKnown'
  BY <1>1, <1>3, <1>4, <1>5 DEF LeavesKnown
<1>7. ViewsKnown'
  <2>1. canon_leaf \in reported' /\ p \in reported'
    BY <1>1, <1>4
  <2>2. CASE cmp < 0
    BY <1>1, <1>3, <1>5, <2>1, <2>2 DEF ViewsKnown
  <2>3. CASE ~(cmp < 0)
    BY <1>1, <1>3, <1>5, <2>1, <2>3 DEF ViewsKnown
  <2> QED
    BY <2>2, <2>3
<1>8. AutomorphismsAreReal'
  <2>1. ASSUME cmp = 0 PROVE IsAutomorphism(MapOf(canon_leaf, p))
    <3>1. \A i \in Indices : SameEntry(p, canon_leaf, i)
      BY <1>1, <2>1, CompareFacts
    <3>2. p \in Leaves /\ canon_leaf \in Leaves
      BY <1>1
    <3>3. \A i \in Indices : graph[p[i]].label = graph[canon_leaf[i]].label
      BY <1>1, <3>2, LabelsAgree
    <3> QED
      BY <1>1, <3>1, <3>3, SameIsAutomorphism DEF SameGraph
  <2> HIDE DEF cmp
  <2>2. \A a \in found' : IsAutomorphism(a)
    BY <1>3, <2>1 DEF IInv, AutomorphismsAreReal
  <2> QED
    BY <1>5, <2>2 DEF AutomorphismsAreReal
<1>9. LeastKnown'
  <2> SUFFICES ASSUME ~DifferenceWraps, NEW q \in since'
               PROVE  /\ Compare(View(q), View(canon_leaf')) >= 0
                      /\ Compare(View(q), View(canon_leaf')) = 0 =>
                           q = canon_leaf' \/ MapOf(canon_leaf', q) \in found'
    BY <1>5 DEF LeastKnown
  <2>1. q \in Orders
    BY <1>1, <1>4, NobodyIsNew
  <2>2. cmp \in Int
    BY <1>1, CompareFacts
  <2>3. CASE cmp < 0
    <3>1. canon_leaf' = p
      BY <1>3, <2>3
    <3>2. CASE q = p
      BY <1>1, <3>1, <3>2, SelfCompare
    <3>3. CASE q \in since
      <4>1. Compare(View(q), View(canon_leaf)) >= 0 /\ Compare(View(q), View(canon_leaf)) \in Int
        BY <1>1, <2>1, <3>3, CompareFacts DEF IInv, LeastKnown
      <4>2. Opposite(Compare(View(q), View(canon_leaf)), Compare(View(canon_leaf), View(q)))
        BY <1>1, <2>1, CompareOpposite
      <4>3. Compare(View(canon_leaf), View(q)) \in Int /\ Compare(View(canon_leaf), View(q)) <= 0
        BY <1>1, <2>1, <4>1, <4>2, CompareFacts DEF Opposite
      <4>4. Chained(cmp, Compare(View(canon_leaf), View(q)), Compare(View(p), View(q)))
        BY <1>1, <2>1, CompareChained
      <4>5. Compare(View(p), View(q)) < 0
        BY <2>2, <2>3, <4>3, <4>4 DEF Chained
      <4>6. Opposite(Compare(View(p), View(q)), Compare(View(q), View(p)))
        BY <1>1, <2>1, CompareOpposite
      <4>7. Compare(View(q), View(p)) \in Int /\ Compare(View(q), View(p)) > 0
        BY <1>1, <2>1, <4>5, <4>6, CompareFacts DEF Opposite
      <4> QED
        BY <3>1, <4>7
    <3> QED
      BY <1>4, <3>2, <3>3
  <2>4. CASE ~(cmp < 0)
    <3>1. canon_leaf' = canon_leaf
      BY <1>3, <2>4
    <3>2. CASE q = p
      BY <1>3, <2>2, <2>4, <3>1, <3>2
    <3>3. CASE q \in since
      BY <1>3, <3>1, <3>3 DEF IInv, LeastKnown
    <3> QED
      BY <1>4, <3>2, <3>3
  <2> QED
    BY <2>3, <2>4
<1> QED
  BY <1>6, <1>7, <1>8, <1>9 DEF IInv

LEMMA PruneKnown == IInv /\ PruneCanonLeaf => IInv'
<1> SUFFICES ASSUME IInv, PruneCanonLeaf PROVE IInv'
  OBVIOUS
<1>1. /\ graph' = graph /\ canon_leaf' = Nobody /\ since' = {} /\ reported' = reported
      /\ canon_view' = canon_view /\ extra_view' = extra_view /\ found' = found
  BY DEF PruneCanonLeaf
<1>2. /\ Leaves' = Leaves /\ \A q : View(q)' = View(q)
      /\ \A q : IsAutomorphism(q)' <=> IsAutomorphism(q)
  BY <1>1, GraphDecides
<1> QED
  BY <1>1, <1>2 DEF IInv, LeavesKnown, ViewsKnown, AutomorphismsAreReal, LeastKnown

LEMMA StutterKnown == IInv /\ UNCHANGED vars => IInv'
<1> SUFFICES ASSUME IInv, UNCHANGED vars PROVE IInv'
  OBVIOUS
<1>1. /\ Leaves' = Leaves /\ \A q : View(q)' = View(q)
      /\ \A q : IsAutomorphism(q)' <=> IsAutomorphism(q)
  BY GraphDecides DEF vars
<1> QED
  BY <1>1 DEF vars, IInv, LeavesKnown, ViewsKnown, AutomorphismsAreReal, LeastKnown

LEMMA Known == Spec => []IInv
<1>1. IInv /\ [Next]_vars => IInv'
  BY FirstLeafKnown, NextLeafKnown, PruneKnown, StutterKnown DEF Next, ReportLeaf, Stop
<1> QED
  BY <1>1, InitKnown, PTL DEF Spec

(* The views that report_leaf permutes and swaps are always what new views *)
(* of their leaves would be, and are of different leaves.                  *)
THEOREM ViewsAlwaysCurrent == Spec => []ViewsAreCurrent
<1>1. IInv => ViewsAreCurrent
  <2> SUFFICES ASSUME IInv PROVE ViewsAreCurrent
    OBVIOUS
  <2>1. CASE canon_view = Nobody /\ extra_view = Nobody
    BY <2>1 DEF ViewsAreCurrent
  <2>2. CASE \E p, q \in reported : p # q /\ canon_view = View(p) /\ extra_view = View(q)
    <3>1. PICK p \in reported, q \in reported :
             p # q /\ canon_view = View(p) /\ extra_view = View(q)
      BY <2>2
    <3>2. p \in Orders /\ q \in Orders /\ graph \in Graphs
      BY NobodyIsNew DEF IInv, LeavesKnown
    <3>3. canon_view # Nobody /\ extra_view # Nobody
      BY <3>1, <3>2, NobodyIsNew
    <3>4. canon_view.leaf = p /\ extra_view.leaf = q
      BY <3>1, <3>2, ViewFacts
    <3> QED
      BY <3>1, <3>3, <3>4 DEF ViewsAreCurrent
  <2> QED
    BY <2>1, <2>2 DEF IInv, ViewsKnown
<1> QED
  BY <1>1, Known, PTL

(* What report_leaf gives to the visitors as an automorphism is one, also  *)
(* where a difference of two SizeTypes loses its sign.                     *)
THEOREM AutomorphismsAlwaysReal == Spec => []AutomorphismsAreReal
<1>1. IInv => AutomorphismsAreReal
  BY DEF IInv
<1> QED
  BY <1>1, Known, PTL

(* Where differences keep their sign, the candidate is the least of the    *)
(* leaves in the order of the user's comparison of ordered graphs, and the *)
(* leaves and orders equal to it are those an automorphism leads to.       *)
THEOREM OrderAlwaysCanonical ==
  ASSUME ~DifferenceWraps
  PROVE  Spec => []CanonicalOrder
<1>1. IInv => CanonicalOrder
  <2> SUFFICES ASSUME IInv, canon_leaf # Nobody
               PROVE  /\ canon_leaf \in since
                      /\ \A p \in since :
                           /\ ~Users!OrderedGraphLess(InOrder(p), InOrder(canon_leaf))
                           /\ Users!OrderedGraphEqual(InOrder(p), InOrder(canon_leaf)) <=>
                                p = canon_leaf \/ MapOf(canon_leaf, p) \in found
                      /\ \A p \in Orders :
                           Users!OrderedGraphEqual(InOrder(p), InOrder(canon_leaf)) <=>
                             IsAutomorphism(MapOf(canon_leaf, p))
    BY DEF CanonicalOrder
  <2>1. /\ graph \in Graphs /\ since \subseteq Leaves
        /\ canon_leaf \in since /\ canon_leaf \in Leaves /\ canon_leaf \in Orders
    BY NobodyIsNew DEF IInv, LeavesKnown
  <2>2. ASSUME NEW p \in Orders
        PROVE  Users!OrderedGraphEqual(InOrder(p), InOrder(canon_leaf)) <=>
                 IsAutomorphism(MapOf(canon_leaf, p))
    <3>1. IsAutomorphism(MapOf(canon_leaf, p)) <=> SameGraph(p, canon_leaf)
      BY <2>1, AutomorphismIsSame, SameIsAutomorphism
    <3> QED
      BY <2>1, <3>1, EqualFacts
  <2>3. ASSUME NEW p \in since
        PROVE  /\ ~Users!OrderedGraphLess(InOrder(p), InOrder(canon_leaf))
               /\ Users!OrderedGraphEqual(InOrder(p), InOrder(canon_leaf)) <=>
                    p = canon_leaf \/ MapOf(canon_leaf, p) \in found
    <3>1. p \in Leaves /\ p \in Orders
      BY <2>1, NobodyIsNew
    <3>2. /\ Compare(View(p), View(canon_leaf)) \in Int
          /\ Compare(View(p), View(canon_leaf)) >= 0
          /\ Compare(View(p), View(canon_leaf)) = 0 =>
               p = canon_leaf \/ MapOf(canon_leaf, p) \in found
      BY <2>1, <3>1, CompareFacts DEF IInv, LeastKnown
    <3>3. ~Users!OrderedGraphLess(InOrder(p), InOrder(canon_leaf))
      <4>1. ASSUME Users!OrderedGraphLess(InOrder(p), InOrder(canon_leaf))
            PROVE  Compare(View(p), View(canon_leaf)) < 0
        BY <2>1, <3>1, <4>1, LessFacts
      <4> QED
        BY <3>2, <4>1
    <3>4. ASSUME SameGraph(p, canon_leaf)
          PROVE  p = canon_leaf \/ MapOf(canon_leaf, p) \in found
      <4>1. \A i \in Indices : SameEntry(p, canon_leaf, i)
        BY <3>4 DEF SameGraph
      <4>2. Compare(View(p), View(canon_leaf)) = 0
        BY <2>1, <3>1, <4>1, CompareFacts
      <4> QED
        BY <3>2, <4>2
    <3>5. ASSUME p = canon_leaf \/ MapOf(canon_leaf, p) \in found
          PROVE  SameGraph(p, canon_leaf)
      <4>1. CASE p = canon_leaf
        BY <4>1 DEF SameGraph, SameEntry, SameAt
      <4>2. CASE MapOf(canon_leaf, p) \in found
        <5>1. IsAutomorphism(MapOf(canon_leaf, p))
          BY <4>2 DEF IInv, AutomorphismsAreReal
        <5> QED
          BY <2>1, <3>1, <5>1, AutomorphismIsSame
      <4> QED
        BY <3>5, <4>1, <4>2
    <3>6. Users!OrderedGraphEqual(InOrder(p), InOrder(canon_leaf)) <=> SameGraph(p, canon_leaf)
      BY <2>1, <3>1, EqualFacts
    <3> QED
      BY <3>3, <3>4, <3>5, <3>6
  <2> QED
    BY <2>1, <2>2, <2>3
<1> QED
  BY <1>1, Known, PTL
=============================================================================
