-------------------------- MODULE Traversal_proofs --------------------------
(***************************************************************************)
(* What holds whichever traversal constructs the nodes, for every search   *)
(* tree and every set of providers.  First the record of the best trace:   *)
(* the coordinator counts elements, each provider keeps values of its own, *)
(* and a node only knows how far it has got in each of them.  Then the     *)
(* steps: of a construction, of pruning, of reporting a leaf.              *)
(***************************************************************************)
EXTENDS TraverseDFS, FiniteSetTheorems, WellFoundedInduction, TLAPS

-----------------------------------------------------------------------------
(* The record as a function of the traces, so that it can be compared      *)
(* before and after a step.                                                *)

Where(v, s) == {i \in 1 .. Len(s) : s[i] = v}
PlacesBelow(v, tr, l) ==
  UNION {{<<k, i>> : i \in {j \in 1 .. Len(tr[k]) : tr[k][j] = v}} : k \in 0 .. l - 1}
Below(v, tr, l) == Cardinality(PlacesBelow(v, tr, l))

(* How far provider v is in its values after m elements of level l.        *)
Position(v, tr, l, m) ==
  (IF v \in PerLevel THEN 0 ELSE Below(v, tr, l)) + Count(v, SubSeq(tr[l], 1, m))

RecordOf(tr, vals, l) ==
  [i \in 1 .. Len(tr[l]) |->
     LET v == tr[l][i]
         k == Position(v, tr, l, i)
         own == vals[v][Slot(v, l)]
     IN IF k <= Len(own) THEN <<v, own[k]>> ELSE <<v>>]

Traces == [Levels -> Seq(Visitors)]
AllValues == [Visitors -> [Levels -> Seq(Nat)]]

(* Each provider has the values the coordinator has it down for.           *)
Lengths(tr, vals) ==
  \A v \in Visitors :
    IF v \in PerLevel THEN \A l \in Levels : Len(vals[v][l]) = Count(v, tr[l])
                      ELSE Len(vals[v][0]) = Below(v, tr, MaxDepth + 1)

(* The traces once a node at level l adds (v, x) after p of its elements.  *)
TraceAt(tr, l, p, v) ==
  [i \in Levels |-> IF i = l THEN Append(Truncate(tr[l], p), v)
                    ELSE IF i < l THEN tr[i] ELSE <<>>]
Shortened(tr, vals, l, p, u, i) ==
  IF i = Slot(u, l) THEN Truncate(vals[u][i], Position(u, tr, l, p))
  ELSE IF u \in PerLevel /\ i > l THEN <<>> ELSE vals[u][i]
ValuesAt(tr, vals, l, p, v, x) ==
  [u \in Visitors |->
     [i \in Levels |-> IF u = v /\ i = Slot(v, l)
                       THEN Append(Shortened(tr, vals, l, p, u, i), x)
                       ELSE Shortened(tr, vals, l, p, u, i)]]

-----------------------------------------------------------------------------
(* Sequences and counting.                                                 *)

(* A prefix of a sequence.                                                 *)
LEMMA Prefix ==
  ASSUME NEW S, NEW s \in Seq(S), NEW k \in Nat, k <= Len(s)
  PROVE  SubSeq(s, 1, k) \in Seq(S) /\ Len(SubSeq(s, 1, k)) = k
OBVIOUS

LEMMA LenNat ==
  ASSUME NEW S, NEW s \in Seq(S)
  PROVE  Len(s) \in Nat
OBVIOUS

LEMMA ElementOf ==
  ASSUME NEW S, NEW s \in Seq(S), NEW i \in 1 .. Len(s)
  PROVE  s[i] \in S
OBVIOUS

LEMMA PrefixElements ==
  ASSUME NEW S, NEW s \in Seq(S), NEW k \in 0 .. Len(s), NEW i \in 1 .. k
  PROVE  SubSeq(s, 1, k)[i] = s[i]
OBVIOUS

LEMMA WholePrefix ==
  ASSUME NEW S, NEW s \in Seq(S)
  PROVE  SubSeq(s, 1, Len(s)) = s
OBVIOUS

LEMMA LongerPrefix ==
  ASSUME NEW S, NEW s \in Seq(S), NEW k \in 0 .. Len(s) - 1
  PROVE  SubSeq(s, 1, k + 1) = Append(SubSeq(s, 1, k), s[k + 1])
OBVIOUS

LEMMA PrefixOfPrefix ==
  ASSUME NEW S, NEW s \in Seq(S), NEW k \in 0 .. Len(s), NEW j \in 0 .. k
  PROVE  SubSeq(SubSeq(s, 1, k), 1, j) = SubSeq(s, 1, j)
OBVIOUS

LEMMA Appended ==
  ASSUME NEW S, NEW s \in Seq(S), NEW x \in S
  PROVE  /\ Append(s, x) \in Seq(S)
         /\ Len(Append(s, x)) = Len(s) + 1
         /\ \A i \in 1 .. Len(s) : Append(s, x)[i] = s[i]
         /\ Append(s, x)[Len(s) + 1] = x
OBVIOUS

LEMMA AppendedPrefix ==
  ASSUME NEW S, NEW s \in Seq(S), NEW x \in S, NEW k \in 0 .. Len(s)
  PROVE  SubSeq(Append(s, x), 1, k) = SubSeq(s, 1, k)
OBVIOUS

LEMMA EqualSequences ==
  ASSUME NEW S, NEW s \in Seq(S), NEW t \in Seq(S), Len(s) = Len(t),
         \A i \in 1 .. Len(s) : s[i] = t[i]
  PROVE  s = t
OBVIOUS

LEMMA CountType ==
  ASSUME NEW S, NEW s \in Seq(S), NEW v
  PROVE  Count(v, s) \in Nat /\ IsFiniteSet(Where(v, s)) /\ Count(v, s) = Cardinality(Where(v, s))
<1>1. Len(s) \in Int
  BY LenNat
<1>2. IsFiniteSet(1 .. Len(s))
  BY <1>1, FS_Interval
<1>3. Where(v, s) \in SUBSET (1 .. Len(s))
  BY DEF Where
<1> QED
  BY <1>2, <1>3, FS_Subset, FS_CardinalityType DEF Count, Where

LEMMA CountEmpty == ASSUME NEW v PROVE Count(v, <<>>) = 0
<1>1. {i \in 1 .. Len(<<>>) : <<>>[i] = v} = {}
  OBVIOUS
<1> QED
  BY <1>1, FS_EmptySet DEF Count

LEMMA CountAppend ==
  ASSUME NEW S, NEW s \in Seq(S), NEW x \in S, NEW v
  PROVE  Count(v, Append(s, x)) = Count(v, s) + (IF x = v THEN 1 ELSE 0)
<1> DEFINE n == Len(s) + 1
<1>1. Where(v, Append(s, x)) = IF x = v THEN Where(v, s) \cup {n} ELSE Where(v, s)
  <2>1. /\ Len(Append(s, x)) = n /\ Len(s) \in Nat
        /\ \A i \in 1 .. Len(s) : Append(s, x)[i] = s[i]
        /\ Append(s, x)[n] = x
    BY Appended, LenNat
  <2>2. 1 .. n = (1 .. Len(s)) \cup {n}
    BY <2>1
  <2> QED
    BY <2>1, <2>2 DEF Where
<1>2. n \notin Where(v, s)
  BY LenNat DEF Where
<1>3. /\ Append(s, x) \in Seq(S)
      /\ Count(v, s) \in Nat /\ Count(v, s) = Cardinality(Where(v, s)) /\ IsFiniteSet(Where(v, s))
  BY CountType, Appended
<1>4. Count(v, Append(s, x)) = Cardinality(Where(v, Append(s, x)))
  BY <1>3, CountType
<1>5. CASE x = v
  <2>1. Cardinality(Where(v, s) \cup {n}) = Cardinality(Where(v, s)) + 1
    BY <1>2, <1>3, FS_AddElement
  <2> QED
    BY <1>1, <1>3, <1>4, <1>5, <2>1
<1>6. CASE x # v
  BY <1>1, <1>3, <1>4, <1>6
<1> QED
  BY <1>5, <1>6

(* A longer prefix has at least as many, and more if there is one between. *)
LEMMA CountPrefix ==
  ASSUME NEW S, NEW s \in Seq(S), NEW k \in 0 .. Len(s), NEW j \in 0 .. k, NEW v
  PROVE  Count(v, SubSeq(s, 1, j)) <= Count(v, SubSeq(s, 1, k))
<1>1. Len(s) \in Nat /\ k \in Nat /\ j \in Nat /\ k <= Len(s) /\ j <= Len(s) /\ j <= k
  BY LenNat
<1>2. /\ SubSeq(s, 1, j) \in Seq(S) /\ SubSeq(s, 1, k) \in Seq(S)
      /\ Len(SubSeq(s, 1, j)) = j /\ Len(SubSeq(s, 1, k)) = k
  BY <1>1, Prefix
<1>3. Where(v, SubSeq(s, 1, j)) \in SUBSET Where(v, SubSeq(s, 1, k))
  <2>1. ASSUME NEW i \in 1 .. j PROVE SubSeq(s, 1, j)[i] = SubSeq(s, 1, k)[i] /\ i \in 1 .. k
    BY <1>1
  <2> QED
    BY <1>2, <2>1 DEF Where
<1>4. Cardinality(Where(v, SubSeq(s, 1, j))) <= Cardinality(Where(v, SubSeq(s, 1, k)))
  BY <1>2, <1>3, CountType, FS_Subset
<1> QED
  BY <1>2, <1>4, CountType

LEMMA CountAt ==
  ASSUME NEW S, NEW s \in Seq(S), NEW i \in 1 .. Len(s)
  PROVE  Count(s[i], SubSeq(s, 1, i)) = Count(s[i], SubSeq(s, 1, i - 1)) + 1
<1>1. Len(s) \in Nat /\ i - 1 \in 0 .. Len(s) - 1 /\ i - 1 \in Nat /\ i - 1 <= Len(s)
      /\ (i - 1) + 1 = i /\ s[i] \in S
  BY LenNat, ElementOf
<1>2. SubSeq(s, 1, i) = Append(SubSeq(s, 1, i - 1), s[i])
  BY <1>1, LongerPrefix
<1>3. SubSeq(s, 1, i - 1) \in Seq(S)
  BY <1>1, Prefix
<1> QED
  BY <1>1, <1>2, <1>3, CountAppend

-----------------------------------------------------------------------------
(* The elements of a provider on the levels below one.                     *)

LEMMA LevelsFinite ==
  ASSUME NEW tr \in Traces, NEW l \in 0 .. MaxDepth + 1
  PROVE  /\ IsFiniteSet(0 .. l - 1)
         /\ \A k \in 0 .. l - 1 : k \in Levels /\ tr[k] \in Seq(Visitors)
<1>1. l \in Int /\ l - 1 \in Int /\ 0 .. l - 1 \in SUBSET Levels
  BY VisitorsAssumption DEF Levels
<1> QED
  BY <1>1, FS_Interval DEF Traces

LEMMA LevelPlaces ==
  ASSUME NEW tr \in Traces, NEW l \in Levels, NEW v
  PROVE  /\ IsFiniteSet({<<l, i>> : i \in Where(v, tr[l])})
         /\ Cardinality({<<l, i>> : i \in Where(v, tr[l])}) = Count(v, tr[l])
<1> DEFINE W == Where(v, tr[l])
           P == {<<l, i>> : i \in W}
           f == [i \in W |-> <<l, i>>]
<1>1. IsFiniteSet(W) /\ Cardinality(W) = Count(v, tr[l])
  BY CountType DEF Traces
<1> HIDE DEF W
<1>2. f \in Bijection(W, P)
  BY DEF Bijection, Injection, IsInjective, Surjection
<1>3. ExistsBijection(W, P)
  BY <1>2 DEF ExistsBijection
<1> HIDE DEF P
<1>4. IsFiniteSet(P) /\ Cardinality(P) = Cardinality(W)
  BY <1>1, <1>3, FS_Bijection
<1> QED
  BY <1>1, <1>4 DEF P, W

LEMMA PlacesNext ==
  ASSUME NEW v, NEW tr, NEW l \in Nat
  PROVE  PlacesBelow(v, tr, l + 1) = PlacesBelow(v, tr, l) \cup {<<l, i>> : i \in Where(v, tr[l])}
<1>1. 0 .. (l + 1) - 1 = (0 .. l - 1) \cup {l}
  OBVIOUS
<1> QED
  BY <1>1 DEF PlacesBelow, Where

LEMMA PlacesFinite ==
  ASSUME NEW tr \in Traces, NEW l \in 0 .. MaxDepth + 1, NEW v
  PROVE  IsFiniteSet(PlacesBelow(v, tr, l)) /\ Below(v, tr, l) \in Nat
<1> DEFINE P(k) == {<<k, i>> : i \in Where(v, tr[k])}
           F == {P(k) : k \in 0 .. l - 1}
<1>1. \A k \in 0 .. l - 1 : IsFiniteSet(P(k))
  BY LevelsFinite, LevelPlaces
<1>2. IsFiniteSet(F)
  <2> HIDE DEF P
  <2>1. IsFiniteSet(0 .. l - 1)
    BY LevelsFinite
  <2> DEFINE g == [k \in 0 .. l - 1 |-> P(k)]
  <2>2. g \in Surjection(0 .. l - 1, F)
    BY DEF Surjection
  <2> QED
    BY <2>1, <2>2, FS_Surjection
<1>3. IsFiniteSet(UNION F)
  <2> HIDE DEF P
  <2> QED
    BY <1>1, <1>2, FS_UNION
<1>4. PlacesBelow(v, tr, l) = UNION F
  BY DEF PlacesBelow, Where
<1> QED
  BY <1>3, <1>4, FS_CardinalityType DEF Below

LEMMA BelowNext ==
  ASSUME NEW tr \in Traces, NEW l \in Levels, NEW v
  PROVE  Below(v, tr, l + 1) = Below(v, tr, l) + Count(v, tr[l])
<1> DEFINE P == PlacesBelow(v, tr, l)
           Q == {<<l, i>> : i \in Where(v, tr[l])}
<1>1. l \in Nat /\ l \in 0 .. MaxDepth + 1
  BY VisitorsAssumption DEF Levels
<1>2. IsFiniteSet(P) /\ IsFiniteSet(Q) /\ Cardinality(Q) = Count(v, tr[l])
  BY <1>1, PlacesFinite, LevelPlaces
<1>3. PlacesBelow(v, tr, l + 1) = P \cup Q
  BY <1>1, PlacesNext
<1>4. P \cap Q = {}
  BY <1>1 DEF PlacesBelow
<1>5. Cardinality(P) \in Nat /\ Count(v, tr[l]) \in Nat
  BY <1>2, FS_CardinalityType
<1>8. Below(v, tr, l) = Cardinality(P) /\ Below(v, tr, l + 1) = Cardinality(P \cup Q)
  BY <1>3 DEF Below
<1> HIDE DEF P, Q
<1>6. Cardinality(P \cup Q) = Cardinality(P) + Cardinality(Q) - Cardinality({})
  BY <1>2, <1>4, FS_Union
<1>7. Cardinality({}) = 0
  BY FS_EmptySet
<1> QED
  BY <1>2, <1>5, <1>6, <1>7, <1>8

LEMMA BelowGrows ==
  ASSUME NEW tr \in Traces, NEW l \in 0 .. MaxDepth + 1, NEW k \in 0 .. l, NEW v
  PROVE  Below(v, tr, k) <= Below(v, tr, l)
<1>1. k \in 0 .. MaxDepth + 1 /\ 0 .. k - 1 \in SUBSET (0 .. l - 1)
  BY VisitorsAssumption
<1>2. PlacesBelow(v, tr, k) \in SUBSET PlacesBelow(v, tr, l)
  BY <1>1 DEF PlacesBelow
<1> QED
  BY <1>2, PlacesFinite, FS_Subset DEF Below

(* It depends on no other level.                                           *)
LEMMA BelowSame ==
  ASSUME NEW tr, NEW ts, NEW l, \A k \in 0 .. l - 1 : tr[k] = ts[k], NEW v
  PROVE  Below(v, tr, l) = Below(v, ts, l)
<1>1. PlacesBelow(v, tr, l) = PlacesBelow(v, ts, l)
  BY DEF PlacesBelow
<1> QED
  BY <1>1 DEF Below

(* Levels where nothing is recorded do not count.                          *)
LEMMA BelowEmpty ==
  ASSUME NEW tr, NEW l \in 0 .. MaxDepth + 1, \A k \in l .. MaxDepth : tr[k] = <<>>, NEW v
  PROVE  Below(v, tr, MaxDepth + 1) = Below(v, tr, l)
<1>1. 0 .. MaxDepth = (0 .. l - 1) \cup (l .. MaxDepth)
  BY VisitorsAssumption DEF Levels
<1>2. \A k \in l .. MaxDepth : {j \in 1 .. Len(tr[k]) : tr[k][j] = v} = {}
  OBVIOUS
<1>3. PlacesBelow(v, tr, MaxDepth + 1) = PlacesBelow(v, tr, l)
  <2>1. (MaxDepth + 1) - 1 = MaxDepth
    BY VisitorsAssumption
  <2> QED
    BY <1>1, <1>2, <2>1 DEF PlacesBelow
<1> QED
  BY <1>3 DEF Below

-----------------------------------------------------------------------------
(* Positions in a provider's values.                                       *)

LEMMA SlotType ==
  ASSUME NEW v, NEW l \in Levels
  PROVE  Slot(v, l) \in Levels
BY VisitorsAssumption DEF Slot, Levels

LEMMA PositionType ==
  ASSUME NEW tr \in Traces, NEW l \in Levels, NEW m \in 0 .. Len(tr[l]), NEW v
  PROVE  /\ Position(v, tr, l, m) \in Nat
         /\ \A k \in 0 .. m : Position(v, tr, l, k) <= Position(v, tr, l, m)
<1>1. tr[l] \in Seq(Visitors) /\ Len(tr[l]) \in Nat /\ l \in 0 .. MaxDepth + 1
  BY LenNat, VisitorsAssumption DEF Traces, Levels
<1>2. Below(v, tr, l) \in Nat
  BY <1>1, PlacesFinite
<1>3. ASSUME NEW k \in 0 .. Len(tr[l]) PROVE Count(v, SubSeq(tr[l], 1, k)) \in Nat
  <2>1. k \in Nat /\ k <= Len(tr[l])
    BY <1>1
  <2>2. SubSeq(tr[l], 1, k) \in Seq(Visitors)
    BY <1>1, <2>1, Prefix
  <2> QED
    BY <2>2, CountType
<1>4. \A k \in 0 .. m : Count(v, SubSeq(tr[l], 1, k)) <= Count(v, SubSeq(tr[l], 1, m))
  BY <1>1, CountPrefix
<1>5. \A k \in 0 .. m : k \in 0 .. Len(tr[l])
  BY <1>1
<1> QED
  BY <1>2, <1>3, <1>4, <1>5 DEF Position

(* The end of a level, and the number of values there are.                 *)
LEMMA PositionAtEnd ==
  ASSUME NEW tr \in Traces, NEW l \in Levels, NEW v
  PROVE  Position(v, tr, l, Len(tr[l])) = IF v \in PerLevel THEN Count(v, tr[l])
                                          ELSE Below(v, tr, l + 1)
<1>1. tr[l] \in Seq(Visitors)
  BY DEF Traces
<1>2. SubSeq(tr[l], 1, Len(tr[l])) = tr[l]
  BY <1>1, WholePrefix
<1>3. Below(v, tr, l + 1) = Below(v, tr, l) + Count(v, tr[l])
  BY BelowNext
<1>4. Count(v, tr[l]) \in Nat
  BY <1>1, CountType
<1>5. Position(v, tr, l, Len(tr[l])) = (IF v \in PerLevel THEN 0 ELSE Below(v, tr, l)) + Count(v, tr[l])
  BY <1>2 DEF Position
<1> QED
  BY <1>3, <1>4, <1>5

LEMMA PositionInside ==
  ASSUME NEW tr \in Traces, NEW vals, Lengths(tr, vals),
         NEW l \in Levels, NEW m \in 0 .. Len(tr[l]), NEW v \in Visitors
  PROVE  Position(v, tr, l, m) <= Len(vals[v][Slot(v, l)])
<1> DEFINE e == Len(tr[l])
<1>1. e \in Nat /\ e \in 0 .. Len(tr[l]) /\ m \in 0 .. e
  BY LenNat DEF Traces
<1>2. Position(v, tr, l, m) <= Position(v, tr, l, e)
  BY <1>1, PositionType
<1>3. Position(v, tr, l, e) \in Nat /\ Position(v, tr, l, m) \in Nat
  BY <1>1, PositionType
<1> HIDE DEF e
<1>4. Position(v, tr, l, e) = IF v \in PerLevel THEN Count(v, tr[l]) ELSE Below(v, tr, l + 1)
  BY PositionAtEnd DEF e
<1>5. CASE v \in PerLevel
  BY <1>2, <1>4, <1>5 DEF Lengths, Slot
<1>6. CASE v \notin PerLevel
  <2>1. l + 1 \in 0 .. MaxDepth + 1 /\ MaxDepth + 1 \in 0 .. MaxDepth + 1
    BY VisitorsAssumption DEF Levels
  <2>2. Below(v, tr, l + 1) <= Below(v, tr, MaxDepth + 1)
    BY <2>1, BelowGrows
  <2>3. Below(v, tr, l + 1) \in Nat /\ Below(v, tr, MaxDepth + 1) \in Nat
    BY <2>1, PlacesFinite
  <2>4. Len(vals[v][Slot(v, l)]) = Below(v, tr, MaxDepth + 1)
    BY <1>6 DEF Lengths, Slot
  <2> QED
    BY <1>2, <1>3, <1>4, <1>6, <2>2, <2>3, <2>4
<1> QED
  BY <1>5, <1>6

(* Positions only depend on the levels below and the places before.        *)
LEMMA PositionSame ==
  ASSUME NEW tr \in Traces, NEW ts \in Traces, NEW l \in Levels,
         \A k \in 0 .. l - 1 : tr[k] = ts[k],
         NEW m \in 0 .. Len(tr[l]), m <= Len(ts[l]), \A i \in 1 .. m : tr[l][i] = ts[l][i],
         NEW v
  PROVE  Position(v, tr, l, m) = Position(v, ts, l, m)
<1>1. tr[l] \in Seq(Visitors) /\ ts[l] \in Seq(Visitors) /\ m \in Nat /\ m <= Len(tr[l])
  BY LenNat DEF Traces
<1>2. SubSeq(tr[l], 1, m) = SubSeq(ts[l], 1, m)
  BY <1>1
<1>3. Below(v, tr, l) = Below(v, ts, l)
  BY BelowSame
<1> QED
  BY <1>2, <1>3 DEF Position

(* One element further.                                                    *)
LEMMA PositionNext ==
  ASSUME NEW tr \in Traces, NEW l \in Levels, NEW m \in 0 .. Len(tr[l]) - 1, NEW v
  PROVE  Position(v, tr, l, m + 1) = Position(v, tr, l, m) + (IF tr[l][m + 1] = v THEN 1 ELSE 0)
<1>1. tr[l] \in Seq(Visitors) /\ Len(tr[l]) \in Nat
  BY LenNat DEF Traces
<1>2. /\ m \in Nat /\ m <= Len(tr[l]) /\ m \in 0 .. Len(tr[l])
      /\ m + 1 \in 1 .. Len(tr[l]) /\ tr[l][m + 1] \in Visitors
  BY <1>1, ElementOf
<1>3. SubSeq(tr[l], 1, m + 1) = Append(SubSeq(tr[l], 1, m), tr[l][m + 1])
  BY <1>1, <1>2, LongerPrefix
<1>4. SubSeq(tr[l], 1, m) \in Seq(Visitors)
  BY <1>1, <1>2, Prefix
<1>5. Count(v, SubSeq(tr[l], 1, m)) \in Nat
  BY <1>4, CountType
<1>6. Below(v, tr, l) \in Nat
  BY PlacesFinite, VisitorsAssumption DEF Levels
<1>7. Count(v, SubSeq(tr[l], 1, m + 1)) =
        Count(v, SubSeq(tr[l], 1, m)) + (IF tr[l][m + 1] = v THEN 1 ELSE 0)
  <2>1. Count(v, Append(SubSeq(tr[l], 1, m), tr[l][m + 1])) =
          Count(v, SubSeq(tr[l], 1, m)) + (IF tr[l][m + 1] = v THEN 1 ELSE 0)
    BY <1>2, <1>4, CountAppend
  <2> QED
    BY <1>3, <2>1
<1> QED
  BY <1>5, <1>6, <1>7 DEF Position

LEMMA PositionOfElement ==
  ASSUME NEW tr \in Traces, NEW l \in Levels, NEW i \in 1 .. Len(tr[l])
  PROVE  Position(tr[l][i], tr, l, i) >= 1
<1>1. tr[l] \in Seq(Visitors) /\ Len(tr[l]) \in Nat
  BY LenNat DEF Traces
<1>2. i - 1 \in 0 .. Len(tr[l]) - 1 /\ i - 1 \in 0 .. Len(tr[l]) /\ (i - 1) + 1 = i
  BY <1>1
<1> DEFINE v == tr[l][i]
           a == Position(v, tr, l, i - 1)
<1>3. a \in Nat
  BY <1>2, PositionType
<1>4. Position(v, tr, l, (i - 1) + 1) = a + (IF tr[l][(i - 1) + 1] = v THEN 1 ELSE 0)
  BY <1>2, PositionNext
<1> HIDE DEF a
<1> QED
  BY <1>2, <1>3, <1>4

-----------------------------------------------------------------------------
(* What is recorded of a level.                                            *)

LEMMA RecordEntries ==
  ASSUME NEW tr \in Traces, NEW vals \in AllValues, Lengths(tr, vals), NEW l \in Levels
  PROVE  /\ RecordOf(tr, vals, l) \in Seq(Elements)
         /\ Len(RecordOf(tr, vals, l)) = Len(tr[l])
         /\ \A i \in 1 .. Len(tr[l]) :
              RecordOf(tr, vals, l)[i] =
                <<tr[l][i], vals[tr[l][i]][Slot(tr[l][i], l)][Position(tr[l][i], tr, l, i)]>>
<1> DEFINE n == Len(tr[l])
           v(i) == tr[l][i]
           own(i) == vals[v(i)][Slot(v(i), l)]
           k(i) == Position(v(i), tr, l, i)
<1>1. n \in Nat /\ tr[l] \in Seq(Visitors)
  BY LenNat DEF Traces
<1>2. ASSUME NEW i \in 1 .. n
      PROVE  v(i) \in Visitors /\ k(i) \in 1 .. Len(own(i)) /\ own(i) \in Seq(Nat)
  <2>1. v(i) \in Visitors
    BY <1>1, ElementOf
  <2>2. own(i) \in Seq(Nat)
    BY <2>1, SlotType DEF AllValues
  <2>3. i \in 0 .. Len(tr[l])
    BY <1>1
  <2>4. k(i) >= 1
    BY PositionOfElement
  <2>5. k(i) <= Len(own(i))
    BY <2>1, <2>3, PositionInside
  <2>6. k(i) \in Nat
    BY <2>3, PositionType
  <2> HIDE DEF k, own
  <2> QED
    BY <2>1, <2>2, <2>4, <2>5, <2>6, LenNat
<1> DEFINE e(i) == <<v(i), own(i)[k(i)]>>
<1>3. ASSUME NEW i \in 1 .. n PROVE e(i) \in Elements
  <2>1. own(i)[k(i)] \in Nat
    <3> HIDE DEF k, own
    <3> QED
      BY <1>2, ElementOf
  <2> QED
    BY <1>2, <2>1 DEF Elements
<1>4. ASSUME NEW i \in 1 .. n
      PROVE  (IF k(i) <= Len(own(i)) THEN <<v(i), own(i)[k(i)]>> ELSE <<v(i)>>) = e(i)
  <2>1. k(i) <= Len(own(i))
    <3> HIDE DEF k, own
    <3> QED
      BY <1>2
  <2> QED
    BY <2>1
<1>5. RecordOf(tr, vals, l) = [i \in 1 .. n |-> e(i)]
  BY <1>4 DEF RecordOf
<1> HIDE DEF e
<1>6. [i \in 1 .. n |-> e(i)] \in Seq(Elements)
  BY <1>1, <1>3
<1>7. Len([i \in 1 .. n |-> e(i)]) = n
  BY <1>1
<1> QED
  BY <1>5, <1>6, <1>7 DEF e

(* The traces agree below level l and on the first m of its elements.      *)
Alike(tr, vals, ts, ws, l, m) ==
  /\ \A k \in 0 .. l - 1 : tr[k] = ts[k]
  /\ m <= Len(ts[l])
  /\ \A i \in 1 .. m : tr[l][i] = ts[l][i]
  /\ \A v \in Visitors : \A k \in 1 .. Position(v, tr, l, m) :
       vals[v][Slot(v, l)][k] = ws[v][Slot(v, l)][k]

LEMMA RecordSame ==
  ASSUME NEW tr \in Traces, NEW vals \in AllValues, Lengths(tr, vals),
         NEW ts \in Traces, NEW ws \in AllValues, Lengths(ts, ws),
         NEW l \in Levels, NEW m \in 0 .. Len(tr[l]), Alike(tr, vals, ts, ws, l, m)
  PROVE  \A i \in 1 .. m : RecordOf(tr, vals, l)[i] = RecordOf(ts, ws, l)[i]
<1> SUFFICES ASSUME NEW i \in 1 .. m
             PROVE  RecordOf(tr, vals, l)[i] = RecordOf(ts, ws, l)[i]
  OBVIOUS
<1> DEFINE v == tr[l][i]
<1>0. /\ \A k \in 0 .. l - 1 : tr[k] = ts[k]
      /\ m <= Len(ts[l])
      /\ \A j \in 1 .. m : tr[l][j] = ts[l][j]
  BY DEF Alike
<1>1. /\ tr[l] \in Seq(Visitors) /\ ts[l] \in Seq(Visitors)
      /\ Len(tr[l]) \in Nat /\ Len(ts[l]) \in Nat
  BY LenNat DEF Traces
<1>2. /\ i \in 1 .. Len(tr[l]) /\ i \in 1 .. Len(ts[l]) /\ i \in 0 .. m /\ i \in 0 .. Len(tr[l])
      /\ i <= Len(ts[l]) /\ \A j \in 1 .. i : tr[l][j] = ts[l][j]
  BY <1>0, <1>1
<1>3. v \in Visitors /\ ts[l][i] = v
  BY <1>0, <1>1, <1>2, ElementOf
<1>4. Position(v, tr, l, i) = Position(v, ts, l, i)
  BY <1>0, <1>2, PositionSame
<1>5. Position(v, tr, l, i) \in 1 .. Position(v, tr, l, m)
  <2>1. Position(v, tr, l, i) <= Position(v, tr, l, m)
    BY <1>2, PositionType
  <2>2. Position(v, tr, l, i) \in Nat /\ Position(v, tr, l, m) \in Nat
    BY <1>2, PositionType
  <2>3. Position(v, tr, l, i) >= 1
    BY <1>2, PositionOfElement
  <2> QED
    BY <2>1, <2>2, <2>3
<1>6. RecordOf(tr, vals, l)[i] = <<v, vals[v][Slot(v, l)][Position(v, tr, l, i)]>>
  BY <1>2, RecordEntries
<1>7. RecordOf(ts, ws, l)[i] = <<v, ws[v][Slot(v, l)][Position(v, ts, l, i)]>>
  BY <1>2, <1>3, RecordEntries
<1>8. vals[v][Slot(v, l)][Position(v, tr, l, i)] = ws[v][Slot(v, l)][Position(v, tr, l, i)]
  BY <1>3, <1>5 DEF Alike
<1> HIDE DEF v
<1> QED
  BY <1>4, <1>6, <1>7, <1>8

-----------------------------------------------------------------------------
(* A node at level l adds (v, x) after p of its elements.                  *)

LEMMA TraceGoesOn ==
  ASSUME NEW tr \in Traces, NEW l \in Levels, NEW p \in 0 .. Len(tr[l]), NEW v \in Visitors
  PROVE  /\ TraceAt(tr, l, p, v) \in Traces
         /\ Len(TraceAt(tr, l, p, v)[l]) = p + 1
         /\ \A i \in 1 .. p : TraceAt(tr, l, p, v)[l][i] = tr[l][i]
         /\ TraceAt(tr, l, p, v)[l][p + 1] = v
         /\ \A j \in 0 .. l - 1 : TraceAt(tr, l, p, v)[j] = tr[j]
         /\ \A j \in Levels : j > l => TraceAt(tr, l, p, v)[j] = <<>>
<1> DEFINE s == Truncate(tr[l], p)
<1>1. tr[l] \in Seq(Visitors) /\ p \in Nat /\ p <= Len(tr[l])
  BY LenNat DEF Traces
<1>2. s \in Seq(Visitors) /\ Len(s) = p
  BY <1>1, Prefix DEF Truncate
<1>3. \A i \in 1 .. p : s[i] = tr[l][i]
  BY <1>1, PrefixElements DEF Truncate
<1> HIDE DEF s
<1>4. /\ Append(s, v) \in Seq(Visitors) /\ Len(Append(s, v)) = p + 1
      /\ \A i \in 1 .. p : Append(s, v)[i] = tr[l][i]
      /\ Append(s, v)[p + 1] = v
  BY <1>2, <1>3, Appended
<1>5. TraceAt(tr, l, p, v) = [i \in Levels |-> IF i = l THEN Append(s, v)
                                               ELSE IF i < l THEN tr[i] ELSE <<>>]
  BY DEF TraceAt, s
<1>6. TraceAt(tr, l, p, v)[l] = Append(s, v)
  BY <1>5
<1>7. ASSUME NEW j \in 0 .. l - 1 PROVE TraceAt(tr, l, p, v)[j] = tr[j]
  BY <1>5, VisitorsAssumption DEF Levels
<1>8. ASSUME NEW j \in Levels, j > l PROVE TraceAt(tr, l, p, v)[j] = <<>>
  BY <1>5, <1>8 DEF Levels
<1>9. TraceAt(tr, l, p, v) \in Traces
  BY <1>4, <1>5 DEF Traces
<1> QED
  BY <1>4, <1>6, <1>7, <1>8, <1>9

LEMMA PositionGoesOn ==
  ASSUME NEW tr \in Traces, NEW l \in Levels, NEW p \in 0 .. Len(tr[l]), NEW v \in Visitors,
         NEW u
  PROVE  /\ Position(u, TraceAt(tr, l, p, v), l, p) = Position(u, tr, l, p)
         /\ Position(u, TraceAt(tr, l, p, v), l, p + 1) =
              Position(u, tr, l, p) + (IF u = v THEN 1 ELSE 0)
<1> DEFINE ts == TraceAt(tr, l, p, v)
<1>1. /\ ts \in Traces /\ Len(ts[l]) = p + 1 /\ ts[l][p + 1] = v
      /\ \A i \in 1 .. p : tr[l][i] = ts[l][i]
      /\ \A j \in 0 .. l - 1 : tr[j] = ts[j]
  BY TraceGoesOn
<1>2. p \in Nat /\ p <= Len(ts[l]) /\ p \in 0 .. Len(ts[l]) - 1
  BY <1>1, LenNat DEF Traces
<1> HIDE DEF ts
<1>3. Position(u, tr, l, p) = Position(u, ts, l, p)
  BY <1>1, <1>2, PositionSame
<1>4. Position(u, ts, l, p + 1) = Position(u, ts, l, p) + (IF ts[l][p + 1] = u THEN 1 ELSE 0)
  BY <1>1, <1>2, PositionNext
<1> QED
  BY <1>1, <1>3, <1>4 DEF ts

LEMMA ValuesGoOn ==
  ASSUME NEW tr \in Traces, NEW vals \in AllValues, Lengths(tr, vals),
         NEW l \in Levels, NEW p \in 0 .. Len(tr[l]), NEW v \in Visitors, NEW x \in Nat
  PROVE  /\ ValuesAt(tr, vals, l, p, v, x) \in AllValues
         /\ \A u \in Visitors :
              LET own == ValuesAt(tr, vals, l, p, v, x)[u][Slot(u, l)]
              IN /\ Len(own) = Position(u, tr, l, p) + (IF u = v THEN 1 ELSE 0)
                 /\ \A k \in 1 .. Position(u, tr, l, p) : own[k] = vals[u][Slot(u, l)][k]
                 /\ u = v => own[Position(u, tr, l, p) + 1] = x
         /\ \A u \in PerLevel, j \in Levels :
              ValuesAt(tr, vals, l, p, v, x)[u][j] =
                IF j = l THEN ValuesAt(tr, vals, l, p, v, x)[u][Slot(u, l)]
                ELSE IF j < l THEN vals[u][j] ELSE <<>>
<1> DEFINE ws == ValuesAt(tr, vals, l, p, v, x)
           q(u) == Position(u, tr, l, p)
           old(u) == vals[u][Slot(u, l)]
           cut(u) == Truncate(old(u), q(u))
           own(u) == IF u = v THEN Append(cut(u), x) ELSE cut(u)
<1>1. ASSUME NEW u \in Visitors
      PROVE  /\ cut(u) \in Seq(Nat) /\ Len(cut(u)) = q(u) /\ q(u) \in Nat
             /\ \A k \in 1 .. q(u) : cut(u)[k] = old(u)[k]
  <2>1. q(u) \in Nat
    BY PositionType
  <2>2. old(u) \in Seq(Nat)
    BY SlotType DEF AllValues
  <2>3. q(u) <= Len(old(u))
    BY PositionInside
  <2> HIDE DEF q, old
  <2>4. Len(old(u)) \in Nat
    BY <2>2, LenNat
  <2>5. q(u) \in 0 .. Len(old(u))
    BY <2>1, <2>3, <2>4
  <2> QED
    BY <2>1, <2>2, <2>3, <2>5, Prefix, PrefixElements DEF Truncate
<1>2. ASSUME NEW u \in Visitors
      PROVE  /\ own(u) \in Seq(Nat)
             /\ Len(own(u)) = q(u) + (IF u = v THEN 1 ELSE 0)
             /\ \A k \in 1 .. q(u) : own(u)[k] = old(u)[k]
             /\ u = v => own(u)[q(u) + 1] = x
  <2> HIDE DEF q, old, cut
  <2>1. /\ Append(cut(u), x) \in Seq(Nat)
        /\ Len(Append(cut(u), x)) = q(u) + 1
        /\ \A k \in 1 .. q(u) : Append(cut(u), x)[k] = cut(u)[k]
        /\ Append(cut(u), x)[q(u) + 1] = x
    BY <1>1, Appended
  <2> QED
    BY <1>1, <2>1
<1>3. ASSUME NEW u \in Visitors, NEW j \in Levels
      PROVE  ws[u][j] = IF j = Slot(u, l) THEN own(u)
                        ELSE IF u \in PerLevel /\ j > l THEN <<>> ELSE vals[u][j]
  <2>1. ws[u][j] = IF u = v /\ j = Slot(v, l) THEN Append(Shortened(tr, vals, l, p, u, j), x)
                   ELSE Shortened(tr, vals, l, p, u, j)
    BY DEF ValuesAt
  <2> QED
    BY <2>1 DEF Shortened
<1>4. ws \in AllValues
  <2> DEFINE e(u, j) == IF u = v /\ j = Slot(v, l) THEN Append(Shortened(tr, vals, l, p, u, j), x)
                        ELSE Shortened(tr, vals, l, p, u, j)
  <2>1. ASSUME NEW u \in Visitors, NEW j \in Levels PROVE e(u, j) \in Seq(Nat)
    <3>1. e(u, j) = ws[u][j]
      BY DEF ValuesAt
    <3>2. ws[u][j] \in Seq(Nat)
      <4> HIDE DEF ws, own
      <4>1. vals[u][j] \in Seq(Nat) /\ <<>> \in Seq(Nat)
        BY DEF AllValues
      <4> QED
        BY <1>2, <1>3, <4>1
    <3> HIDE DEF e, ws
    <3> QED
      BY <3>1, <3>2
  <2>2. ws = [u \in Visitors |-> [j \in Levels |-> e(u, j)]]
    BY DEF ValuesAt
  <2> HIDE DEF e, ws
  <2> QED
    BY <2>1, <2>2 DEF AllValues
<1>5. ASSUME NEW u \in Visitors PROVE ws[u][Slot(u, l)] = own(u)
  <2> HIDE DEF ws, own
  <2> QED
    BY <1>3, SlotType
<1>6. ASSUME NEW u \in PerLevel, NEW j \in Levels
      PROVE  ws[u][j] = IF j = l THEN ws[u][Slot(u, l)] ELSE IF j < l THEN vals[u][j] ELSE <<>>
  <2>1. u \in Visitors /\ Slot(u, l) = l
    BY VisitorsAssumption DEF Slot
  <2> HIDE DEF ws, own
  <2> QED
    BY <1>3, <2>1 DEF Levels
<1>7. ASSUME NEW u \in Visitors
      PROVE  /\ Len(ws[u][Slot(u, l)]) = q(u) + (IF u = v THEN 1 ELSE 0)
             /\ \A k \in 1 .. q(u) : ws[u][Slot(u, l)][k] = old(u)[k]
             /\ u = v => ws[u][Slot(u, l)][q(u) + 1] = x
  <2> HIDE DEF ws, own, q, old
  <2> QED
    BY <1>2, <1>5
<1> QED
  BY <1>4, <1>6, <1>7

LEMMA LengthsGoOn ==
  ASSUME NEW tr \in Traces, NEW vals \in AllValues, Lengths(tr, vals),
         NEW l \in Levels, NEW p \in 0 .. Len(tr[l]), NEW v \in Visitors, NEW x \in Nat
  PROVE  Lengths(TraceAt(tr, l, p, v), ValuesAt(tr, vals, l, p, v, x))
<1> DEFINE ts == TraceAt(tr, l, p, v)
           ws == ValuesAt(tr, vals, l, p, v, x)
<1>1. /\ ts \in Traces /\ Len(ts[l]) = p + 1
      /\ \A j \in 0 .. l - 1 : ts[j] = tr[j]
      /\ \A j \in Levels : j > l => ts[j] = <<>>
  BY TraceGoesOn
<1>2. \A u \in Visitors : Len(ws[u][Slot(u, l)]) = Position(u, tr, l, p) + (IF u = v THEN 1 ELSE 0)
  BY ValuesGoOn
<1>3. \A u \in PerLevel, j \in Levels :
        ws[u][j] = IF j = l THEN ws[u][Slot(u, l)] ELSE IF j < l THEN vals[u][j] ELSE <<>>
  BY ValuesGoOn
<1>4. \A u \in Visitors : Len(ws[u][Slot(u, l)]) = Position(u, ts, l, Len(ts[l]))
  <2>1. \A u \in Visitors :
          Position(u, ts, l, p + 1) = Position(u, tr, l, p) + (IF u = v THEN 1 ELSE 0)
    BY PositionGoesOn
  <2> HIDE DEF ts, ws
  <2> QED
    BY <1>1, <1>2, <2>1
<1> HIDE DEF ts, ws
<1>5. ASSUME NEW u \in PerLevel, NEW j \in Levels PROVE Len(ws[u][j]) = Count(u, ts[j])
  <2>1. u \in Visitors
    BY VisitorsAssumption
  <2>2. CASE j = l
    BY <1>1, <1>3, <1>4, <2>1, <2>2, PositionAtEnd
  <2>3. CASE j < l
    <3>1. j \in 0 .. l - 1
      BY <2>3 DEF Levels
    <3>2. Len(vals[u][j]) = Count(u, tr[j])
      BY <2>1 DEF Lengths
    <3> QED
      BY <1>1, <1>3, <2>3, <3>1, <3>2
  <2>4. CASE j > l
    <3>1. ws[u][j] = <<>> /\ ts[j] = <<>>
      BY <1>1, <1>3, <2>4 DEF Levels
    <3> QED
      BY <3>1, CountEmpty
  <2> QED
    BY <2>2, <2>3, <2>4 DEF Levels
<1>6. ASSUME NEW u \in Visitors, u \notin PerLevel PROVE Len(ws[u][0]) = Below(u, ts, MaxDepth + 1)
  <2>1. Len(ws[u][0]) = Below(u, ts, l + 1)
    BY <1>1, <1>4, <1>6, PositionAtEnd DEF Slot
  <2>2. l + 1 \in 0 .. MaxDepth + 1 /\ \A k \in (l + 1) .. MaxDepth : ts[k] = <<>>
    BY <1>1, VisitorsAssumption DEF Levels
  <2> QED
    BY <2>1, <2>2, BelowEmpty
<1> QED
  BY <1>5, <1>6 DEF Lengths, ts, ws

(* What is recorded of the levels below stays, of level l it is its first  *)
(* p elements and a new one, and nothing above.                            *)
GoesOn(tr, vals, ts, ws, l, p, e) ==
  /\ \A j \in 0 .. l - 1 : RecordOf(ts, ws, j) = RecordOf(tr, vals, j)
  /\ RecordOf(ts, ws, l) \in Seq(Elements)
  /\ Len(RecordOf(ts, ws, l)) = p + 1
  /\ \A i \in 1 .. p : RecordOf(ts, ws, l)[i] = RecordOf(tr, vals, l)[i]
  /\ RecordOf(ts, ws, l)[p + 1] = e
  /\ \A j \in Levels : j > l => RecordOf(ts, ws, j) = <<>>

LEMMA RecordGoesOn ==
  ASSUME NEW tr \in Traces, NEW vals \in AllValues, Lengths(tr, vals),
         NEW l \in Levels, NEW p \in 0 .. Len(tr[l]), NEW v \in Visitors, NEW x \in Nat,
         NEW ts, ts = TraceAt(tr, l, p, v), NEW ws, ws = ValuesAt(tr, vals, l, p, v, x)
  PROVE  GoesOn(tr, vals, ts, ws, l, p, <<v, x>>)
<1>1. /\ ts \in Traces /\ Len(ts[l]) = p + 1 /\ ts[l][p + 1] = v
      /\ \A i \in 1 .. p : tr[l][i] = ts[l][i]
      /\ \A j \in 0 .. l - 1 : tr[j] = ts[j]
      /\ \A j \in Levels : j > l => ts[j] = <<>>
  BY TraceGoesOn
<1>2. /\ ws \in AllValues
      /\ \A u \in Visitors :
           /\ Len(ws[u][Slot(u, l)]) = Position(u, tr, l, p) + (IF u = v THEN 1 ELSE 0)
           /\ \A k \in 1 .. Position(u, tr, l, p) : ws[u][Slot(u, l)][k] = vals[u][Slot(u, l)][k]
           /\ u = v => ws[u][Slot(u, l)][Position(u, tr, l, p) + 1] = x
      /\ \A u \in PerLevel, j \in Levels :
           ws[u][j] = IF j = l THEN ws[u][Slot(u, l)] ELSE IF j < l THEN vals[u][j] ELSE <<>>
  BY ValuesGoOn
<1>3. Lengths(ts, ws)
  BY LengthsGoOn
<1>4. Position(v, ts, l, p + 1) = Position(v, tr, l, p) + 1
  BY PositionGoesOn
<1>5. tr[l] \in Seq(Visitors) /\ Len(tr[l]) \in Nat /\ p \in Nat /\ p <= Len(ts[l])
  BY <1>1, LenNat DEF Traces
<1>6. /\ RecordOf(ts, ws, l) \in Seq(Elements) /\ Len(RecordOf(ts, ws, l)) = p + 1
      /\ \A i \in 1 .. p + 1 :
           RecordOf(ts, ws, l)[i] =
             <<ts[l][i], ws[ts[l][i]][Slot(ts[l][i], l)][Position(ts[l][i], ts, l, i)]>>
  <2>1. Len(ts[l]) = p + 1
    BY <1>1
  <2> QED
    BY <1>1, <1>2, <1>3, <2>1, RecordEntries
<1>7. \A i \in 1 .. p : RecordOf(tr, vals, l)[i] = RecordOf(ts, ws, l)[i]
  <2>1. Alike(tr, vals, ts, ws, l, p)
    BY <1>1, <1>2, <1>5 DEF Alike
  <2> QED
    BY <1>1, <1>2, <1>3, <2>1, RecordSame
<1>8. RecordOf(ts, ws, l)[p + 1] = <<v, x>>
  <2>1. p + 1 \in 1 .. p + 1
    BY <1>5
  <2> QED
    BY <1>1, <1>2, <1>4, <1>6, <2>1
<1>9. ASSUME NEW j \in 0 .. l - 1 PROVE RecordOf(ts, ws, j) = RecordOf(tr, vals, j)
  <2> DEFINE m == Len(tr[j])
  <2>1. /\ j \in Levels /\ j < l /\ j + 1 \in 0 .. l /\ l \in 0 .. MaxDepth + 1
        /\ \A k \in 0 .. j - 1 : k \in 0 .. l - 1
    BY VisitorsAssumption DEF Levels
  <2>2. m \in Nat /\ m \in 0 .. Len(tr[j]) /\ tr[j] = ts[j] /\ m <= Len(ts[j])
    <3>1. tr[j] \in Seq(Visitors) /\ tr[j] = ts[j]
      BY <1>1, <2>1 DEF Traces
    <3> QED
      BY <3>1, LenNat
  <2>3. ASSUME NEW u \in Visitors, NEW k \in 1 .. Position(u, tr, j, m)
        PROVE  vals[u][Slot(u, j)][k] = ws[u][Slot(u, j)][k]
    <3>1. CASE u \in PerLevel
      BY <1>2, <2>1, <3>1 DEF Slot, Levels
    <3>2. CASE u \notin PerLevel
      <4>1. Position(u, tr, j, m) = Below(u, tr, j + 1)
        BY <2>1, <3>2, PositionAtEnd
      <4>2. Below(u, tr, j + 1) <= Below(u, tr, l)
        BY <2>1, BelowGrows
      <4>3. Position(u, tr, l, 0) <= Position(u, tr, l, p)
        BY <1>5, PositionType
      <4>4. Position(u, tr, l, 0) = Below(u, tr, l)
        <5>1. SubSeq(tr[l], 1, 0) = <<>>
          BY <1>5
        <5>2. Below(u, tr, l) \in Nat
          BY <2>1, PlacesFinite
        <5>3. Count(u, SubSeq(tr[l], 1, 0)) = 0
          BY <5>1, CountEmpty
        <5> QED
          BY <3>2, <5>2, <5>3 DEF Position
      <4>5. Position(u, tr, l, p) \in Nat /\ Position(u, tr, l, 0) \in Nat
            /\ Position(u, tr, j, m) \in Nat
        <5>1. p \in 0 .. Len(tr[l]) /\ 0 \in 0 .. Len(tr[l])
          BY <1>5
        <5> QED
          BY <2>1, <2>2, <5>1, PositionType
      <4>6. k \in 1 .. Position(u, tr, l, p)
        BY <4>1, <4>2, <4>3, <4>4, <4>5
      <4>7. Slot(u, j) = Slot(u, l)
        BY <3>2 DEF Slot
      <4> QED
        BY <1>2, <4>6, <4>7
    <3> QED
      BY <3>1, <3>2
  <2>4. \A i \in 1 .. m : tr[j][i] = ts[j][i]
    BY <2>2
  <2>5. \A k \in 0 .. j - 1 : tr[k] = ts[k]
    BY <1>1, <2>1
  <2> HIDE DEF m
  <2>6. \A i \in 1 .. m : RecordOf(tr, vals, j)[i] = RecordOf(ts, ws, j)[i]
    <3>1. Alike(tr, vals, ts, ws, j, m)
      BY <2>2, <2>3, <2>4, <2>5 DEF Alike
    <3> QED
      BY <1>1, <1>2, <1>3, <2>1, <2>2, <3>1, RecordSame
  <2>7. /\ RecordOf(tr, vals, j) \in Seq(Elements) /\ Len(RecordOf(tr, vals, j)) = m
        /\ RecordOf(ts, ws, j) \in Seq(Elements) /\ Len(RecordOf(ts, ws, j)) = m
    BY <1>1, <1>2, <1>3, <2>1, <2>2, RecordEntries DEF m
  <2> QED
    BY <2>6, <2>7, EqualSequences
<1>10. ASSUME NEW j \in Levels, j > l PROVE RecordOf(ts, ws, j) = <<>>
  <2>1. RecordOf(ts, ws, j) \in Seq(Elements) /\ Len(RecordOf(ts, ws, j)) = Len(ts[j])
    BY <1>1, <1>2, <1>3, RecordEntries
  <2>2. ts[j] = <<>>
    BY <1>1, <1>10
  <2> QED
    BY <2>1, <2>2
<1> QED
  BY <1>6, <1>7, <1>8, <1>9, <1>10 DEF GoesOn

-----------------------------------------------------------------------------
NoneAbove(tr, l) == \A i \in Levels : i > l => tr[i] = <<>>

(* Where nothing is recorded above level l, every provider has as many     *)
(* values there as the coordinator has elements up to its end.             *)
LEMMA EmptyAbove ==
  ASSUME NEW tr \in Traces, NEW vals \in AllValues, Lengths(tr, vals), NEW l \in Levels,
         NoneAbove(tr, l)
  PROVE  /\ \A u \in Visitors : Position(u, tr, l, Len(tr[l])) = Len(vals[u][Slot(u, l)])
         /\ \A u \in PerLevel, i \in Levels : i > l => vals[u][i] = <<>>
<1>1. ASSUME NEW u \in Visitors PROVE Position(u, tr, l, Len(tr[l])) = Len(vals[u][Slot(u, l)])
  <2>1. CASE u \in PerLevel
    BY <2>1, PositionAtEnd DEF Lengths, Slot
  <2>2. CASE u \notin PerLevel
    <3>1. l + 1 \in 0 .. MaxDepth + 1 /\ \A k \in (l + 1) .. MaxDepth : tr[k] = <<>>
      BY VisitorsAssumption DEF Levels, NoneAbove
    <3>2. Below(u, tr, MaxDepth + 1) = Below(u, tr, l + 1)
      BY <3>1, BelowEmpty
    <3> QED
      BY <2>2, <3>2, PositionAtEnd DEF Lengths, Slot
  <2> QED
    BY <2>1, <2>2
<1>2. ASSUME NEW u \in PerLevel, NEW i \in Levels, i > l PROVE vals[u][i] = <<>>
  <2>1. u \in Visitors
    BY VisitorsAssumption
  <2>2. Len(vals[u][i]) = 0
    BY <1>2, <2>1, CountEmpty DEF Lengths, NoneAbove
  <2>3. vals[u][i] \in Seq(Nat)
    BY <2>1 DEF AllValues
  <2> QED
    BY <2>2, <2>3
<1> QED
  BY <1>1, <1>2

Longer(tr, l, v) == [tr EXCEPT ![l] = Append(tr[l], v)]
LongerAt(vals, v, i, x) == [vals EXCEPT ![v][i] = Append(vals[v][i], x)]

(* There it is enough to append the element.                               *)
LEMMA GoesOnAtEnd ==
  ASSUME NEW tr \in Traces, NEW vals \in AllValues, Lengths(tr, vals), NEW l \in Levels,
         NoneAbove(tr, l),
         NEW v \in Visitors, NEW x \in Nat
  PROVE  /\ TraceAt(tr, l, Len(tr[l]), v) = Longer(tr, l, v)
         /\ ValuesAt(tr, vals, l, Len(tr[l]), v, x) = LongerAt(vals, v, Slot(v, l), x)
<1> DEFINE p == Len(tr[l])
<1>1. TraceAt(tr, l, p, v) = [tr EXCEPT ![l] = Append(tr[l], v)]
  <2>1. tr[l] \in Seq(Visitors)
    BY DEF Traces
  <2>2. Truncate(tr[l], p) = tr[l]
    BY <2>1, WholePrefix DEF Truncate
  <2> HIDE DEF p
  <2>3. ASSUME NEW i \in Levels, i # l
        PROVE  (IF i < l THEN tr[i] ELSE <<>>) = tr[i]
    BY <2>3 DEF Levels, NoneAbove
  <2>4. TraceAt(tr, l, p, v) = [i \in Levels |-> IF i = l THEN Append(tr[l], v) ELSE tr[i]]
    BY <2>2, <2>3 DEF TraceAt
  <2> QED
    BY <2>4 DEF Traces
<1>2. ASSUME NEW u \in Visitors, NEW i \in Levels
      PROVE  Shortened(tr, vals, l, p, u, i) = vals[u][i]
  <2>1. CASE i = Slot(u, l)
    <3>1. vals[u][i] \in Seq(Nat)
      BY DEF AllValues
    <3>2. Position(u, tr, l, p) = Len(vals[u][i])
      BY <2>1, EmptyAbove
    <3> HIDE DEF p
    <3>3. Truncate(vals[u][i], Position(u, tr, l, p)) = vals[u][i]
      BY <3>1, <3>2, WholePrefix DEF Truncate
    <3> QED
      BY <2>1, <3>3 DEF Shortened
  <2>2. CASE i # Slot(u, l)
    BY <2>2, EmptyAbove DEF Shortened
  <2> QED
    BY <2>1, <2>2
<1>3. ValuesAt(tr, vals, l, p, v, x) =
        [u \in Visitors |-> [i \in Levels |-> IF u = v /\ i = Slot(v, l)
                                              THEN Append(vals[u][i], x) ELSE vals[u][i]]]
  <2> HIDE DEF p
  <2> QED
    BY <1>2 DEF ValuesAt
<1>4. [u \in Visitors |-> [i \in Levels |-> IF u = v /\ i = Slot(v, l)
                                            THEN Append(vals[u][i], x) ELSE vals[u][i]]]
        = [vals EXCEPT ![v][Slot(v, l)] = Append(vals[v][Slot(v, l)], x)]
  BY SlotType DEF AllValues
<1> HIDE DEF p
<1>5. ValuesAt(tr, vals, l, p, v, x) = LongerAt(vals, v, Slot(v, l), x)
  BY <1>3, <1>4 DEF LongerAt
<1> QED
  BY <1>1, <1>5 DEF Longer, p

-----------------------------------------------------------------------------

(* The invariant.                                                          *)

(* The input is a search tree.                                             *)
Input == IsTree(tree) /\ LeavesAlike(tree) /\ NoNode \notin tree.nodes

(* Generations never run ahead of the global one; a node that follows the  *)
(* record has the generation of its level.                                 *)
GenerationsBounded ==
  /\ \A t \in tree.nodes : node_gen[t] <= generation
  /\ \A l \in Levels : generations[l] <= generation
  /\ cur \notin {NoNode, Root} /\ ~IsExtending(cur) =>
       node_gen[cur] = generations[Level(cur)]

(* What is known of levels and generations.                                *)
TreeInv ==
  /\ Input
  /\ ControlTypeOK
  /\ \A t \in tree.nodes : status[t] = "constructing" <=> t = cur
  /\ GenerationsBounded
  /\ GenerationsAgree

ValuesTyped == values \in AllValues

(* Nothing is recorded deeper than max_level, but for the level that the   *)
(* node under construction adds; while that is the root nothing else is.   *)
NothingAbove ==
  /\ \A i \in Levels : i > max_level /\ (cur # NoNode => i # Level(cur)) => trace[i] = <<>>
  /\ cur = Root => max_level = 0

(* A finished node deeper than that is of a replaced trace.                *)
DeeperIsOld ==
  \A t \in tree.nodes : status[t] = "live" /\ Level(t) > max_level => node_gen[t] < generation

(* How many elements of its level the node under construction has passed.  *)
Passed == IF IsExtending(cur) THEN Len(trace[Level(cur)]) ELSE end_index[cur]

(* An up to date node is at the end of its level in every provider's       *)
(* trace, and the node under construction after what it has passed.        *)
InPosition ==
  /\ \A v \in Visitors, t \in tree.nodes :
       UpToDate(t) => value_end[v][t] = Position(v, trace, Level(t), Len(trace[Level(t)]))
  /\ \A v \in Visitors :
       cur # NoNode => value_end[v][cur] = Position(v, trace, Level(cur), Passed)

QuotientFollows == PerLevel # {} => q_max_level = max_level

(* What is recorded up to level l is what was emitted on the path to t.    *)
OnPath(T, tr, vals, t, l) ==
  \A k \in 0 .. l : RecordOf(tr, vals, k) = PathElements(T, t, k)
PathRecorded(t, l) == OnPath(tree, trace, values, t, l)

Followed == \A t \in tree.nodes : UpToDate(t) => PathRecorded(t, Level(t))

(* The node under construction has emitted what is recorded of it so far.  *)
CurFollows ==
  cur # NoNode =>
    /\ emitted <= Len(tree.elems[cur])
    /\ Passed = emitted
    /\ emitted <= Len(trace[Level(cur)])
    /\ \A i \in 1 .. emitted :
         RecordOf(trace, values, Level(cur))[i] = tree.elems[cur][i]

(* Some node has all there is in the record on its path.                   *)
RecordReached ==
  cur # Root => \E w \in tree.nodes : Level(w) = max_level /\ PathRecorded(w, max_level)

(* The candidate is a leaf whose path is all there is in the record.       *)
CandidateOnRecord ==
  canon_leaf # NoNode => /\ cur # Root
                         /\ IsLeaf(canon_leaf)
                         /\ Level(canon_leaf) = max_level
                         /\ PathRecorded(canon_leaf, max_level)

RecordInv ==
  /\ ValuesTyped
  /\ NothingAbove
  /\ DeeperIsOld
  /\ Lengths(trace, values)
  /\ InPosition
  /\ QuotientFollows
  /\ Followed
  /\ CurFollows
  /\ RecordReached
  /\ CandidateOnRecord

-----------------------------------------------------------------------------
(* Nodes and paths.                                                        *)

LEMMA NestedExcept ==
  ASSUME NEW A, NEW B, NEW C, NEW f \in [A -> [B -> C]], NEW a \in A, NEW b \in B,
         NEW c \in C
  PROVE  [f EXCEPT ![a][b] = c] \in [A -> [B -> C]]
OBVIOUS

(* A provider gets one element further in a node.                          *)
LEMMA Advance ==
  ASSUME ControlTypeOK, NEW v \in Visitors, NEW t \in tree.nodes,
         value_end' = [value_end EXCEPT ![v][t] = value_end[v][t] + 1]
  PROVE  value_end' \in [Visitors -> [tree.nodes -> Nat]]
<1>1. value_end \in [Visitors -> [tree.nodes -> Nat]]
  BY DEF ControlTypeOK
<1>2. value_end[v][t] + 1 \in Nat
  BY <1>1
<1> QED
  BY <1>1, <1>2, NestedExcept

(* The path to a node.                                                     *)
LEMMA ParentFacts ==
  ASSUME IsTree(tree), NEW t \in tree.nodes
  PROVE  /\ Level(t) \in Levels
         /\ t # Root => /\ Parent(t) \in tree.nodes
                        /\ Level(Parent(t)) = Level(t) - 1
                        /\ Level(t) >= 1
                        /\ Parent(t) # t
<1>1. t \in Seq(Nat) /\ Len(t) \in Nat /\ Len(t) <= MaxDepth
  BY VisitorsAssumption DEF IsTree
<1>2. Level(t) \in Levels
  BY <1>1, VisitorsAssumption DEF Levels, Level
<1>3. ASSUME t # Root
      PROVE  /\ Parent(t) \in tree.nodes
             /\ Level(Parent(t)) = Level(t) - 1
             /\ Level(t) >= 1
             /\ Parent(t) # t
  <2>1. Len(t) >= 1
    BY <1>1, <1>3 DEF Root
  <2>2. Len(Parent(t)) = Len(t) - 1
    <3>1. Len(t) - 1 \in Nat /\ Len(t) - 1 <= Len(t)
      BY <1>1, <2>1
    <3> QED
      BY <1>1, <3>1, Prefix DEF Parent
  <2>3. Parent(t) \in tree.nodes
    <3>1. Parent(t) = Ancestor(t, Len(t) - 1) /\ Len(t) - 1 \in 0 .. Len(t)
      BY <1>1, <2>1 DEF Parent, Ancestor
    <3> QED
      BY <3>1 DEF IsTree
  <2> QED
    BY <1>1, <1>3, <2>1, <2>2, <2>3 DEF Level
<1> QED
  BY <1>2, <1>3

(* An element that is still to be emitted.                                 *)
LEMMA NextElementType ==
  ASSUME IsTree(tree), emitted \in Nat, cur \in tree.nodes, Emitting
  PROVE  NextElement[1] \in Visitors /\ NextElement[2] \in Nat
<1>1. tree.elems[cur] \in Seq(Elements)
  BY DEF IsTree
<1>2. emitted + 1 \in 1 .. Len(tree.elems[cur])
  BY <1>1 DEF Emitting
<1>3. NextElement \in Elements
  BY <1>1, <1>2 DEF NextElement
<1> QED
  BY <1>3 DEF Elements

LEMMA Truncated ==
  ASSUME NEW S, NEW s \in Seq(S), NEW k \in Nat, k <= Len(s)
  PROVE  Truncate(s, k) \in Seq(S) /\ Len(Truncate(s, k)) = k
BY Prefix DEF Truncate

(* The input never changes.                                                *)
LEMMA SameInput == Input /\ tree' = tree => Input'
<1> SUFFICES ASSUME Input, tree' = tree PROVE Input'
  OBVIOUS
<1>1. IsTree(tree)'
  BY DEF Input, IsTree, Elements, Parent, Root, Ancestor
<1>2. LeavesAlike(tree)'
  BY DEF Input, LeavesAlike, SamePath, PathElements, Ancestor
<1> QED
  BY <1>1, <1>2 DEF Input

LEMMA RootLevel == Level(Root) = 0
BY DEF Level, Root

(* A node under construction.                                              *)
LEMMA UnderConstruction ==
  ASSUME TreeInv, cur # NoNode
  PROVE  /\ cur \in tree.nodes /\ status[cur] = "constructing"
         /\ Level(cur) \in Levels /\ max_level \in Levels
         /\ trace[Level(cur)] \in Seq(Visitors)
         /\ cur # Root => /\ Parent(cur) \in tree.nodes
                          /\ Level(Parent(cur)) = Level(cur) - 1
                          /\ Level(cur) >= 1
                          /\ UpToDate(Parent(cur))
         /\ cur = Root => IsExtending(cur) /\ Level(cur) = 0
         /\ cur # Root /\ IsExtending(cur) => Level(cur) = max_level + 1
         /\ ~IsExtending(cur) => /\ Level(cur) <= max_level
                                 /\ end_index[cur] \in Nat
                                 /\ end_index[cur] <= Len(trace[Level(cur)])
<1>1. cur \in tree.nodes /\ max_level \in Levels /\ end_index \in [tree.nodes -> Nat]
      /\ trace \in Traces
  BY DEF TreeInv, ControlTypeOK, Traces
<1>2. status[cur] = "constructing"
  BY <1>1 DEF TreeInv
<1>3. /\ Level(cur) \in Levels
      /\ cur # Root => /\ Parent(cur) \in tree.nodes
                       /\ Level(Parent(cur)) = Level(cur) - 1
                       /\ Level(cur) >= 1
  BY <1>1, ParentFacts DEF TreeInv, Input
<1>4. trace[Level(cur)] \in Seq(Visitors)
  BY <1>1, <1>3 DEF Traces
<1>5. cur # Root =>
        /\ UpToDate(Parent(cur))
        /\ IF IsExtending(cur) THEN Level(cur) = max_level + 1
           ELSE end_index[cur] <= Len(trace[Level(cur)])
  BY DEF TreeInv, GenerationsAgree
<1>6. cur = Root => IsExtending(cur) /\ Level(cur) = 0
  BY RootLevel DEF IsExtending
<1>7. ~IsExtending(cur) => cur # Root /\ Level(cur) <= max_level
  BY <1>1, <1>3 DEF IsExtending, Levels
<1> QED
  BY <1>1, <1>2, <1>3, <1>4, <1>5, <1>6, <1>7

(* An up to date node is on a level that is recorded.                      *)
LEMMA UpToDateLevel ==
  ASSUME TreeInv, NEW t \in tree.nodes, UpToDate(t)
  PROVE  /\ Level(t) \in Levels /\ Level(t) <= max_level
         /\ t # Root => node_gen[t] >= generations[Level(t)]
         /\ t # cur
<1>1. Level(t) \in Levels /\ max_level \in Levels
  BY ParentFacts DEF TreeInv, Input, ControlTypeOK
<1>2. t # Root => ~(Level(t) > max_level) /\ ~(node_gen[t] < generations[Level(t)])
  BY DEF UpToDate, Outdated
<1>3. node_gen[t] \in Nat /\ generations[Level(t)] \in Nat
  BY <1>1 DEF TreeInv, ControlTypeOK
<1>4. t # cur
  BY DEF UpToDate, TreeInv
<1> QED
  BY <1>1, <1>2, <1>3, <1>4, RootLevel DEF Levels

(* While the root is constructed nothing is up to date; a node that goes   *)
(* deeper than the record has all of them below it.                        *)
LEMMA UpToDateBelow ==
  ASSUME TreeInv, NothingAbove, cur # NoNode, IsExtending(cur),
         NEW t \in tree.nodes, UpToDate(t)
  PROVE  cur # Root /\ Level(t) < Level(cur)
<1>1. Level(t) \in Levels /\ Level(t) <= max_level /\ t # cur /\ max_level \in Levels
  BY UpToDateLevel DEF TreeInv, ControlTypeOK
<1>2. t # Root => Level(t) >= 1
  BY ParentFacts DEF TreeInv, Input
<1>3. cur # Root
  BY <1>1, <1>2 DEF NothingAbove, Levels
<1> QED
  BY <1>1, <1>3, UnderConstruction DEF Levels

(* The path to an ancestor.                                                *)
LEMMA PathToAncestor ==
  ASSUME IsTree(tree), NEW t \in tree.nodes, NEW l \in 0 .. Level(t)
  PROVE  /\ Ancestor(t, l) \in tree.nodes /\ Level(Ancestor(t, l)) = l
         /\ Ancestor(t, Level(t)) = t
         /\ \A k \in 0 .. l : PathElements(tree, Ancestor(t, l), k) = PathElements(tree, t, k)
         /\ l > 0 => Ancestor(t, l) # Root /\ Parent(Ancestor(t, l)) = Ancestor(t, l - 1)
<1>1. t \in Seq(Nat) /\ Len(t) \in Nat /\ l \in 0 .. Len(t) /\ l \in Nat /\ l <= Len(t)
  BY DEF IsTree, Level
<1>2. Ancestor(t, l) \in tree.nodes
  BY <1>1 DEF IsTree
<1>3. Len(Ancestor(t, l)) = l
  BY <1>1, Prefix DEF Ancestor
<1>4. Ancestor(t, Len(t)) = t
  BY <1>1, WholePrefix DEF Ancestor
<1>5. \A k \in 0 .. l : Ancestor(Ancestor(t, l), k) = Ancestor(t, k)
  BY <1>1, PrefixOfPrefix DEF Ancestor
<1>6. \A k \in 0 .. l : PathElements(tree, Ancestor(t, l), k) = PathElements(tree, t, k)
  BY <1>5 DEF PathElements
<1>7. ASSUME l > 0 PROVE Ancestor(t, l) # Root /\ Parent(Ancestor(t, l)) = Ancestor(t, l - 1)
  <2>1. l - 1 \in 0 .. l
    BY <1>1, <1>7
  <2>2. Parent(Ancestor(t, l)) = Ancestor(Ancestor(t, l), l - 1)
    BY <1>3 DEF Parent, Ancestor
  <2> QED
    BY <1>1, <1>3, <1>5, <1>7, <2>1, <2>2 DEF Root
<1> QED
  BY <1>2, <1>3, <1>4, <1>6, <1>7 DEF Level

LEMMA ParentIsAncestor ==
  ASSUME IsTree(tree), NEW t \in tree.nodes, t # Root
  PROVE  /\ Parent(t) = Ancestor(t, Level(t) - 1)
         /\ Level(t) - 1 \in 0 .. Level(t)
         /\ \A k \in 0 .. Level(t) - 1 : PathElements(tree, Parent(t), k) = PathElements(tree, t, k)
         /\ PathElements(tree, t, Level(t)) = tree.elems[t]
         /\ t \in tree.children[Parent(t)]
<1>1. Level(t) >= 1 /\ Level(t) \in Levels /\ Parent(t) \in tree.nodes
  BY ParentFacts
<1>2. Level(t) - 1 \in 0 .. Level(t) /\ Level(t) \in 0 .. Level(t)
  BY <1>1 DEF Levels
<1>3. Parent(t) = Ancestor(t, Level(t) - 1)
  BY DEF Parent, Ancestor, Level
<1>4. \A k \in 0 .. Level(t) - 1 : PathElements(tree, Parent(t), k) = PathElements(tree, t, k)
  BY <1>2, <1>3, PathToAncestor
<1>5. PathElements(tree, t, Level(t)) = tree.elems[t]
  BY <1>2, PathToAncestor DEF PathElements
<1>6. t \in tree.children[Parent(t)]
  BY <1>1 DEF IsTree
<1> QED
  BY <1>2, <1>3, <1>4, <1>5, <1>6

(* Nodes on one level whose paths are both recorded are leaves alike.      *)
LEMMA RecordedAlike ==
  ASSUME Input, NEW s \in tree.nodes, NEW t \in tree.nodes, Level(s) = Level(t),
         PathRecorded(s, Level(s)), PathRecorded(t, Level(s))
  PROVE  IsLeaf(s) <=> IsLeaf(t)
<1>1. Len(s) \in Nat /\ Len(s) = Len(t)
  BY DEF Input, IsTree, Level
<1>2. SamePath(tree, s, t, Len(s))
  BY <1>1 DEF SamePath, PathRecorded, OnPath, Level
<1> QED
  BY <1>1, <1>2 DEF Input, LeavesAlike, IsLeaf, Children

-----------------------------------------------------------------------------
(* A node records what it emits.                                           *)

Records ==
  /\ cur # NoNode
  /\ Emitting
  /\ trace' = TraceAt(trace, Level(cur), Passed, NextElement[1])
  /\ values' = ValuesAt(trace, values, Level(cur), Passed, NextElement[1], NextElement[2])
  /\ value_end' = [value_end EXCEPT ![NextElement[1]][cur] = value_end[NextElement[1]][cur] + 1]
  /\ emitted' = emitted + 1
  /\ UNCHANGED <<tree, status, cur>>

LEMMA PassedType ==
  ASSUME TreeInv, RecordInv, cur # NoNode
  PROVE  /\ trace \in Traces /\ values \in AllValues /\ Lengths(trace, values)
         /\ Passed \in 0 .. Len(trace[Level(cur)]) /\ Passed = emitted /\ emitted \in Nat
         /\ tree.elems[cur] \in Seq(Elements)
         /\ emitted <= Len(tree.elems[cur])
<1>1. trace \in Traces /\ emitted \in Nat
  BY DEF TreeInv, ControlTypeOK, Traces
<1>2. values \in AllValues /\ Lengths(trace, values)
  BY DEF RecordInv, ValuesTyped
<1>3. Len(trace[Level(cur)]) \in Nat
  BY UnderConstruction, LenNat
<1>4. /\ Passed = emitted /\ emitted <= Len(trace[Level(cur)])
      /\ emitted <= Len(tree.elems[cur])
  BY DEF RecordInv, CurFollows
<1>5. Passed \in 0 .. Len(trace[Level(cur)])
  BY <1>1, <1>3, <1>4
<1>6. tree.elems[cur] \in Seq(Elements)
  BY UnderConstruction DEF TreeInv, Input, IsTree
<1> QED
  BY <1>1, <1>2, <1>4, <1>5, <1>6

(* The element is a pair of a provider and a value.                        *)
LEMMA ElementToEmit ==
  ASSUME TreeInv, RecordInv, cur # NoNode, Emitting
  PROVE  /\ NextElement[1] \in Visitors /\ NextElement[2] \in Nat
         /\ NextElement = tree.elems[cur][emitted + 1]
         /\ NextElement = <<NextElement[1], NextElement[2]>>
         /\ emitted + 1 <= Len(tree.elems[cur])
<1>1. /\ tree.elems[cur] \in Seq(Elements) /\ Len(tree.elems[cur]) \in Nat
      /\ emitted \in Nat /\ emitted < Len(tree.elems[cur])
  BY PassedType, LenNat DEF Emitting
<1>2. emitted + 1 \in 1 .. Len(tree.elems[cur])
  BY <1>1
<1>3. NextElement \in Elements
  BY <1>1, <1>2, ElementOf DEF NextElement
<1> QED
  BY <1>1, <1>2, <1>3 DEF Elements, NextElement

LEMMA RecordsFacts ==
  ASSUME TreeInv, RecordInv, Records
  PROVE  /\ trace' \in Traces
         /\ Len(trace'[Level(cur)]) = emitted'
         /\ \A j \in 0 .. Level(cur) - 1 : trace'[j] = trace[j]
         /\ \A j \in Levels : j > Level(cur) => trace'[j] = <<>>
         /\ ValuesTyped' /\ Lengths(trace, values)'
<1> DEFINE l == Level(cur)
           v == NextElement[1]
           x == NextElement[2]
<1>1. l \in Levels /\ v \in Visitors /\ x \in Nat
  BY UnderConstruction, ElementToEmit DEF Records
<1>2. trace \in Traces /\ values \in AllValues /\ Lengths(trace, values)
      /\ Passed \in 0 .. Len(trace[l]) /\ Passed = emitted
  BY PassedType DEF Records
<1>3. trace' = TraceAt(trace, l, Passed, v) /\ values' = ValuesAt(trace, values, l, Passed, v, x)
      /\ emitted' = emitted + 1
  BY DEF Records
<1> HIDE DEF l, v, x
<1>4. /\ trace' \in Traces /\ Len(trace'[l]) = Passed + 1
      /\ \A j \in 0 .. l - 1 : trace'[j] = trace[j]
      /\ \A j \in Levels : j > l => trace'[j] = <<>>
  BY <1>1, <1>2, <1>3, TraceGoesOn
<1>5. values' \in AllValues
  BY <1>1, <1>2, <1>3, ValuesGoOn
<1>6. Lengths(trace', values')
  BY <1>1, <1>2, <1>3, LengthsGoOn
<1>7. Lengths(trace, values)'
  BY <1>6 DEF Lengths, Count, Below, PlacesBelow
<1> QED
  BY <1>2, <1>3, <1>4, <1>5, <1>7 DEF ValuesTyped, l, AllValues

(* The record goes on, from what the node has passed, with the element.    *)
LEMMA RecordsRecord ==
  ASSUME TreeInv, RecordInv, Records
  PROVE  GoesOn(trace, values, trace', values', Level(cur), emitted, NextElement)
<1> DEFINE l == Level(cur)
           v == NextElement[1]
           x == NextElement[2]
<1>1. l \in Levels /\ v \in Visitors /\ x \in Nat /\ NextElement = <<v, x>>
  BY UnderConstruction, ElementToEmit DEF Records
<1>2. trace \in Traces /\ values \in AllValues /\ Lengths(trace, values)
      /\ Passed \in 0 .. Len(trace[l]) /\ Passed = emitted
  BY PassedType DEF Records
<1>3. trace' = TraceAt(trace, l, Passed, v) /\ values' = ValuesAt(trace, values, l, Passed, v, x)
  BY DEF Records
<1> HIDE DEF l, v, x
<1>4. GoesOn(trace, values, trace', values', l, Passed, <<v, x>>)
  BY <1>1, <1>2, <1>3, RecordGoesOn
<1> QED
  BY <1>1, <1>2, <1>4 DEF l

LEMMA RecordsPositions ==
  ASSUME TreeInv, RecordInv, Records
  PROVE  /\ \A u \in Visitors :
              value_end'[u][cur] = Position(u, trace', Level(cur), emitted')
         /\ \A u \in Visitors, t \in tree.nodes : t # cur => value_end'[u][t] = value_end[u][t]
         /\ \A u \in Visitors, j \in Levels :
              j < Level(cur) => Position(u, trace', j, Len(trace'[j])) = Position(u, trace, j, Len(trace[j]))
<1> DEFINE l == Level(cur)
           v == NextElement[1]
<1>1. l \in Levels /\ v \in Visitors /\ cur \in tree.nodes
  BY UnderConstruction, ElementToEmit DEF Records
<1>2. trace \in Traces /\ Passed \in 0 .. Len(trace[l]) /\ Passed = emitted
  BY PassedType DEF Records
<1>3. /\ trace' = TraceAt(trace, l, Passed, v) /\ emitted' = emitted + 1
      /\ value_end' = [value_end EXCEPT ![v][cur] = value_end[v][cur] + 1]
  BY DEF Records
<1>4. value_end \in [Visitors -> [tree.nodes -> Nat]]
  BY DEF TreeInv, ControlTypeOK
<1>5. \A u \in Visitors : value_end[u][cur] = Position(u, trace, l, Passed)
  BY DEF RecordInv, InPosition, Records
<1> HIDE DEF l, v
<1>6. \A u : Position(u, trace', l, Passed + 1) =
               Position(u, trace, l, Passed) + (IF u = v THEN 1 ELSE 0)
  BY <1>1, <1>2, <1>3, PositionGoesOn
<1>7. ASSUME NEW u \in Visitors PROVE value_end'[u][cur] = Position(u, trace', l, emitted')
  <2>1. Position(u, trace', l, emitted') = value_end[u][cur] + (IF u = v THEN 1 ELSE 0)
    BY <1>2, <1>3, <1>5, <1>6
  <2>2. value_end'[u][cur] = IF u = v THEN value_end[u][cur] + 1 ELSE value_end[u][cur]
    BY <1>1, <1>3, <1>4
  <2>3. value_end[u][cur] \in Nat
    BY <1>1, <1>4
  <2> QED
    BY <2>1, <2>2, <2>3
<1>8. \A u \in Visitors, t \in tree.nodes : t # cur => value_end'[u][t] = value_end[u][t]
  BY <1>1, <1>3, <1>4
<1>9. ASSUME NEW u \in Visitors, NEW j \in Levels, j < l
      PROVE  Position(u, trace', j, Len(trace'[j])) = Position(u, trace, j, Len(trace[j]))
  <2>1. \A k \in 0 .. j : trace'[k] = trace[k]
    BY <1>1, <1>2, <1>3, <1>9, TraceGoesOn DEF Levels
  <2>2. j \in 0 .. j /\ \A k \in 0 .. j - 1 : k \in 0 .. j
    BY DEF Levels
  <2>3. Below(u, trace', j) = Below(u, trace, j)
    BY <2>1, <2>2, BelowSame
  <2> QED
    BY <2>1, <2>2, <2>3 DEF Position
<1> QED
  BY <1>7, <1>8, <1>9 DEF l

(* A node that goes deeper than the record appends to it.                  *)
LEMMA ExtendingRecords ==
  ASSUME TreeInv, RecordInv, EmitExtending
  PROVE  Records /\ IsExtending(cur)
<1> DEFINE l == Level(cur)
           v == NextElement[1]
           x == NextElement[2]
<1>1. /\ cur # NoNode /\ Emitting /\ IsExtending(cur) /\ emitted' = emitted + 1
      /\ UNCHANGED <<tree, status, cur>>
      /\ value_end' = [value_end EXCEPT ![v][cur] = value_end[v][cur] + 1]
      /\ trace' = [trace EXCEPT ![l] = Append(trace[l], v)]
      /\ values' = [values EXCEPT ![v][Slot(v, l)] = Append(values[v][Slot(v, l)], x)]
  BY DEF EmitExtending, Emitting
<1>2. l \in Levels /\ v \in Visitors /\ x \in Nat
  BY <1>1, UnderConstruction, ElementToEmit
<1>3. trace \in Traces /\ values \in AllValues /\ Lengths(trace, values) /\ Passed = Len(trace[l])
  BY <1>1, PassedType DEF Passed
<1>4. NoneAbove(trace, l)
  <2> SUFFICES ASSUME NEW i \in Levels, i > l PROVE trace[i] = <<>>
    BY DEF NoneAbove
  <2>1. max_level \in Levels /\ IF cur = Root THEN l = 0 ELSE l = max_level + 1
    BY <1>1, UnderConstruction
  <2>2. cur = Root => max_level = 0
    BY DEF RecordInv, NothingAbove
  <2>3. i > max_level /\ i # l
    BY <1>2, <2>1, <2>2 DEF Levels
  <2> QED
    BY <2>3 DEF RecordInv, NothingAbove
<1> HIDE DEF l, v, x
<1>5. /\ trace' = TraceAt(trace, l, Passed, v)
      /\ values' = ValuesAt(trace, values, l, Passed, v, x)
  <2>1. /\ TraceAt(trace, l, Len(trace[l]), v) = Longer(trace, l, v)
        /\ ValuesAt(trace, values, l, Len(trace[l]), v, x) = LongerAt(values, v, Slot(v, l), x)
    BY <1>2, <1>3, <1>4, GoesOnAtEnd
  <2>2. trace' = Longer(trace, l, v) /\ values' = LongerAt(values, v, Slot(v, l), x)
    BY <1>1 DEF Longer, LongerAt
  <2> QED
    BY <1>3, <2>1, <2>2
<1> QED
  BY <1>1, <1>5 DEF Records, l, v, x

(* A node that is better goes on from what it has passed: the coordinator  *)
(* cuts its record there, and each provider its own where the node is.     *)
LEMMA BetterRecords ==
  ASSUME TreeInv, RecordInv, Emitting, ~IsExtending(cur), NEW k,
         Better(cur, k, Append(Truncate(trace[Level(cur)], end_index[cur]), NextElement[1]))
  PROVE  Records
<1> DEFINE l == Level(cur)
           v == NextElement[1]
           x == NextElement[2]
           p == end_index[cur]
<1>1. /\ cur # NoNode /\ emitted' = emitted + 1
      /\ UNCHANGED <<tree, status, cur>>
      /\ value_end' = [value_end EXCEPT ![v][cur] = value_end[v][cur] + 1]
      /\ trace' = [i \in Levels |-> IF i = l THEN Append(Truncate(trace[l], p), v)
                                    ELSE IF i > l /\ i <= max_level THEN <<>> ELSE trace[i]]
      /\ values' = [u \in Visitors |->
                      IF u = v THEN [Cut(u, cur) EXCEPT ![Slot(v, l)] = Append(Cut(u, cur)[Slot(v, l)], x)]
                               ELSE Cut(u, cur)]
  BY DEF Better, Emitting
<1>2. l \in Levels /\ v \in Visitors /\ x \in Nat /\ l <= max_level /\ max_level \in Levels
  BY <1>1, UnderConstruction, ElementToEmit
<1>3. trace \in Traces /\ values \in AllValues /\ Lengths(trace, values) /\ Passed = p
  BY <1>1, PassedType DEF Passed
<1>4. ASSUME NEW i \in Levels, i > l, ~(i <= max_level) PROVE trace[i] = <<>>
  <2>1. i > max_level /\ i # l
    BY <1>2, <1>4 DEF Levels
  <2> QED
    BY <2>1 DEF RecordInv, NothingAbove
<1>5. ASSUME NEW u \in PerLevel, NEW i \in Levels, i > l, ~(i <= q_max_level)
      PROVE  values[u][i] = <<>>
  <2>1. u \in Visitors /\ q_max_level = max_level
    BY VisitorsAssumption DEF RecordInv, QuotientFollows
  <2>2. trace[i] = <<>>
    BY <1>4, <1>5, <2>1
  <2>3. Len(values[u][i]) = 0
    BY <1>3, <2>1, <2>2, CountEmpty DEF Lengths
  <2>4. values[u][i] \in Seq(Nat)
    BY <1>3, <2>1 DEF AllValues
  <2> QED
    BY <2>3, <2>4
<1>6. \A u \in Visitors : value_end[u][cur] = Position(u, trace, l, p)
  BY <1>1, <1>3 DEF RecordInv, InPosition
<1> HIDE DEF l, v, x, p
<1>7. trace' = TraceAt(trace, l, p, v)
  <2>1. ASSUME NEW i \in Levels, i # l
        PROVE  (IF i > l /\ i <= max_level THEN <<>> ELSE trace[i])
                 = (IF i < l THEN trace[i] ELSE <<>>)
    BY <1>2, <1>4, <2>1 DEF Levels
  <2> QED
    BY <1>1, <2>1 DEF TraceAt
<1>8. ASSUME NEW u \in Visitors, NEW i \in Levels
      PROVE  Cut(u, cur)[i] = Shortened(trace, values, l, p, u, i)
  <2>1. Cut(u, cur)[i] = IF i = Slot(u, l) THEN Truncate(values[u][i], value_end[u][cur])
                         ELSE IF u \in PerLevel /\ i > l /\ i <= q_max_level THEN <<>>
                         ELSE values[u][i]
    BY DEF Cut, l
  <2> QED
    BY <1>5, <1>6, <2>1 DEF Shortened
<1>9. ASSUME NEW u \in Visitors
      PROVE  (IF u = v THEN [Cut(u, cur) EXCEPT ![Slot(v, l)] = Append(Cut(u, cur)[Slot(v, l)], x)]
                       ELSE Cut(u, cur))
               = [i \in Levels |-> IF u = v /\ i = Slot(v, l)
                                   THEN Append(Shortened(trace, values, l, p, u, i), x)
                                   ELSE Shortened(trace, values, l, p, u, i)]
  <2>1. Cut(u, cur) = [i \in Levels |-> Shortened(trace, values, l, p, u, i)]
    <3>1. Cut(u, cur) = [i \in Levels |-> Cut(u, cur)[i]]
      BY DEF Cut
    <3> QED
      BY <1>8, <3>1
  <2> QED
    BY <2>1
<1>10. values' = ValuesAt(trace, values, l, p, v, x)
  BY <1>1, <1>9 DEF ValuesAt
<1> QED
  BY <1>1, <1>3, <1>7, <1>10 DEF Records, l, v, x

LEMMA BetterByValueRecords ==
  ASSUME TreeInv, RecordInv, EmitBetterByValue
  PROVE  /\ Emitting /\ ~IsExtending(cur) /\ NextElement[1] = RecordedVisitor(cur)
         /\ Better(cur, end_index[cur] + 1,
                   Append(Truncate(trace[Level(cur)], end_index[cur]), NextElement[1]))
<1> DEFINE s == trace[Level(cur)]
           k == end_index[cur]
<1>1. /\ Emitting /\ ~IsExtending(cur) /\ k < Len(s) /\ NextElement[1] = RecordedVisitor(cur)
      /\ Better(cur, k + 1, Truncate(s, k + 1))
  BY DEF EmitBetterByValue, SameVisitor
<1>2. s \in Seq(Visitors) /\ k \in Nat
  BY <1>1, UnderConstruction DEF Emitting
<1>3. NextElement[1] = s[k + 1]
  BY <1>1 DEF RecordedVisitor
<1> HIDE DEF s, k
<1>4. k \in 0 .. Len(s) - 1
  BY <1>1, <1>2, LenNat
<1>5. Truncate(s, k + 1) = Append(Truncate(s, k), NextElement[1])
  BY <1>2, <1>3, <1>4, LongerPrefix DEF Truncate
<1> QED
  BY <1>1, <1>5 DEF s, k

(* Paths are recorded as before when their levels are.                     *)
LEMMA OnPathKept ==
  ASSUME NEW T, NEW tr, NEW vals, NEW ts, NEW ws, NEW t, NEW l,
         \A j \in 0 .. l : RecordOf(ts, ws, j) = RecordOf(tr, vals, j),
         OnPath(T, tr, vals, t, l)
  PROVE  OnPath(T, ts, ws, t, l)
BY DEF OnPath

(* What is recorded agrees with the tree wherever it should, if only nodes *)
(* below the level that goes on are up to date, and the node is now at the *)
(* end of the record.                                                      *)
LEMMA RecordsStep ==
  ASSUME TreeInv, RecordInv, Records, IsExtending(cur)',
         \A t \in tree.nodes : UpToDate(t)' => UpToDate(t) /\ Level(t) < Level(cur)
  PROVE  /\ ValuesTyped' /\ Lengths(trace, values)'
         /\ InPosition' /\ Followed' /\ CurFollows'
<1> DEFINE l == Level(cur)
<1>1. /\ cur # NoNode /\ cur' = cur /\ tree' = tree /\ emitted' = emitted + 1
  BY DEF Records
<1>2. l \in Levels /\ cur \in tree.nodes
  BY <1>1, UnderConstruction
<1>3. /\ trace' \in Traces /\ Len(trace'[l]) = emitted'
      /\ ValuesTyped' /\ Lengths(trace, values)'
  BY RecordsFacts
<1>4. Passed' = emitted'
  <2>1. Passed' = Len(trace'[l])
    BY <1>1 DEF Passed
  <2> QED
    BY <1>3, <2>1
<1>5. GoesOn(trace, values, trace', values', l, emitted, NextElement)
  BY RecordsRecord
<1>6. InPosition'
  <2>1. ASSUME NEW v \in Visitors PROVE value_end'[v][cur] = Position(v, trace', l, Passed')
    BY <1>4, RecordsPositions
  <2>2. ASSUME NEW v \in Visitors, NEW t \in tree.nodes, UpToDate(t)'
        PROVE  value_end'[v][t] = Position(v, trace', Level(t), Len(trace'[Level(t)]))
    <3>1. UpToDate(t) /\ Level(t) < l /\ t # cur /\ Level(t) \in Levels
      BY <2>2, UpToDateLevel
    <3>2. value_end[v][t] = Position(v, trace, Level(t), Len(trace[Level(t)]))
      BY <3>1 DEF RecordInv, InPosition
    <3>3. Position(v, trace', Level(t), Len(trace'[Level(t)]))
            = Position(v, trace, Level(t), Len(trace[Level(t)]))
      BY <3>1, RecordsPositions
    <3>4. value_end'[v][t] = value_end[v][t]
      BY <3>1, RecordsPositions
    <3> QED
      BY <3>2, <3>3, <3>4
  <2> QED
    BY <1>1, <2>1, <2>2 DEF InPosition
<1>7. Followed'
  <2>1. ASSUME NEW t \in tree.nodes, UpToDate(t)'
        PROVE  OnPath(tree, trace', values', t, Level(t))
    <3>1. UpToDate(t) /\ Level(t) < l /\ Level(t) \in Levels
      BY <2>1, UpToDateLevel
    <3>2. OnPath(tree, trace, values, t, Level(t))
      BY <3>1 DEF RecordInv, Followed, PathRecorded
    <3>3. \A j \in 0 .. Level(t) : RecordOf(trace', values', j) = RecordOf(trace, values, j)
      BY <1>2, <1>5, <3>1 DEF GoesOn, Levels
    <3> QED
      BY <3>2, <3>3, OnPathKept
  <2> QED
    BY <1>1, <2>1 DEF Followed, PathRecorded
<1>8. CurFollows'
  <2>1. emitted \in Nat /\ emitted' <= Len(tree.elems[cur])
    BY <1>1, PassedType, ElementToEmit DEF Records
  <2>2. \A i \in 1 .. emitted : RecordOf(trace, values, l)[i] = tree.elems[cur][i]
    BY <1>1 DEF RecordInv, CurFollows
  <2>3. RecordOf(trace', values', l)[emitted + 1] = tree.elems[cur][emitted + 1]
    BY <1>5 DEF GoesOn, NextElement
  <2>4. \A i \in 1 .. emitted : RecordOf(trace', values', l)[i] = RecordOf(trace, values, l)[i]
    BY <1>5 DEF GoesOn
  <2>5. ASSUME NEW i \in 1 .. emitted' PROVE RecordOf(trace', values', l)[i] = tree.elems[cur][i]
    <3>1. i \in 1 .. emitted \/ i = emitted + 1
      BY <1>1, <2>1
    <3> QED
      BY <2>2, <2>3, <2>4, <3>1
  <2> QED
    BY <1>1, <1>3, <1>4, <2>1, <2>5 DEF CurFollows
<1> QED
  BY <1>3, <1>6, <1>7, <1>8

-----------------------------------------------------------------------------
(* The steps of a construction.                                            *)

LEMMA EmitExtendingRecord ==
  ASSUME TreeInv, RecordInv, EmitExtending
  PROVE  RecordInv'
<1> DEFINE l == Level(cur)
<1>1. Records /\ IsExtending(cur) /\ cur # NoNode
  BY ExtendingRecords DEF Records
<1>2. UNCHANGED <<tree, status, max_level, generation, generations, node_gen, q_max_level,
                  canon_leaf, cur>>
  BY DEF EmitExtending, leafVars
<1>3. IsExtending(cur)'
  BY <1>1, <1>2 DEF IsExtending, Level
<1>4. ASSUME NEW t \in tree.nodes, UpToDate(t)' PROVE UpToDate(t) /\ Level(t) < l
  <2>1. UpToDate(t)
    BY <1>2, <1>4 DEF UpToDate, Outdated, Level
  <2> QED
    BY <1>1, <2>1, UpToDateBelow DEF RecordInv
<1>5. /\ l \in Levels /\ max_level \in Levels
      /\ IF cur = Root THEN l = 0 ELSE l = max_level + 1
  BY <1>1, UnderConstruction
<1>6. cur = Root => max_level = 0
  BY DEF RecordInv, NothingAbove
<1>7. GoesOn(trace, values, trace', values', l, emitted, NextElement)
  BY <1>1, RecordsRecord
<1>8. ASSUME cur # Root
      PROVE  \A j \in 0 .. max_level : RecordOf(trace', values', j) = RecordOf(trace, values, j)
  BY <1>5, <1>7, <1>8 DEF GoesOn, Levels
<1>9. NothingAbove'
  <2>1. ASSUME NEW i \in Levels, i > max_level, i # l PROVE trace'[i] = <<>>
    <3>1. i > l
      BY <1>5, <1>6, <2>1 DEF Levels
    <3> QED
      BY <1>1, <3>1, RecordsFacts
  <2> QED
    BY <1>1, <1>2, <1>6, <2>1 DEF NothingAbove
<1>10. DeeperIsOld' /\ QuotientFollows'
  BY <1>2 DEF RecordInv, DeeperIsOld, QuotientFollows, Level
<1>11. RecordReached'
  <2> SUFFICES ASSUME cur # Root
               PROVE  \E w \in tree.nodes :
                        Level(w) = max_level /\ OnPath(tree, trace', values', w, max_level)
    BY <1>2 DEF RecordReached, PathRecorded
  <2>1. PICK w \in tree.nodes :
          Level(w) = max_level /\ OnPath(tree, trace, values, w, max_level)
    BY DEF RecordInv, RecordReached, PathRecorded
  <2> QED
    BY <1>8, <2>1, OnPathKept
<1>12. CandidateOnRecord'
  <2> SUFFICES ASSUME canon_leaf # NoNode
               PROVE  /\ cur # Root /\ IsLeaf(canon_leaf) /\ Level(canon_leaf) = max_level
                      /\ OnPath(tree, trace', values', canon_leaf, max_level)
    BY <1>2 DEF CandidateOnRecord, PathRecorded, IsLeaf, Children
  <2>1. /\ cur # Root /\ IsLeaf(canon_leaf) /\ Level(canon_leaf) = max_level
        /\ OnPath(tree, trace, values, canon_leaf, max_level)
    BY DEF RecordInv, CandidateOnRecord, PathRecorded
  <2> QED
    BY <1>8, <2>1, OnPathKept
<1>13. /\ ValuesTyped' /\ Lengths(trace, values)'
       /\ InPosition' /\ Followed' /\ CurFollows'
  BY <1>1, <1>3, <1>4, RecordsStep
<1> QED
  BY <1>9, <1>10, <1>11, <1>12, <1>13 DEF RecordInv

LEMMA BetterRecord ==
  ASSUME TreeInv, RecordInv, Emitting, ~IsExtending(cur), NEW k,
         Better(cur, k, Append(Truncate(trace[Level(cur)], end_index[cur]), NextElement[1]))
  PROVE  RecordInv'
<1> DEFINE l == Level(cur)
           p == Parent(cur)
<1>1. Records /\ cur # NoNode
  BY BetterRecords DEF Records
<1>2. /\ max_level' = l - 1 /\ generation' = generation + 1 /\ canon_leaf' = NoNode
      /\ node_gen' = [node_gen EXCEPT ![cur] = generation + 1]
      /\ q_max_level' = IF PerLevel = {} THEN q_max_level ELSE l - 1
      /\ UNCHANGED <<tree, status, generations, cur>>
  BY DEF Better, PruneCanonLeaf
<1>3. /\ cur \in tree.nodes /\ cur # Root /\ l \in Levels /\ l >= 1 /\ l <= max_level
      /\ max_level \in Levels /\ status[cur] = "constructing"
      /\ p \in tree.nodes /\ Level(p) = l - 1 /\ UpToDate(p)
  BY <1>1, UnderConstruction DEF IsExtending
<1>4. /\ status \in [tree.nodes -> {"absent", "constructing", "live", "pruned"}]
      /\ node_gen \in [tree.nodes -> Nat] /\ generation \in Nat
  BY DEF TreeInv, ControlTypeOK
<1>5. IsExtending(cur)'
  BY <1>2, <1>3 DEF IsExtending, Level, Levels
<1>6. ASSUME NEW t \in tree.nodes, UpToDate(t)' PROVE UpToDate(t) /\ Level(t) < l
  <2>1. status[t] = "live" /\ t # cur
    BY <1>2, <1>3, <1>6 DEF UpToDate
  <2>2. node_gen'[t] = node_gen[t] /\ Level(t) \in Levels
    BY <1>2, <1>4, <2>1, ParentFacts DEF TreeInv, Input
  <2>3. CASE t = Root
    BY <1>3, <2>1, <2>3, RootLevel DEF UpToDate, Outdated, Levels
  <2>4. CASE t # Root
    <3>1. ~(Level(t) > l - 1) /\ ~(node_gen[t] < generations[Level(t)])
      BY <1>2, <1>6, <2>1, <2>2, <2>4 DEF UpToDate, Outdated, Level
    <3>2. Level(t) < l /\ ~(Level(t) > max_level)
      BY <1>3, <2>2, <3>1 DEF Levels
    <3> QED
      BY <2>1, <3>1, <3>2 DEF UpToDate, Outdated
  <2> QED
    BY <2>3, <2>4
<1>7. NothingAbove'
  <2>1. ASSUME NEW i \in Levels, i > l - 1, i # l PROVE trace'[i] = <<>>
    <3>1. i > l
      BY <1>3, <2>1 DEF Levels
    <3> QED
      BY <1>1, <3>1, RecordsFacts
  <2> QED
    BY <1>1, <1>2, <1>3, <2>1 DEF NothingAbove
<1>8. DeeperIsOld'
  <2>1. ASSUME NEW t \in tree.nodes, status[t] = "live" PROVE node_gen'[t] < generation + 1
    <3>1. t # cur
      BY <1>3, <2>1
    <3>2. node_gen'[t] = node_gen[t] /\ node_gen[t] \in Nat /\ node_gen[t] <= generation
      BY <1>2, <1>4, <3>1 DEF TreeInv, GenerationsBounded
    <3> QED
      BY <1>4, <3>2
  <2> QED
    BY <1>2, <2>1 DEF DeeperIsOld
<1>9. QuotientFollows'
  BY <1>2 DEF QuotientFollows
<1>10. RecordReached'
  <2>1. OnPath(tree, trace, values, p, l - 1)
    BY <1>3 DEF RecordInv, Followed, PathRecorded
  <2>2. \A j \in 0 .. l - 1 : RecordOf(trace', values', j) = RecordOf(trace, values, j)
    BY <1>1, RecordsRecord DEF GoesOn
  <2>3. OnPath(tree, trace', values', p, l - 1)
    BY <2>1, <2>2, OnPathKept
  <2>4. \E w \in tree.nodes : Level(w) = l - 1 /\ OnPath(tree, trace', values', w, l - 1)
    BY <1>3, <2>3
  <2> QED
    BY <1>2, <2>4 DEF RecordReached, PathRecorded, Level
<1>11. CandidateOnRecord'
  BY <1>2 DEF CandidateOnRecord
<1>12. /\ ValuesTyped' /\ Lengths(trace, values)'
       /\ InPosition' /\ Followed' /\ CurFollows'
  BY <1>1, <1>5, <1>6, RecordsStep
<1> QED
  BY <1>7, <1>8, <1>9, <1>10, <1>11, <1>12 DEF RecordInv

LEMMA EmitBetterRecord ==
  ASSUME TreeInv, RecordInv, EmitBetterByVisitor \/ EmitBetterByValue
  PROVE  RecordInv'
<1>1. CASE EmitBetterByVisitor
  BY <1>1, BetterRecord DEF EmitBetterByVisitor
<1>2. CASE EmitBetterByValue
  BY <1>2, BetterByValueRecords, BetterRecord
<1> QED
  BY <1>1, <1>2

(* What is recorded at the place the node under construction has got to.   *)
LEMMA ElementRecorded ==
  ASSUME TreeInv, RecordInv, cur # NoNode, ~IsExtending(cur),
         end_index[cur] < Len(trace[Level(cur)])
  PROVE  RecordOf(trace, values, Level(cur))[end_index[cur] + 1] =
           <<RecordedVisitor(cur), RecordedValue(cur, RecordedVisitor(cur))>>
<1> DEFINE l == Level(cur)
           p == end_index[cur]
           v == trace[l][p + 1]
<1>1. l \in Levels /\ trace \in Traces /\ values \in AllValues /\ Lengths(trace, values)
      /\ Passed = p /\ p \in Nat /\ Len(trace[l]) \in Nat
  BY UnderConstruction, PassedType, LenNat DEF Passed
<1>2. p + 1 \in 1 .. Len(trace[l]) /\ p \in 0 .. Len(trace[l]) - 1 /\ p \in 0 .. Len(trace[l])
  BY <1>1
<1>3. v \in Visitors
  BY <1>1, <1>2, UnderConstruction, ElementOf
<1>4. value_end[v][cur] = Position(v, trace, l, p)
  BY <1>1, <1>3 DEF RecordInv, InPosition
<1>5. Position(v, trace, l, p) \in Nat
  <2> HIDE DEF l, p, v
  <2> QED
    BY <1>1, <1>2, PositionType
<1>6. Position(v, trace, l, p + 1) = Position(v, trace, l, p) + 1
  <2>1. Position(v, trace, l, p + 1) =
          Position(v, trace, l, p) + (IF trace[l][p + 1] = v THEN 1 ELSE 0)
    <3> HIDE DEF l, p, v
    <3> QED
      BY <1>1, <1>2, PositionNext
  <2> QED
    BY <2>1
<1>7. RecordOf(trace, values, l)[p + 1] =
        <<trace[l][p + 1], values[trace[l][p + 1]][Slot(trace[l][p + 1], l)]
                                 [Position(trace[l][p + 1], trace, l, p + 1)]>>
  <2> HIDE DEF l, p
  <2> QED
    BY <1>1, <1>2, RecordEntries
<1> QED
  BY <1>4, <1>6, <1>7 DEF RecordedVisitor, RecordedValue

(* A node that agrees with the record gets one element further in it.      *)
LEMMA EmitSameRecord ==
  ASSUME TreeInv, RecordInv, EmitSame
  PROVE  RecordInv'
<1> DEFINE l == Level(cur)
           v == NextElement[1]
           x == NextElement[2]
           p == end_index[cur]
<1>1. /\ cur # NoNode /\ Emitting /\ ~IsExtending(cur)
      /\ p < Len(trace[l]) /\ v = trace[l][p + 1]
      /\ x = values[v][Slot(v, l)][value_end[v][cur] + 1]
  BY DEF EmitSame, SameVisitor, Emitting, RecordedVisitor, RecordedValue
<1>2. /\ end_index' = [end_index EXCEPT ![cur] = end_index[cur] + 1]
      /\ value_end' = [value_end EXCEPT ![v][cur] = value_end[v][cur] + 1]
      /\ emitted' = emitted + 1
      /\ UNCHANGED <<tree, status, trace, max_level, generation, generations, node_gen,
                     values, q_max_level, canon_leaf, cur>>
  BY DEF EmitSame, coordVars, leafVars
<1>3. /\ cur \in tree.nodes /\ l \in Levels
      /\ end_index \in [tree.nodes -> Nat]
      /\ value_end \in [Visitors -> [tree.nodes -> Nat]]
  BY <1>1, UnderConstruction DEF TreeInv, ControlTypeOK
<1>4. /\ trace \in Traces /\ values \in AllValues /\ Lengths(trace, values)
      /\ Passed = p /\ p = emitted /\ p \in Nat /\ Len(trace[l]) \in Nat
      /\ v \in Visitors /\ NextElement = <<v, x>>
      /\ NextElement = tree.elems[cur][p + 1] /\ p + 1 <= Len(tree.elems[cur])
  <2>1. Passed = p
    BY <1>1 DEF Passed
  <2>2. Len(trace[l]) \in Nat
    BY <1>1, UnderConstruction, LenNat
  <2> QED
    BY <1>1, <2>1, <2>2, PassedType, ElementToEmit
<1>5. Passed' = p + 1
  <2>1. ~IsExtending(cur)' /\ end_index'[cur] = p + 1
    BY <1>1, <1>2, <1>3 DEF IsExtending, Level
  <2> QED
    BY <1>2, <2>1 DEF Passed
<1>6. \A u : Position(u, trace, l, p + 1) =
               Position(u, trace, l, p) + (IF u = v THEN 1 ELSE 0)
  <2>1. p \in 0 .. Len(trace[l]) - 1
    BY <1>1, <1>4
  <2> HIDE DEF l, p, v
  <2> QED
    BY <1>1, <1>3, <1>4, <2>1, PositionNext
<1>7. \A u \in Visitors : value_end[u][cur] = Position(u, trace, l, p)
  BY <1>1, <1>4 DEF RecordInv, InPosition
<1>8. InPosition'
  <2>1. ASSUME NEW u \in Visitors PROVE value_end'[u][cur] = Position(u, trace, l, p + 1)
    <3>1. value_end'[u][cur] = value_end[u][cur] + (IF u = v THEN 1 ELSE 0)
      BY <1>2, <1>3, <1>4
    <3> QED
      BY <1>6, <1>7, <3>1
  <2>2. ASSUME NEW u \in Visitors, NEW t \in tree.nodes, UpToDate(t)'
        PROVE  value_end'[u][t] = Position(u, trace, Level(t), Len(trace[Level(t)]))
    <3>1. UpToDate(t)
      BY <1>2, <2>2 DEF UpToDate, Outdated, Level
    <3>2. t # cur
      BY <3>1, UpToDateLevel
    <3>3. value_end'[u][t] = value_end[u][t]
      BY <1>2, <1>3, <1>4, <3>2
    <3> QED
      BY <3>1, <3>3 DEF RecordInv, InPosition
  <2> QED
    BY <1>2, <1>5, <2>1, <2>2 DEF InPosition, Level
<1>9. RecordOf(trace, values, l)[p + 1] = tree.elems[cur][p + 1]
  <2>1. RecordOf(trace, values, l)[p + 1] = <<trace[l][p + 1], RecordedValue(cur, trace[l][p + 1])>>
    BY <1>1, <1>4, ElementRecorded DEF RecordedVisitor
  <2> QED
    BY <1>1, <1>4, <2>1 DEF RecordedValue
<1>10. CurFollows'
  <2>1. \A i \in 1 .. p : RecordOf(trace, values, l)[i] = tree.elems[cur][i]
    BY <1>1, <1>4 DEF RecordInv, CurFollows
  <2>2. ASSUME NEW i \in 1 .. p + 1 PROVE RecordOf(trace, values, l)[i] = tree.elems[cur][i]
    <3>1. i \in 1 .. p \/ i = p + 1
      BY <1>4
    <3> QED
      BY <1>9, <2>1, <3>1
  <2>3. emitted' = p + 1 /\ p + 1 <= Len(trace[l])
    BY <1>1, <1>2, <1>4
  <2> QED
    BY <1>2, <1>4, <1>5, <2>2, <2>3 DEF CurFollows, Level
<1>11. /\ NothingAbove' /\ DeeperIsOld' /\ QuotientFollows' /\ ValuesTyped'
       /\ Lengths(trace, values)'
  BY <1>2 DEF RecordInv, NothingAbove, DeeperIsOld, QuotientFollows, ValuesTyped, Level, AllValues
<1>12. Followed'
  BY <1>2 DEF RecordInv, Followed, PathRecorded, UpToDate, Outdated, Level
<1>13. RecordReached' /\ CandidateOnRecord'
  BY <1>2 DEF RecordInv, RecordReached, CandidateOnRecord, PathRecorded, IsLeaf, Children, Level
<1> QED
  BY <1>8, <1>10, <1>11, <1>12, <1>13 DEF RecordInv

(* A node that is worse than the record leaves it as it is.                *)
LEMMA DiscardRecord ==
  ASSUME TreeInv, RecordInv, cur # NoNode, ~IsExtending(cur), Discard(cur)
  PROVE  RecordInv'
<1>1. /\ status' = [status EXCEPT ![cur] = "pruned"] /\ cur' = NoNode
      /\ UNCHANGED <<tree, trace, max_level, generation, generations, node_gen, values,
                     value_end, canon_leaf>>
  BY DEF Discard, coordVars, leafVars
<1>2. /\ cur \in tree.nodes /\ cur # Root /\ Level(cur) \in Levels /\ Level(cur) <= max_level
      /\ max_level \in Levels /\ Root \in tree.nodes /\ NoNode # Root
      /\ status \in [tree.nodes -> {"absent", "constructing", "live", "pruned"}]
  BY UnderConstruction DEF IsExtending, TreeInv, Input, IsTree, ControlTypeOK
<1>3. q_max_level' = q_max_level
  BY <1>2 DEF RecordInv, QuotientFollows, Discard, QuotientEnd, Levels
<1>4. \A t \in tree.nodes : status'[t] = "live" => status[t] = "live"
  BY <1>1, <1>2
<1>5. \A t \in tree.nodes : UpToDate(t)' => UpToDate(t)
  BY <1>1, <1>4 DEF UpToDate, Outdated, Level
<1>6. NothingAbove'
  <2>1. ASSUME NEW i \in Levels, i > max_level PROVE trace[i] = <<>>
    <3>1. i # Level(cur)
      BY <1>2, <2>1 DEF Levels
    <3> QED
      BY <2>1, <3>1 DEF RecordInv, NothingAbove
  <2> QED
    BY <1>1, <1>2, <2>1 DEF NothingAbove
<1>7. DeeperIsOld' /\ QuotientFollows' /\ ValuesTyped' /\ Lengths(trace, values)'
  BY <1>1, <1>3, <1>4 DEF RecordInv, DeeperIsOld, QuotientFollows, ValuesTyped, Level, AllValues
<1>8. InPosition'
  BY <1>1, <1>5 DEF RecordInv, InPosition, Level
<1>9. Followed' /\ CurFollows'
  BY <1>1, <1>5 DEF RecordInv, Followed, CurFollows, PathRecorded, Level
<1>10. RecordReached' /\ CandidateOnRecord'
  BY <1>1, <1>2 DEF RecordInv, RecordReached, CandidateOnRecord, PathRecorded, IsLeaf, Children, Level
<1> QED
  BY <1>6, <1>7, <1>8, <1>9, <1>10 DEF RecordInv

LEMMA EmitWorseRecord ==
  ASSUME TreeInv, RecordInv, EmitWorseVisitor \/ EmitWorseValue \/ CreateShort
  PROVE  RecordInv'
<1>1. cur # NoNode /\ ~IsExtending(cur) /\ Discard(cur)
  BY DEF EmitWorseVisitor, EmitWorseValue, CreateShort, SameVisitor, Emitting, Emitted
<1> QED
  BY <1>1, DiscardRecord

(* Construct as a whole.                                                   *)
LEMMA ConstructRecord ==
  ASSUME TreeInv, RecordInv, Construct
  PROVE  RecordInv'
BY EmitExtendingRecord, EmitBetterRecord, EmitSameRecord, EmitWorseRecord DEF Construct

(* Nothing was recorded before the root.                                   *)
LEMMA RootIsFirst ==
  ASSUME TreeInv, RecordInv, cur = Root
  PROVE  /\ canon_leaf = NoNode /\ max_level = 0
         /\ \A t \in tree.nodes : ~UpToDate(t)
<1>1. cur # NoNode /\ IsExtending(cur)
  BY DEF TreeInv, Input, IsTree, IsExtending
<1>2. canon_leaf = NoNode /\ max_level = 0 /\ NothingAbove
  BY DEF RecordInv, CandidateOnRecord, NothingAbove
<1> QED
  BY <1>1, <1>2, UpToDateBelow

(* While a node goes deeper than the record there is no candidate: what is *)
(* recorded is the path to the node's parent, which is not a leaf.         *)
LEMMA NoCandidateWhileExtending ==
  ASSUME TreeInv, RecordInv, cur # NoNode, IsExtending(cur)
  PROVE  canon_leaf = NoNode
<1> SUFFICES ASSUME canon_leaf # NoNode PROVE FALSE
  OBVIOUS
<1> DEFINE p == Parent(cur)
<1>1. /\ cur # Root /\ IsLeaf(canon_leaf) /\ Level(canon_leaf) = max_level
      /\ PathRecorded(canon_leaf, max_level) /\ canon_leaf \in tree.nodes
  BY DEF RecordInv, CandidateOnRecord, TreeInv, ControlTypeOK
<1>2. /\ cur \in tree.nodes /\ p \in tree.nodes /\ UpToDate(p)
      /\ Level(p) = max_level
  BY <1>1, UnderConstruction DEF Levels
<1>3. PathRecorded(p, Level(p))
  BY <1>2 DEF RecordInv, Followed
<1>4. IsLeaf(p)
  BY <1>1, <1>2, <1>3, RecordedAlike DEF TreeInv
<1>5. cur \in tree.children[p]
  BY <1>1, <1>2, ParentIsAncestor DEF TreeInv, Input
<1> QED
  BY <1>4, <1>5 DEF IsLeaf, Children

(* What a finished node has emitted is what is recorded of its path.       *)
LEMMA FinishedFollows ==
  ASSUME TreeInv, RecordInv, Emitted,
         IsExtending(cur) \/ end_index[cur] = Len(trace[Level(cur)])
  PROVE  /\ Passed = Len(trace[Level(cur)])
         /\ PathRecorded(cur, Level(cur))
<1> DEFINE l == Level(cur)
           r == RecordOf(trace, values, l)
           e == tree.elems[cur]
<1>1. cur # NoNode /\ emitted = Len(e)
  BY DEF Emitted
<1>2. Passed = Len(trace[l])
  BY DEF Passed
<1>3. /\ cur \in tree.nodes /\ l \in Levels /\ trace \in Traces /\ values \in AllValues
      /\ Lengths(trace, values) /\ Passed = emitted /\ e \in Seq(Elements)
  BY <1>1, UnderConstruction, PassedType
<1>4. r \in Seq(Elements) /\ Len(r) = Len(e)
  <2>1. r \in Seq(Elements) /\ Len(r) = Len(trace[l])
    BY <1>3, RecordEntries
  <2> QED
    BY <1>1, <1>2, <1>3, <2>1
<1>5. \A i \in 1 .. Len(r) : r[i] = e[i]
  BY <1>1, <1>4 DEF RecordInv, CurFollows
<1>6. r = e
  <2> HIDE DEF r, e
  <2> QED
    BY <1>3, <1>4, <1>5, EqualSequences
<1>7. PathElements(tree, cur, l) = e
  <2>1. l \in 0 .. l
    BY <1>3 DEF Levels
  <2> QED
    BY <1>3, <2>1, PathToAncestor DEF PathElements, TreeInv, Input
<1>8. ASSUME NEW k \in 0 .. l, k # l PROVE RecordOf(trace, values, k) = PathElements(tree, cur, k)
  <2>1. k \in 0 .. l - 1 /\ cur # Root
    BY <1>3, <1>8, RootLevel DEF Levels
  <2>2. UpToDate(Parent(cur)) /\ Parent(cur) \in tree.nodes /\ Level(Parent(cur)) = l - 1
    BY <1>1, <2>1, UnderConstruction
  <2>3. RecordOf(trace, values, k) = PathElements(tree, Parent(cur), k)
    BY <2>1, <2>2 DEF RecordInv, Followed, PathRecorded, OnPath
  <2>4. PathElements(tree, Parent(cur), k) = PathElements(tree, cur, k)
    BY <1>3, <2>1, ParentIsAncestor DEF TreeInv, Input
  <2> QED
    BY <2>3, <2>4
<1>9. \A k \in 0 .. l : RecordOf(trace, values, k) = PathElements(tree, cur, k)
  BY <1>6, <1>7, <1>8
<1> QED
  BY <1>2, <1>9 DEF PathRecorded, OnPath

(* A node is finished: its level gets its generation if it is deeper than  *)
(* the record, and nothing else becomes up to date.                        *)
LEMMA FinishGenerations ==
  ASSUME TreeInv, RecordInv, CreateLive, generation < SizeTypeSize
  PROVE  /\ generations' = [generations EXCEPT ![Level(cur)] = IF IsExtending(cur) THEN generation
                                                              ELSE generations[Level(cur)]]
         /\ \A t \in tree.nodes : UpToDate(t)' /\ t # cur => UpToDate(t)
<1> DEFINE l == Level(cur)
<1>1. /\ cur # NoNode /\ Emitted
      /\ IsExtending(cur) \/ end_index[cur] = Len(trace[l])
      /\ status' = [status EXCEPT ![cur] = "live"] /\ cur' = NoNode
      /\ max_level' = IF cur # Root /\ l > max_level THEN max_level + 1 ELSE max_level
      /\ UNCHANGED <<tree, trace, generation, node_gen, values, value_end, canon_leaf>>
  BY DEF CreateLive, Emitted, dataVars, leafVars
<1>2. /\ cur \in tree.nodes /\ l \in Levels /\ max_level \in Levels /\ NoNode # Root
      /\ status[cur] = "constructing"
      /\ cur = Root => l = 0 /\ max_level = 0 /\ IsExtending(cur)
      /\ cur # Root /\ IsExtending(cur) => l = max_level + 1
      /\ ~IsExtending(cur) => cur # Root /\ l <= max_level
  BY <1>1, UnderConstruction, RootIsFirst DEF TreeInv, Input, IsTree, IsExtending
<1>3. /\ status \in [tree.nodes -> {"absent", "constructing", "live", "pruned"}]
      /\ node_gen \in [tree.nodes -> Nat] /\ generation \in Nat
      /\ generations \in [Levels -> Nat]
  BY DEF TreeInv, ControlTypeOK
<1>4. generations' = [generations EXCEPT ![l] = IF IsExtending(cur) THEN generation
                                                ELSE generations[l]]
  <2>1. LevelGeneration(cur) = IF IsExtending(cur) THEN generation ELSE generations[l]
    BY <1>1, <1>2 DEF LevelGeneration, TreeInv, GenerationsBounded
  <2>2. generations[l] <= generation
    BY <1>2 DEF TreeInv, GenerationsBounded
  <2>3. LevelGeneration(cur) < SizeTypeSize
    BY <1>2, <1>3, <2>1, <2>2, SizeTypeAssumption
  <2> QED
    BY <2>1, <2>3 DEF CreateLive, Narrow
<1>6. \A t \in tree.nodes : t # cur /\ status'[t] = "live" => status[t] = "live"
  BY <1>1, <1>3
<1>7. ASSUME NEW t \in tree.nodes, UpToDate(t)', t # cur PROVE UpToDate(t)
  <2>1. status[t] = "live"
    BY <1>6, <1>7 DEF UpToDate
  <2>2. CASE t = Root
    BY <2>1, <2>2 DEF UpToDate, Outdated
  <2>3. CASE t # Root
    <3>1. /\ Level(t) \in Levels /\ Level(t) >= 1 /\ ~(Level(t) > max_level')
          /\ ~(node_gen[t] < generations'[Level(t)])
          /\ node_gen[t] \in Nat
      BY <1>1, <1>3, <1>7, <2>3, ParentFacts DEF UpToDate, Outdated, Level, TreeInv, Input
    <3>2. CASE Level(t) > max_level
      <4>1. cur # Root /\ l > max_level /\ max_level' = max_level + 1
        BY <1>1, <3>1, <3>2
      <4>2. IsExtending(cur)
        BY <4>1 DEF IsExtending
      <4>3. Level(t) = l
        BY <1>2, <3>1, <3>2, <4>1, <4>2 DEF Levels
      <4>4. generations'[l] = generation
        BY <1>2, <1>3, <1>4, <4>2
      <4>5. node_gen[t] < generation
        BY <2>1, <3>2 DEF RecordInv, DeeperIsOld
      <4> QED
        BY <3>1, <4>3, <4>4, <4>5
    <3>3. CASE ~(Level(t) > max_level)
      <4>1. generations'[Level(t)] = generations[Level(t)]
        <5>1. CASE ~IsExtending(cur)
          BY <1>2, <1>3, <1>4, <3>1, <5>1
        <5>2. CASE IsExtending(cur)
          <6>1. Level(t) # l
            BY <1>2, <3>1, <3>3, <5>2 DEF Levels
          <6> QED
            BY <1>2, <1>3, <1>4, <3>1, <6>1
        <5> QED
          BY <5>1, <5>2
      <4> QED
        BY <2>1, <3>1, <3>3, <4>1 DEF UpToDate, Outdated
    <3> QED
      BY <3>2, <3>3
  <2> QED
    BY <2>2, <2>3
<1> QED
  BY <1>4, <1>7

(* Its level is recorded, and with it the generation that tells it from the*)
(* nodes of a replaced trace.                                              *)
LEMMA CreateLiveRecord ==
  ASSUME TreeInv, RecordInv, CreateLive, generation < SizeTypeSize
  PROVE  RecordInv'
<1> DEFINE l == Level(cur)
<1>1. /\ cur # NoNode /\ Emitted
      /\ IsExtending(cur) \/ end_index[cur] = Len(trace[l])
      /\ status' = [status EXCEPT ![cur] = "live"] /\ cur' = NoNode
      /\ max_level' = IF cur # Root /\ l > max_level THEN max_level + 1 ELSE max_level
      /\ UNCHANGED <<tree, trace, generation, node_gen, values, value_end, canon_leaf>>
  BY DEF CreateLive, Emitted, dataVars, leafVars
<1>2. /\ cur \in tree.nodes /\ l \in Levels /\ max_level \in Levels /\ NoNode # Root
      /\ status[cur] = "constructing"
      /\ cur = Root => l = 0 /\ max_level = 0 /\ IsExtending(cur)
      /\ cur # Root /\ IsExtending(cur) => l = max_level + 1
      /\ ~IsExtending(cur) => cur # Root /\ l <= max_level
  BY <1>1, UnderConstruction, RootIsFirst DEF TreeInv, Input, IsTree, IsExtending
<1>3. /\ status \in [tree.nodes -> {"absent", "constructing", "live", "pruned"}]
      /\ node_gen \in [tree.nodes -> Nat] /\ generation \in Nat
      /\ generations \in [Levels -> Nat]
  BY DEF TreeInv, ControlTypeOK
<1>5. Passed = Len(trace[l]) /\ PathRecorded(cur, l)
  BY <1>1, FinishedFollows
<1>6. \A t \in tree.nodes : t # cur /\ status'[t] = "live" => status[t] = "live"
  BY <1>1, <1>3
<1>7. ASSUME NEW t \in tree.nodes, UpToDate(t)', t # cur PROVE UpToDate(t)
  BY <1>7, FinishGenerations
<1>8. InPosition'
  <2>1. ASSUME NEW v \in Visitors, NEW t \in tree.nodes, UpToDate(t)'
        PROVE  value_end[v][t] = Position(v, trace, Level(t), Len(trace[Level(t)]))
    <3>1. CASE t = cur
      BY <1>1, <1>5, <3>1 DEF RecordInv, InPosition
    <3>2. CASE t # cur
      BY <1>7, <2>1, <3>2 DEF RecordInv, InPosition
    <3> QED
      BY <3>1, <3>2
  <2> QED
    BY <1>1, <2>1 DEF InPosition, Level
<1>9. Followed'
  <2>1. ASSUME NEW t \in tree.nodes, UpToDate(t)' PROVE PathRecorded(t, Level(t))
    BY <1>5, <1>7, <2>1 DEF RecordInv, Followed
  <2> QED
    BY <1>1, <2>1 DEF Followed, PathRecorded, Level
<1>10. /\ max_level' \in Nat /\ l <= max_level' /\ max_level <= max_level'
       /\ max_level' # max_level => max_level' = l /\ IsExtending(cur) /\ cur # Root
  BY <1>1, <1>2 DEF Levels, IsExtending
<1>11. NothingAbove'
  <2>1. ASSUME NEW i \in Levels, i > max_level' PROVE trace[i] = <<>>
    <3>1. i > max_level /\ i # l
      BY <1>2, <1>10, <2>1 DEF Levels
    <3> QED
      BY <3>1 DEF RecordInv, NothingAbove
  <2> QED
    BY <1>1, <1>2, <2>1 DEF NothingAbove
<1>12. DeeperIsOld'
  <2>1. ASSUME NEW t \in tree.nodes, status'[t] = "live", Level(t) > max_level'
        PROVE  node_gen[t] < generation
    <3>1. Level(t) \in Levels
      BY ParentFacts DEF TreeInv, Input
    <3>2. t # cur /\ Level(t) > max_level
      BY <1>2, <1>10, <2>1, <3>1 DEF Levels
    <3> QED
      BY <1>6, <2>1, <3>2 DEF RecordInv, DeeperIsOld
  <2> QED
    BY <1>1, <2>1 DEF DeeperIsOld, Level
<1>13. QuotientFollows'
  <2>1. q_max_level' = IF PerLevel # {} /\ cur # Root /\ q_max_level < l
                       THEN q_max_level + 1 ELSE q_max_level
    BY DEF CreateLive, QuotientEnd
  <2> QED
    BY <1>1, <1>2, <2>1 DEF RecordInv, QuotientFollows, Levels
<1>14. RecordReached'
  <2>1. \E w \in tree.nodes : Level(w) = max_level' /\ PathRecorded(w, max_level')
    <3>1. CASE max_level' = l
      BY <1>2, <1>5, <3>1
    <3>2. CASE max_level' # l
      <4>1. max_level' = max_level /\ cur # Root
        BY <1>2, <1>10, <3>2
      <4> QED
        BY <4>1 DEF RecordInv, RecordReached
    <3> QED
      BY <3>1, <3>2
  <2> QED
    BY <1>1, <2>1 DEF RecordReached, PathRecorded, Level
<1>15. CandidateOnRecord'
  <2>1. CASE IsExtending(cur)
    BY <1>1, <2>1, NoCandidateWhileExtending DEF CandidateOnRecord
  <2>2. CASE ~IsExtending(cur)
    <3>1. max_level' = max_level
      BY <1>10, <2>2
    <3> QED
      BY <1>1, <1>2, <3>1 DEF RecordInv, CandidateOnRecord, PathRecorded, IsLeaf, Children, Level
  <2> QED
    BY <2>1, <2>2
<1>16. ValuesTyped' /\ Lengths(trace, values)' /\ CurFollows'
  BY <1>1 DEF RecordInv, ValuesTyped, AllValues, CurFollows
<1> QED
  BY <1>8, <1>9, <1>11, <1>12, <1>13, <1>14, <1>15, <1>16 DEF RecordInv

-----------------------------------------------------------------------------
(* The other steps.                                                        *)

(* Nothing has been passed of a level when it begins.                      *)
LEMMA PositionAtBegin ==
  ASSUME NEW tr \in Traces, NEW l \in Levels, NEW v
  PROVE  Position(v, tr, l, 0) = IF v \in PerLevel THEN 0 ELSE Below(v, tr, l)
<1>1. SubSeq(tr[l], 1, 0) = <<>>
  BY DEF Traces
<1>2. Count(v, SubSeq(tr[l], 1, 0)) = 0
  BY <1>1, CountEmpty
<1>3. Below(v, tr, l) \in Nat
  BY PlacesFinite, VisitorsAssumption DEF Levels
<1> QED
  BY <1>2, <1>3 DEF Position

(* A child of an up to date node begins where its parent ended.            *)
LEMMA CreateBeginRecord ==
  ASSUME TreeInv, RecordInv, cur = NoNode, NEW c \in tree.nodes, c # Root,
         UpToDate(Parent(c)), CreateBegin(c)
  PROVE  RecordInv'
<1> DEFINE l == Level(c)
           p == Parent(c)
<1>1. /\ cur' = c /\ emitted' = 0
      /\ status' = [status EXCEPT ![c] = "constructing"]
      /\ end_index' = [end_index EXCEPT ![c] = 0]
      /\ node_gen' = [node_gen EXCEPT ![c] = BeginGeneration(c)]
      /\ value_end' = [v \in Visitors |-> [value_end[v] EXCEPT ![c] = BeginEnd(v, c)]]
      /\ UNCHANGED <<tree, trace, max_level, generation, generations, values, q_max_level,
                     canon_leaf>>
  BY DEF CreateBegin, coordVars, leafVars
<1>2. /\ l \in Levels /\ l >= 1 /\ p \in tree.nodes /\ Level(p) = l - 1 /\ l - 1 \in Levels
      /\ c # NoNode /\ NoNode # Root
  BY ParentFacts DEF TreeInv, Input, IsTree
<1>3. /\ status \in [tree.nodes -> {"absent", "constructing", "live", "pruned"}]
      /\ node_gen \in [tree.nodes -> Nat] /\ end_index \in [tree.nodes -> Nat]
      /\ value_end \in [Visitors -> [tree.nodes -> Nat]] /\ trace \in Traces
  BY DEF TreeInv, ControlTypeOK, Traces
<1>4. ASSUME NEW t \in tree.nodes, status'[t] = "live"
      PROVE  t # c /\ status[t] = "live" /\ node_gen'[t] = node_gen[t]
  BY <1>1, <1>3, <1>4
<1>5. ASSUME NEW t \in tree.nodes, UpToDate(t)'
      PROVE  UpToDate(t) /\ \A v \in Visitors : value_end'[v][t] = value_end[v][t]
  <2>1. t # c /\ status[t] = "live" /\ node_gen'[t] = node_gen[t]
    BY <1>4, <1>5 DEF UpToDate
  <2>2. UpToDate(t)
    BY <1>1, <1>5, <2>1 DEF UpToDate, Outdated, Level
  <2> QED
    BY <1>1, <1>3, <2>1, <2>2
<1>6. Passed' = 0
  <2>1. CASE IsExtending(c)'
    <3>1. l > max_level
      BY <1>1, <2>1 DEF IsExtending, Level
    <3>2. trace[l] = <<>>
      BY <1>2, <3>1 DEF RecordInv, NothingAbove
    <3>3. Len(trace[l]) = 0
      BY <3>2
    <3> QED
      BY <1>1, <2>1, <3>3 DEF Passed, Level
  <2>2. CASE ~IsExtending(c)'
    <3>1. end_index'[c] = 0
      BY <1>1, <1>3
    <3> QED
      BY <1>1, <2>2, <3>1 DEF Passed
  <2> QED
    BY <2>1, <2>2
<1>7. InPosition'
  <2>1. ASSUME NEW v \in Visitors PROVE value_end'[v][c] = Position(v, trace, l, 0)
    <3>1. value_end'[v][c] = BeginEnd(v, c)
      BY <1>1, <1>3
    <3>2. value_end[v][p] = Position(v, trace, l - 1, Len(trace[l - 1]))
      BY <1>2 DEF RecordInv, InPosition
    <3>3. v \notin PerLevel => Position(v, trace, l - 1, Len(trace[l - 1])) = Below(v, trace, l)
      <4>1. (l - 1) + 1 = l
        BY <1>2 DEF Levels
      <4>2. Position(v, trace, l - 1, Len(trace[l - 1])) =
              IF v \in PerLevel THEN Count(v, trace[l - 1]) ELSE Below(v, trace, (l - 1) + 1)
        BY <1>2, <1>3, PositionAtEnd
      <4> QED
        BY <4>1, <4>2
    <3>4. Position(v, trace, l, 0) = IF v \in PerLevel THEN 0 ELSE Below(v, trace, l)
      BY <1>2, <1>3, PositionAtBegin
    <3> QED
      BY <3>1, <3>2, <3>3, <3>4 DEF BeginEnd
  <2>2. ASSUME NEW v \in Visitors, NEW t \in tree.nodes, UpToDate(t)'
        PROVE  value_end'[v][t] = Position(v, trace, Level(t), Len(trace[Level(t)]))
    BY <1>5, <2>2 DEF RecordInv, InPosition
  <2> QED
    BY <1>1, <1>6, <2>1, <2>2 DEF InPosition, Level
<1>8. Followed'
  BY <1>1, <1>5 DEF RecordInv, Followed, PathRecorded, Level
<1>9. CurFollows'
  <2>1. tree.elems[c] \in Seq(Elements)
    BY DEF TreeInv, Input, IsTree
  <2>2. trace[l] \in Seq(Visitors)
    BY <1>2, <1>3 DEF Traces
  <2>3. 0 <= Len(tree.elems[c]) /\ 0 <= Len(trace[l])
    BY <2>1, <2>2, LenNat
  <2> QED
    BY <1>1, <1>6, <2>3 DEF CurFollows, Level
<1>10. NothingAbove'
  <2>1. \A i \in Levels : i > max_level => trace[i] = <<>>
    BY DEF RecordInv, NothingAbove
  <2> QED
    BY <1>1, <2>1 DEF NothingAbove
<1>11. DeeperIsOld' /\ QuotientFollows' /\ ValuesTyped' /\ Lengths(trace, values)'
  BY <1>1, <1>4 DEF RecordInv, DeeperIsOld, QuotientFollows, ValuesTyped, Level, AllValues
<1>12. RecordReached' /\ CandidateOnRecord'
  BY <1>1, <1>2 DEF RecordInv, RecordReached, CandidateOnRecord, PathRecorded, IsLeaf, Children, Level
<1> QED
  BY <1>7, <1>8, <1>9, <1>10, <1>11, <1>12 DEF RecordInv

(* A leaf that is up to date is as deep as the record goes.                *)
LEMMA LeafIsDeepest ==
  ASSUME TreeInv, RecordInv, cur # Root, NEW t \in tree.nodes, UpToDate(t), IsLeaf(t)
  PROVE  Level(t) = max_level /\ PathRecorded(t, max_level)
<1> DEFINE l == Level(t)
<1>1. l \in Levels /\ l <= max_level /\ max_level \in Levels /\ PathRecorded(t, l)
  BY UpToDateLevel DEF TreeInv, ControlTypeOK, RecordInv, Followed
<1>2. PICK w \in tree.nodes : Level(w) = max_level /\ PathRecorded(w, max_level)
  BY DEF RecordInv, RecordReached
<1> SUFFICES ASSUME l < max_level PROVE FALSE
  BY <1>1 DEF Levels
<1> DEFINE a == Ancestor(w, l)
           c == Ancestor(w, l + 1)
<1>3. l \in 0 .. Level(w) /\ l + 1 \in 0 .. Level(w) /\ (l + 1) - 1 = l /\ l + 1 > 0
  BY <1>1, <1>2 DEF Levels
<1>4. /\ a \in tree.nodes /\ Level(a) = l
      /\ \A k \in 0 .. l : PathElements(tree, a, k) = PathElements(tree, w, k)
  BY <1>3, PathToAncestor DEF TreeInv, Input
<1>5. PathRecorded(a, l)
  <2>1. ASSUME NEW k \in 0 .. l PROVE RecordOf(trace, values, k) = PathElements(tree, a, k)
    <3>1. k \in 0 .. max_level
      BY <1>1 DEF Levels
    <3> QED
      BY <1>2, <1>4, <3>1 DEF PathRecorded, OnPath
  <2> QED
    BY <2>1 DEF PathRecorded, OnPath
<1>6. IsLeaf(a)
  BY <1>1, <1>4, <1>5, RecordedAlike DEF TreeInv
<1>7. c \in tree.nodes /\ c # Root /\ Parent(c) = a
  BY <1>3, PathToAncestor DEF TreeInv, Input
<1>8. c \in tree.children[a]
  BY <1>7, ParentIsAncestor DEF TreeInv, Input
<1> QED
  BY <1>6, <1>8 DEF IsLeaf, Children

(* Finished nodes are pruned, and perhaps a leaf is reported, or the       *)
(* candidate given up.                                                     *)
LeavesRecord ==
  /\ UNCHANGED <<tree, trace, max_level, generation, generations, node_gen, end_index, values,
                 value_end, q_max_level, cur, emitted>>
  /\ \A t \in tree.nodes : status'[t] = "live" => status[t] = "live"
  /\ \/ canon_leaf' \in {canon_leaf, NoNode}
     \/ /\ cur # Root
        /\ canon_leaf' \in tree.nodes /\ UpToDate(canon_leaf') /\ IsLeaf(canon_leaf')

LEMMA LeavesRecordStep ==
  ASSUME TreeInv, RecordInv, LeavesRecord
  PROVE  RecordInv'
<1>1. UNCHANGED <<tree, trace, max_level, generation, generations, node_gen, end_index, values,
                  value_end, q_max_level, cur, emitted>>
  BY DEF LeavesRecord
<1>2. \A t \in tree.nodes : status'[t] = "live" => status[t] = "live"
  BY DEF LeavesRecord
<1>3. \A t \in tree.nodes : UpToDate(t)' => UpToDate(t)
  BY <1>1, <1>2 DEF UpToDate, Outdated, Level
<1>4. InPosition'
  BY <1>1, <1>3 DEF RecordInv, InPosition, Passed, IsExtending, Level
<1>5. Followed'
  BY <1>1, <1>3 DEF RecordInv, Followed, PathRecorded, Level
<1>6. CurFollows'
  BY <1>1 DEF RecordInv, CurFollows, Passed, IsExtending, Level
<1>7. NothingAbove' /\ DeeperIsOld' /\ QuotientFollows' /\ ValuesTyped' /\ Lengths(trace, values)'
  BY <1>1, <1>2 DEF RecordInv, NothingAbove, DeeperIsOld, QuotientFollows, ValuesTyped, Level,
                    AllValues
<1>8. RecordReached'
  BY <1>1 DEF RecordInv, RecordReached, PathRecorded, Level
<1>9. CandidateOnRecord'
  <2>0. PICK c : c = canon_leaf'
    OBVIOUS
  <2>1. ASSUME c # NoNode
        PROVE  cur # Root /\ IsLeaf(c) /\ Level(c) = max_level /\ PathRecorded(c, max_level)
    <3>1. CASE c \in {canon_leaf, NoNode}
      BY <2>1, <3>1 DEF RecordInv, CandidateOnRecord
    <3>2. CASE cur # Root /\ c \in tree.nodes /\ UpToDate(c) /\ IsLeaf(c)
      BY <3>2, LeafIsDeepest
    <3> QED
      BY <2>0, <3>1, <3>2 DEF LeavesRecord
  <2> QED
    BY <1>1, <2>0, <2>1 DEF CandidateOnRecord, PathRecorded, IsLeaf, Children, Level
<1> QED
  BY <1>4, <1>5, <1>6, <1>7, <1>8, <1>9 DEF RecordInv

LEMMA BelowNone == ASSUME NEW tr, NEW v PROVE Below(v, tr, 0) = 0
<1>1. PlacesBelow(v, tr, 0) = {}
  <2>1. 0 .. 0 - 1 = {}
    OBVIOUS
  <2> QED
    BY <2>1 DEF PlacesBelow
<1> QED
  BY <1>1, FS_EmptySet DEF Below

(* Nothing is recorded when the root is begun.                             *)
LEMMA InitRecord ==
  ASSUME TreeInit, Input
  PROVE  RecordInv
<1>1. /\ trace = [l \in Levels |-> <<>>] /\ values = [v \in Visitors |-> [l \in Levels |-> <<>>]]
      /\ status = [t \in tree.nodes |-> IF t = Root THEN "constructing" ELSE "absent"]
      /\ max_level = 0 /\ q_max_level = 0 /\ cur = Root /\ emitted = 0 /\ canon_leaf = NoNode
      /\ value_end = [v \in Visitors |-> [t \in tree.nodes |-> 0]]
  BY DEF TreeInit
<1>2. Root \in tree.nodes /\ Level(Root) = 0 /\ 0 \in Levels /\ tree.elems[Root] \in Seq(Elements)
  BY RootLevel, VisitorsAssumption DEF Input, IsTree, Levels
<1>3. trace \in Traces /\ values \in AllValues /\ \A l \in Levels : trace[l] = <<>>
  BY <1>1 DEF Traces, AllValues
<1>4. \A t \in tree.nodes : status[t] # "live"
  BY <1>1
<1>5. Lengths(trace, values)
  <2>1. ASSUME NEW v \in Visitors, NEW l \in Levels
        PROVE  Len(values[v][l]) = 0 /\ Count(v, trace[l]) = 0
    BY <1>1, CountEmpty
  <2>2. ASSUME NEW v \in Visitors PROVE Below(v, trace, MaxDepth + 1) = 0
    <3>1. 0 \in 0 .. MaxDepth + 1 /\ \A k \in 0 .. MaxDepth : trace[k] = <<>>
      BY <1>3, VisitorsAssumption DEF Levels
    <3>2. Below(v, trace, MaxDepth + 1) = Below(v, trace, 0)
      BY <3>1, BelowEmpty
    <3> QED
      BY <3>2, BelowNone
  <2> QED
    BY <1>2, <2>1, <2>2 DEF Lengths
<1>6. Passed = 0
  BY <1>1, <1>2 DEF Passed, IsExtending
<1>7. InPosition
  <2>1. ASSUME NEW v \in Visitors PROVE value_end[v][Root] = Position(v, trace, 0, 0)
    <3>1. Position(v, trace, 0, 0) = 0
      BY <1>2, <1>3, PositionAtBegin, BelowNone
    <3> QED
      BY <1>1, <1>2, <3>1
  <2> QED
    BY <1>1, <1>2, <1>4, <1>6, <2>1 DEF InPosition, UpToDate
<1>8. CurFollows
  BY <1>1, <1>2, <1>3, <1>6, LenNat DEF CurFollows
<1>9. NothingAbove /\ DeeperIsOld /\ QuotientFollows /\ Followed /\ RecordReached
      /\ CandidateOnRecord
  BY <1>1, <1>3, <1>4 DEF NothingAbove, DeeperIsOld, QuotientFollows, Followed, UpToDate,
                          RecordReached, CandidateOnRecord
<1> QED
  BY <1>3, <1>5, <1>7, <1>8, <1>9 DEF RecordInv, ValuesTyped

-----------------------------------------------------------------------------
(* What the invariant says of the properties of SearchTree.                *)

LEMMA RecordedIs ==
  ASSUME NEW l
  PROVE  Recorded(l) = RecordOf(trace, values, l)
BY DEF Recorded, RecordOf, Position, Below, PlacesBelow, CountBelow

LEMMA CountBelowIs ==
  ASSUME NEW v, NEW l
  PROVE  CountBelow(v, l) = Below(v, trace, l)
BY DEF CountBelow, Below, PlacesBelow

LEMMA InStep ==
  ASSUME TreeInv, RecordInv
  PROVE  TracesInStep
<1>1. trace \in Traces
  BY DEF TreeInv, ControlTypeOK, Traces
<1>2. ASSUME NEW v \in Visitors
      PROVE  IF v \in PerLevel
             THEN \A l \in Levels : Len(values[v][l]) = Count(v, trace[l])
             ELSE Len(values[v][0]) = CountBelow(v, MaxDepth + 1)
  BY CountBelowIs DEF RecordInv, Lengths
<1>3. ASSUME NEW v \in Visitors, NEW t \in tree.nodes, UpToDate(t)
      PROVE  value_end[v][t] = IF v \in PerLevel THEN Count(v, trace[Level(t)])
                                                 ELSE CountBelow(v, Level(t) + 1)
  <2>1. Level(t) \in Levels
    BY <1>3, UpToDateLevel
  <2>2. value_end[v][t] = Position(v, trace, Level(t), Len(trace[Level(t)]))
    BY <1>3 DEF RecordInv, InPosition
  <2> QED
    BY <1>1, <2>1, <2>2, PositionAtEnd, CountBelowIs
<1>4. ASSUME NEW v \in Visitors, cur # NoNode
      PROVE  LET passed == IF IsExtending(cur) THEN trace[Level(cur)]
                           ELSE Truncate(trace[Level(cur)], end_index[cur])
             IN value_end[v][cur] = Count(v, passed) +
                  IF v \in PerLevel THEN 0 ELSE CountBelow(v, Level(cur))
  <2> DEFINE l == Level(cur)
             s == trace[l]
             passed == IF IsExtending(cur) THEN s ELSE Truncate(s, end_index[cur])
  <2>1. l \in Levels /\ s \in Seq(Visitors) /\ l \in 0 .. MaxDepth + 1
    BY <1>4, UnderConstruction, VisitorsAssumption DEF Levels
  <2>2. SubSeq(s, 1, Passed) = passed
    BY <2>1, WholePrefix DEF Passed, Truncate
  <2>3. passed \in Seq(Visitors)
    <3>1. Passed \in Nat /\ Passed <= Len(s)
      BY <1>4, <2>1, PassedType, LenNat
    <3> HIDE DEF s, passed
    <3> QED
      BY <2>1, <2>2, <3>1, Prefix
  <2>4. Count(v, passed) \in Nat /\ Below(v, trace, l) \in Nat
    BY <1>1, <2>1, <2>3, CountType, PlacesFinite
  <2>5. value_end[v][cur] = (IF v \in PerLevel THEN 0 ELSE Below(v, trace, l)) + Count(v, passed)
    BY <1>4, <2>2 DEF RecordInv, InPosition, Position
  <2> HIDE DEF passed
  <2>6. value_end[v][cur] = Count(v, passed) + IF v \in PerLevel THEN 0 ELSE CountBelow(v, l)
    BY <2>4, <2>5, CountBelowIs
  <2> QED
    BY <2>6 DEF passed
<1> QED
  BY <1>2, <1>3, <1>4 DEF TracesInStep, RecordInv, QuotientFollows

LEMMA Agrees ==
  ASSUME RecordInv
  PROVE  RecordAgrees
<1>1. ASSUME NEW t \in tree.nodes, UpToDate(t), NEW l \in 0 .. Level(t)
      PROVE  Recorded(l) = PathElements(tree, t, l)
  BY <1>1, RecordedIs DEF RecordInv, Followed, PathRecorded, OnPath
<1> QED
  BY <1>1 DEF RecordAgrees

(* A level whose record changes, and is not emptied, gets a better one, on *)
(* the levels below nothing changes.                                       *)
Improves ==
  \A l \in Levels : Recorded(l)' # Recorded(l) /\ Recorded(l)' # <<>> =>
    /\ ElementsBetter(Recorded(l)', Recorded(l))
    /\ \A k \in Levels : k < l => Recorded(k)' = Recorded(k)

(* A node only records an element past the end of its level, or one that   *)
(* is better than what was there.                                          *)
LEMMA RecordedIsBetter ==
  ASSUME TreeInv, RecordInv,
         EmitExtending \/ EmitBetterByVisitor \/ EmitBetterByValue,
         emitted < Len(RecordOf(trace, values, Level(cur)))
  PROVE  ElementBetter(NextElement, RecordOf(trace, values, Level(cur))[emitted + 1])
<1> DEFINE l == Level(cur)
           p == end_index[cur]
<1>1. cur # NoNode /\ Emitting
  BY DEF EmitExtending, EmitBetterByVisitor, EmitBetterByValue, SameVisitor, Emitting
<1>2. /\ l \in Levels /\ trace \in Traces /\ values \in AllValues /\ Lengths(trace, values)
      /\ Passed = emitted /\ emitted \in Nat
  BY <1>1, UnderConstruction, PassedType
<1>3. Len(RecordOf(trace, values, l)) = Len(trace[l]) /\ Len(trace[l]) \in Nat
  BY <1>1, <1>2, RecordEntries, UnderConstruction, LenNat
<1>4. ~IsExtending(cur) /\ p = emitted /\ p < Len(trace[l])
  BY <1>2, <1>3 DEF Passed
<1>5. RecordOf(trace, values, l)[p + 1] =
        <<RecordedVisitor(cur), RecordedValue(cur, RecordedVisitor(cur))>>
  BY <1>1, <1>4, ElementRecorded
<1>6. CASE EmitBetterByVisitor
  <2>1. NextElement[1] < RecordedVisitor(cur)
    BY <1>4, <1>6 DEF EmitBetterByVisitor, RecordedVisitor
  <2> QED
    BY <1>4, <1>5, <2>1 DEF ElementBetter
<1>7. CASE EmitBetterByValue
  <2>1. NextElement[1] = RecordedVisitor(cur)
        /\ NextElement[2] < RecordedValue(cur, RecordedVisitor(cur))
    BY <1>7 DEF EmitBetterByValue, SameVisitor
  <2> QED
    BY <1>4, <1>5, <2>1 DEF ElementBetter
<1>8. CASE EmitExtending
  BY <1>4, <1>8 DEF EmitExtending
<1> QED
  BY <1>6, <1>7, <1>8

(* So the record of the level is better: it is the same up to there.       *)
LEMMA GoesOnBetter ==
  ASSUME NEW r \in Seq(Elements), NEW s \in Seq(Elements), NEW n \in Nat,
         n <= Len(s), Len(r) = n + 1, \A i \in 1 .. n : r[i] = s[i],
         n < Len(s) => ElementBetter(r[n + 1], s[n + 1])
  PROVE  ElementsBetter(r, s)
<1>1. Len(r) \in Nat /\ Len(s) \in Nat
  BY LenNat
<1>2. SubSeq(r, 1, n) = SubSeq(s, 1, n)
  <2>1. /\ SubSeq(r, 1, n) \in Seq(Elements) /\ Len(SubSeq(r, 1, n)) = n
        /\ SubSeq(s, 1, n) \in Seq(Elements) /\ Len(SubSeq(s, 1, n)) = n
    BY <1>1, Prefix
  <2>2. ASSUME NEW i \in 1 .. n PROVE SubSeq(r, 1, n)[i] = SubSeq(s, 1, n)[i]
    BY <1>1
  <2> QED
    BY <2>1, <2>2, EqualSequences
<1>3. n + 1 \in 1 .. Len(r) /\ n + 1 <= Len(s) + 1 /\ (n + 1) - 1 = n
      /\ (n + 1 <= Len(s) <=> n < Len(s))
  BY <1>1
<1> QED
  BY <1>2, <1>3 DEF ElementsBetter

LEMMA EmitImproves ==
  ASSUME TreeInv, RecordInv,
         EmitExtending \/ EmitBetterByVisitor \/ EmitBetterByValue
  PROVE  Improves
<1> DEFINE l == Level(cur)
           r == RecordOf(trace', values', l)
           s == RecordOf(trace, values, l)
<1>1. Records
  <2>1. CASE EmitExtending
    BY <2>1, ExtendingRecords
  <2>2. CASE EmitBetterByVisitor
    BY <2>2, BetterRecords DEF EmitBetterByVisitor
  <2>3. CASE EmitBetterByValue
    BY <2>3, BetterByValueRecords, BetterRecords
  <2> QED
    BY <2>1, <2>2, <2>3
<1>2. GoesOn(trace, values, trace', values', l, emitted, NextElement)
  BY <1>1, RecordsRecord
<1>3. \A k : /\ Recorded(k) = RecordOf(trace, values, k)
             /\ Recorded(k)' = RecordOf(trace', values', k)
  BY RecordedIs DEF Recorded, RecordOf, Position, Below, PlacesBelow, CountBelow
<1>4. cur # NoNode /\ l \in Levels /\ emitted \in Nat /\ emitted <= Len(s) /\ s \in Seq(Elements)
  <2>1. cur # NoNode
    BY <1>1 DEF Records
  <2>2. /\ l \in Levels /\ trace \in Traces /\ values \in AllValues /\ Lengths(trace, values)
        /\ Passed = emitted /\ emitted \in Nat /\ emitted <= Len(trace[l])
    BY <2>1, UnderConstruction, PassedType DEF RecordInv, CurFollows
  <2> QED
    BY <2>1, <2>2, RecordEntries
<1>5. ElementsBetter(r, s)
  <2>1. /\ r \in Seq(Elements) /\ Len(r) = emitted + 1 /\ \A i \in 1 .. emitted : r[i] = s[i]
        /\ r[emitted + 1] = NextElement
    BY <1>2 DEF GoesOn
  <2>2. emitted < Len(s) => ElementBetter(r[emitted + 1], s[emitted + 1])
    BY <2>1, RecordedIsBetter
  <2> HIDE DEF r, s
  <2> QED
    BY <1>4, <2>1, <2>2, GoesOnBetter
<1>6. ASSUME NEW j \in Levels, Recorded(j)' # Recorded(j), Recorded(j)' # <<>>
      PROVE  j = l
  <2>1. CASE j < l
    BY <1>2, <1>3, <1>4, <1>6, <2>1 DEF GoesOn, Levels
  <2>2. CASE j > l
    BY <1>2, <1>3, <1>6, <2>2 DEF GoesOn
  <2> QED
    BY <1>4, <2>1, <2>2 DEF Levels
<1>7. ASSUME NEW k \in Levels, k < l PROVE Recorded(k)' = Recorded(k)
  BY <1>2, <1>3, <1>4, <1>7 DEF GoesOn, Levels
<1>8. Recorded(l) = s /\ RecordOf(trace', values', l) = r
  BY <1>3
<1> QED
  BY <1>3, <1>5, <1>6, <1>7 DEF Improves

(* No other event of a construction changes the record.                    *)
LEMMA ConstructImproves ==
  ASSUME TreeInv, RecordInv, Construct
  PROVE  Improves \/ UNCHANGED <<trace, values>>
<1>1. CASE EmitExtending \/ EmitBetterByVisitor \/ EmitBetterByValue
  BY <1>1, EmitImproves
<1>2. CASE EmitSame \/ EmitWorseVisitor \/ EmitWorseValue \/ CreateShort
  BY <1>2 DEF EmitSame, EmitWorseVisitor, EmitWorseValue, CreateShort, Discard, coordVars
<1> QED
  BY <1>1, <1>2 DEF Construct

-----------------------------------------------------------------------------
(* What each step does to the tree, the levels and the generations.        *)

(* The generation of the record fits in a SizeType.                        *)
GenerationFits == generation < SizeTypeSize

LEMMA InitTree == TreeInit => TreeInv
<1> SUFFICES ASSUME TreeInit PROVE TreeInv
  OBVIOUS
<1> USE DEF TreeInit
<1>1. Input
  BY TreesAssumption, NoNodeAssumption, ProvidersAssumption DEF Input
<1>2. Root \in tree.nodes /\ 0 \in Levels
  BY <1>1, VisitorsAssumption DEF Input, IsTree, Levels
<1>3. ControlTypeOK
  BY <1>2 DEF ControlTypeOK
<1>4. GenerationsBounded /\ GenerationsAgree
  BY <1>1, ParentFacts DEF GenerationsBounded, GenerationsAgree, Input
<1> QED
  BY <1>1, <1>2, <1>3, <1>4 DEF TreeInv

LEMMA ConstructInput ==
  ASSUME Construct \/ CreateLive \/ (\E c : CreateBegin(c))
  PROVE  tree' = tree
<1>1. ASSUME EmitBetterByVisitor \/ EmitBetterByValue PROVE tree' = tree
  BY <1>1 DEF EmitBetterByVisitor, EmitBetterByValue, Better
<1>2. ASSUME EmitWorseVisitor \/ EmitWorseValue \/ CreateShort PROVE tree' = tree
  BY <1>2 DEF EmitWorseVisitor, EmitWorseValue, CreateShort, Discard
<1> QED
  BY <1>1, <1>2 DEF Construct, EmitExtending, EmitSame, CreateLive, CreateBegin

LEMMA EmitExtendingTree ==
  ASSUME TreeInv, EmitExtending
  PROVE  TreeInv'
<1>1. tree' = tree /\ Input'
  BY ConstructInput, SameInput DEF TreeInv, Construct
<1>2. /\ cur \in tree.nodes
      /\ Level(cur) \in Levels
      /\ cur # Root => Parent(cur) # cur
      /\ Emitting
  BY UnderConstruction, ParentFacts DEF EmitExtending, Emitting, TreeInv, Input
<1>3. NextElement[1] \in Visitors /\ NextElement[2] \in Nat
  BY <1>2, NextElementType DEF TreeInv, Input, ControlTypeOK
<1>4. UNCHANGED <<status, max_level, generation, generations, node_gen, end_index, q_max_level,
                  canon_leaf, canon_graph, extra_graph, cur>>
  BY DEF EmitExtending, leafVars
<1>5. ControlTypeOK'
  <2>1. trace' \in [Levels -> Seq(Visitors)]
    BY <1>2, <1>3 DEF EmitExtending, TreeInv, ControlTypeOK
  <2>2. value_end' \in [Visitors -> [tree.nodes -> Nat]]
    BY <1>2, <1>3, Advance DEF EmitExtending, TreeInv
  <2>3. emitted' = emitted + 1
    BY DEF EmitExtending
  <2>4. ControlTypeOK
    BY DEF TreeInv
  <2> QED
    BY <1>1, <1>4, <2>1, <2>2, <2>3, <2>4 DEF ControlTypeOK
<1>6. GenerationsBounded'
  BY <1>1, <1>4 DEF TreeInv, GenerationsBounded, IsExtending, Level
<1>7. GenerationsAgree'
  BY <1>2 DEF EmitExtending, TreeInv, GenerationsAgree, IsExtending, UpToDate, Outdated
<1> QED
  BY <1>1, <1>4, <1>5, <1>6, <1>7 DEF TreeInv

LEMMA EmitSameTree ==
  ASSUME TreeInv, EmitSame
  PROVE  TreeInv'
<1>1. tree' = tree /\ Input'
  BY ConstructInput, SameInput DEF TreeInv, Construct
<1>2. cur \in tree.nodes /\ Emitting /\ Level(cur) \in Levels
  BY UnderConstruction DEF EmitSame, SameVisitor, Emitting
<1>3. NextElement[1] \in Visitors /\ NextElement[2] \in Nat
  BY <1>2, NextElementType DEF TreeInv, Input, ControlTypeOK
<1>4. UNCHANGED <<status, trace, max_level, generation, generations, node_gen, q_max_level,
                  canon_leaf, canon_graph, extra_graph, cur>>
  BY DEF EmitSame, leafVars, coordVars
<1>5. ControlTypeOK'
  <2>1. value_end' \in [Visitors -> [tree.nodes -> Nat]]
    BY <1>2, <1>3, Advance DEF EmitSame, TreeInv
  <2>2. end_index' \in [tree.nodes -> Nat]
    <3>1. end_index \in [tree.nodes -> Nat]
      BY DEF TreeInv, ControlTypeOK
    <3>2. end_index' = [end_index EXCEPT ![cur] = end_index[cur] + 1]
      BY DEF EmitSame
    <3> QED
      BY <1>2, <3>1, <3>2
  <2>3. emitted' = emitted + 1 /\ ControlTypeOK
    BY DEF EmitSame, TreeInv
  <2> QED
    BY <1>1, <1>4, <2>1, <2>2, <2>3 DEF ControlTypeOK
<1>6. GenerationsBounded'
  BY <1>1, <1>4 DEF TreeInv, GenerationsBounded, IsExtending, Level
<1>7. end_index'[cur] <= Len(trace[Level(cur)])
  <2>1. trace[Level(cur)] \in Seq(Visitors)
    BY <1>2 DEF TreeInv, ControlTypeOK
  <2> QED
    BY <1>2, <2>1, LenNat DEF EmitSame, SameVisitor, TreeInv, ControlTypeOK
<1>8. GenerationsAgree'
  BY <1>2, <1>7 DEF EmitSame, SameVisitor, TreeInv, GenerationsAgree, IsExtending,
                    UpToDate, Outdated, coordVars
<1> QED
  BY <1>1, <1>4, <1>5, <1>6, <1>8 DEF TreeInv

(* The node under construction is better: with the coordinator at index k  *)
(* and tr as the new record of its level.                                  *)
LEMMA BetterTree ==
  ASSUME TreeInv, Emitting, ~IsExtending(cur), NEW k \in Nat, NEW tr \in Seq(Visitors),
         Better(cur, k, tr)
  PROVE  TreeInv'
<1> DEFINE v == NextElement[1]
           l == Level(cur)
<1>1. tree' = tree /\ Input'
  BY SameInput DEF TreeInv, Better
<1>2. /\ cur \in tree.nodes /\ l \in Levels /\ l >= 1 /\ cur # Root
      /\ Parent(cur) \in tree.nodes /\ Level(Parent(cur)) = l - 1 /\ Parent(cur) # cur
      /\ cur # NoNode /\ l <= max_level
  BY UnderConstruction, ParentFacts DEF Emitting, IsExtending, TreeInv, Input, ControlTypeOK, Levels
<1>3. v \in Visitors /\ NextElement[2] \in Nat
  BY <1>2, NextElementType DEF TreeInv, Input, ControlTypeOK
<1>4. l - 1 \in Levels
  BY <1>2, VisitorsAssumption DEF Levels
<1>5. ControlTypeOK
  BY DEF TreeInv
<1>6. ControlTypeOK'
  <2>1. trace' \in [Levels -> Seq(Visitors)]
    BY <1>5 DEF Better, ControlTypeOK
  <2>3. value_end' \in [Visitors -> [tree.nodes -> Nat]]
    BY <1>2, <1>3, <1>5, Advance DEF Better
  <2>4. max_level' \in Levels /\ q_max_level' \in Levels /\ generation' \in Nat
    BY <1>4, <1>5 DEF Better, ControlTypeOK
  <2>5. node_gen' \in [tree.nodes -> Nat] /\ end_index' \in [tree.nodes -> Nat]
    BY <1>2, <1>5, <2>4 DEF Better, ControlTypeOK
  <2>6. /\ emitted' = emitted + 1 /\ canon_leaf' = NoNode
        /\ UNCHANGED <<status, generations, canon_graph, extra_graph, cur>>
    BY DEF Better, PruneCanonLeaf
  <2> QED
    BY <1>1, <1>5, <2>1, <2>3, <2>4, <2>5, <2>6 DEF ControlTypeOK
<1>7. /\ generation' = generation + 1
      /\ node_gen' = [node_gen EXCEPT ![cur] = generation + 1]
      /\ max_level' = l - 1
      /\ UNCHANGED <<status, generations, cur>>
  BY DEF Better
<1>8. IsExtending(cur)'
  BY <1>2, <1>5, <1>7 DEF IsExtending, ControlTypeOK, Levels, Level
<1>9. generation \in Nat /\ node_gen \in [tree.nodes -> Nat] /\ generations \in [Levels -> Nat]
  BY <1>5 DEF ControlTypeOK
<1>10. GenerationsBounded'
  <2>1. \A t \in tree.nodes : node_gen'[t] <= generation'
    BY <1>2, <1>7, <1>9 DEF TreeInv, GenerationsBounded
  <2>2. \A i \in Levels : generations'[i] <= generation'
    BY <1>7, <1>9 DEF TreeInv, GenerationsBounded
  <2> QED
    BY <1>1, <1>8, <2>1, <2>2 DEF GenerationsBounded
<1>11. UpToDate(Parent(cur))'
  <2>1. UpToDate(Parent(cur))
    BY <1>2 DEF TreeInv, GenerationsAgree
  <2> QED
    BY <1>1, <1>2, <1>5, <1>7, <2>1 DEF UpToDate, Outdated, ControlTypeOK, Levels, Parent
<1>12. GenerationsAgree'
  <2>1. ASSUME NEW t \in tree.nodes, status[t] = "live"
        PROVE  node_gen'[t] <= generations[Level(t)]
    <3>1. t # cur
      BY <1>2, <2>1, UnderConstruction
    <3> QED
      BY <1>5, <1>7, <2>1, <3>1 DEF TreeInv, GenerationsAgree, ControlTypeOK
  <2> QED
    BY <1>1, <1>2, <1>5, <1>7, <1>8, <1>11, <2>1 DEF GenerationsAgree, Level, ControlTypeOK, Levels
<1> QED
  BY <1>1, <1>6, <1>7, <1>10, <1>12 DEF TreeInv

(* Where the coordinator is in the record of its level.                    *)
LEMMA RecordFacts ==
  ASSUME TreeInv, Emitting, ~IsExtending(cur)
  PROVE  /\ cur \in tree.nodes /\ cur # NoNode /\ cur # Root
         /\ trace[Level(cur)] \in Seq(Visitors)
         /\ end_index[cur] \in Nat
         /\ end_index[cur] <= Len(trace[Level(cur)])
         /\ NextElement[1] \in Visitors
<1>1. cur \in tree.nodes /\ cur # NoNode /\ cur # Root /\ Level(cur) \in Levels
  BY UnderConstruction DEF Emitting, IsExtending
<1>2. NextElement[1] \in Visitors
  BY <1>1, NextElementType DEF TreeInv, Input, ControlTypeOK
<1>3. end_index[cur] <= Len(trace[Level(cur)])
  BY <1>1 DEF TreeInv, GenerationsAgree
<1> QED
  BY <1>1, <1>2, <1>3 DEF TreeInv, ControlTypeOK

LEMMA EmitBetterTree ==
  ASSUME TreeInv, EmitBetterByVisitor \/ EmitBetterByValue
  PROVE  TreeInv'
<1>1. CASE EmitBetterByVisitor
  <2> DEFINE k == end_index[cur]
             tr == Append(Truncate(trace[Level(cur)], k), NextElement[1])
  <2>1. Emitting /\ ~IsExtending(cur) /\ Better(cur, k, tr)
    BY <1>1 DEF EmitBetterByVisitor
  <2>2. k \in Nat
    BY <2>1, RecordFacts
  <2>3. tr \in Seq(Visitors)
    <3>1. Truncate(trace[Level(cur)], k) \in Seq(Visitors)
      BY <2>1, RecordFacts, Truncated
    <3> QED
      BY <2>1, <3>1, RecordFacts
  <2> HIDE DEF k, tr
  <2> QED
    BY <2>1, <2>2, <2>3, BetterTree
<1>2. CASE EmitBetterByValue
  <2> DEFINE k == end_index[cur] + 1
             tr == Truncate(trace[Level(cur)], k)
  <2>1. Emitting /\ ~IsExtending(cur) /\ Better(cur, k, tr)
        /\ end_index[cur] < Len(trace[Level(cur)])
    BY <1>2 DEF EmitBetterByValue, SameVisitor
  <2>2. k \in Nat /\ k <= Len(trace[Level(cur)])
    BY <2>1, RecordFacts, LenNat
  <2>3. tr \in Seq(Visitors)
    BY <2>1, <2>2, RecordFacts, Truncated
  <2> HIDE DEF k, tr
  <2> QED
    BY <2>1, <2>2, <2>3, BetterTree
<1> QED
  BY <1>1, <1>2

(* quotient never counts more levels than there are.                       *)
LEMMA QuotientEndType ==
  ASSUME ControlTypeOK, NEW t, Level(t) \in Levels, QuotientEnd(t)
  PROVE  q_max_level' \in Levels
BY VisitorsAssumption DEF ControlTypeOK, QuotientEnd, Levels

LEMMA DiscardTree ==
  ASSUME TreeInv, cur # NoNode, cur # Root, Discard(cur), end_index' \in [tree.nodes -> Nat]
  PROVE  TreeInv'
<1>1. tree' = tree /\ Input'
  BY SameInput DEF TreeInv, Discard
<1>2. cur \in tree.nodes /\ Level(cur) \in Levels /\ NoNode \notin tree.nodes
  BY UnderConstruction DEF TreeInv, Input
<1>3. ControlTypeOK
  BY DEF TreeInv
<1>4. /\ status' = [status EXCEPT ![cur] = "pruned"]
      /\ cur' = NoNode
      /\ UNCHANGED <<trace, max_level, generation, generations, node_gen, value_end,
                     canon_leaf, canon_graph, extra_graph, emitted>>
  BY DEF Discard, coordVars, leafVars
<1>5. ControlTypeOK'
  <2>1. q_max_level' \in Levels
    BY <1>2, <1>3, QuotientEndType DEF Discard
  <2> QED
    BY <1>1, <1>2, <1>3, <1>4, <2>1 DEF ControlTypeOK
<1>6. \A t \in tree.nodes : status'[t] = "constructing" <=> t = cur'
  BY <1>2, <1>3, <1>4 DEF TreeInv, ControlTypeOK
<1>7. GenerationsBounded'
  BY <1>1, <1>4 DEF TreeInv, GenerationsBounded
<1>8. GenerationsAgree'
  BY <1>1, <1>2, <1>3, <1>4 DEF TreeInv, GenerationsAgree, ControlTypeOK
<1> QED
  BY <1>1, <1>5, <1>6, <1>7, <1>8 DEF TreeInv

LEMMA EmitWorseTree ==
  ASSUME TreeInv, EmitWorseVisitor \/ EmitWorseValue
  PROVE  TreeInv'
<1>1. Emitting /\ ~IsExtending(cur) /\ Discard(cur)
  BY DEF EmitWorseVisitor, EmitWorseValue, SameVisitor
<1>2. cur # NoNode /\ cur # Root /\ cur \in tree.nodes
  BY <1>1, RecordFacts
<1>3. end_index' \in [tree.nodes -> Nat]
  <2>1. end_index \in [tree.nodes -> Nat]
    BY DEF TreeInv, ControlTypeOK
  <2>2. \/ end_index' = end_index
        \/ end_index' = [end_index EXCEPT ![cur] = end_index[cur] + 1]
    BY DEF EmitWorseVisitor, EmitWorseValue
  <2> QED
    BY <1>2, <2>1, <2>2
<1> QED
  BY <1>1, <1>2, <1>3, DiscardTree

LEMMA CreateShortTree ==
  ASSUME TreeInv, CreateShort
  PROVE  TreeInv'
<1>1. cur # NoNode /\ cur # Root /\ Discard(cur)
  BY DEF CreateShort, Emitted, IsExtending
<1>2. end_index' \in [tree.nodes -> Nat]
  BY DEF CreateShort, TreeInv, ControlTypeOK
<1> QED
  BY <1>1, <1>2, DiscardTree

LEMMA ConstructTree ==
  ASSUME TreeInv, Construct
  PROVE  TreeInv'
BY EmitExtendingTree, EmitSameTree, EmitBetterTree, EmitWorseTree, CreateShortTree DEF Construct

(* What a step in the construction does to the node: it goes on, or is     *)
(* pruned.                                                                 *)
LEMMA ConstructStatus ==
  ASSUME TreeInv, Construct
  PROVE  /\ cur # NoNode /\ cur \in tree.nodes /\ tree' = tree
         /\ \/ UNCHANGED <<status, child_pruned, cur>>
            \/ /\ cur # Root /\ cur' = NoNode
               /\ status' = [status EXCEPT ![cur] = "pruned"]
               /\ child_pruned' = child_pruned \cup {cur}
               /\ UNCHANGED <<max_level, generation, generations, node_gen, leafVars>>
         /\ canon_leaf' \in {canon_leaf, NoNode} /\ UNCHANGED <<generations, canon_graph, extra_graph>>
<1>1. tree' = tree
  BY ConstructInput
<1>2. ASSUME EmitExtending \/ EmitSame
      PROVE  cur # NoNode /\ UNCHANGED <<status, child_pruned, cur, generations, leafVars>>
  BY <1>2 DEF EmitExtending, EmitSame, SameVisitor, Emitting, coordVars
<1>3. ASSUME EmitBetterByVisitor \/ EmitBetterByValue
      PROVE  cur # NoNode /\ canon_leaf' = NoNode
             /\ UNCHANGED <<status, child_pruned, cur, generations, canon_graph, extra_graph>>
  BY <1>3 DEF EmitBetterByVisitor, EmitBetterByValue, SameVisitor, Emitting, Better, PruneCanonLeaf
<1>4. ASSUME EmitWorseVisitor \/ EmitWorseValue \/ CreateShort
      PROVE  cur # NoNode /\ cur # Root /\ Discard(cur)
  BY <1>4 DEF EmitWorseVisitor, EmitWorseValue, CreateShort, SameVisitor, Emitting, Emitted, IsExtending
<1>5. ASSUME Discard(cur)
      PROVE  /\ cur' = NoNode
             /\ status' = [status EXCEPT ![cur] = "pruned"]
             /\ child_pruned' = child_pruned \cup {cur}
             /\ UNCHANGED <<max_level, generation, generations, node_gen, leafVars>>
  BY <1>5 DEF Discard, coordVars
<1>6. cur # NoNode => cur \in tree.nodes
  BY UnderConstruction
<1> QED
  BY <1>1, <1>2, <1>3, <1>4, <1>5, <1>6 DEF Construct, leafVars

LEMMA CreateLiveTree ==
  ASSUME TreeInv, CreateLive, GenerationFits
  PROVE  /\ TreeInv'
         /\ cur # NoNode /\ cur \in tree.nodes /\ tree' = tree /\ cur' = NoNode
         /\ status' = [status EXCEPT ![cur] = "live"]
         /\ UNCHANGED leafVars
<1>1. tree' = tree /\ Input'
  BY ConstructInput, SameInput DEF TreeInv
<1>2. cur \in tree.nodes /\ cur # NoNode /\ Level(cur) \in Levels /\ NoNode \notin tree.nodes
  BY UnderConstruction DEF TreeInv, Input, CreateLive, Emitted
<1>3. ControlTypeOK
  BY DEF TreeInv
<1>4. /\ status' = [status EXCEPT ![cur] = "live"]
      /\ cur' = NoNode
      /\ UNCHANGED <<trace, generation, node_gen, end_index, value_end,
                     canon_leaf, canon_graph, extra_graph, emitted>>
  BY DEF CreateLive, dataVars, leafVars
<1> DEFINE g == IF IsExtending(cur) THEN generation ELSE node_gen[cur]
<1>5. generations' = [generations EXCEPT ![Level(cur)] = g] /\ g \in Nat /\ g <= generation
  <2>1. g \in Nat /\ g <= generation /\ generation \in Nat
    BY <1>2, <1>3 DEF TreeInv, GenerationsBounded, ControlTypeOK
  <2>2. g < SizeTypeSize
    BY <2>1, SizeTypeAssumption DEF GenerationFits
  <2>3. generations' = [generations EXCEPT ![Level(cur)] = Narrow(g)]
    BY DEF CreateLive, LevelGeneration
  <2> QED
    BY <2>1, <2>2, <2>3 DEF Narrow
<1>6. node_gen[cur] <= g /\ generations[Level(cur)] <= g
  BY <1>2, <1>3 DEF TreeInv, GenerationsBounded, GenerationsAgree, ControlTypeOK, IsExtending
<1> HIDE DEF g
<1>7. max_level' \in Levels
  BY <1>2, <1>3 DEF CreateLive, TreeInv, GenerationsAgree, IsExtending, ControlTypeOK, Levels
<1>8. ControlTypeOK'
  <2>1. q_max_level' \in Levels
    BY <1>2, <1>3, QuotientEndType DEF CreateLive
  <2>2. generations' \in [Levels -> Nat]
    BY <1>2, <1>3, <1>5 DEF ControlTypeOK
  <2> QED
    BY <1>1, <1>2, <1>3, <1>4, <1>7, <2>1, <2>2 DEF ControlTypeOK
<1>9. \A t \in tree.nodes : status'[t] = "constructing" <=> t = cur'
  BY <1>2, <1>3, <1>4 DEF TreeInv, ControlTypeOK
<1>10. GenerationsBounded'
  BY <1>1, <1>3, <1>4, <1>5 DEF TreeInv, GenerationsBounded, ControlTypeOK
<1>11. GenerationsAgree'
  <2>1. ASSUME NEW t \in tree.nodes, status'[t] = "live"
        PROVE  node_gen[t] <= generations'[Level(t)]
    <3>1. Level(t) \in Levels
      BY ParentFacts DEF TreeInv, Input
    <3>2. CASE t = cur
      BY <1>2, <1>3, <1>5, <1>6, <3>2 DEF ControlTypeOK
    <3>3. CASE t # cur
      <4>1. node_gen[t] <= generations[Level(t)]
        BY <1>3, <1>4, <2>1, <3>3 DEF TreeInv, GenerationsAgree, ControlTypeOK
      <4>2. generations[Level(t)] <= generations'[Level(t)]
        <5>1. CASE Level(t) = Level(cur)
          BY <1>2, <1>3, <1>5, <1>6, <3>1, <5>1 DEF ControlTypeOK
        <5>2. CASE Level(t) # Level(cur)
          BY <1>2, <1>3, <1>5, <3>1, <5>2 DEF ControlTypeOK
        <5> QED
          BY <5>1, <5>2
      <4>3. /\ node_gen[t] \in Nat /\ generations[Level(t)] \in Nat
            /\ generations'[Level(t)] \in Nat
        BY <1>3, <1>5, <1>2, <3>1 DEF ControlTypeOK
      <4> QED
        BY <4>1, <4>2, <4>3
    <3> QED
      BY <3>2, <3>3
  <2> QED
    BY <1>1, <1>4, <2>1 DEF GenerationsAgree, Level
<1>12. TreeInv'
  BY <1>1, <1>8, <1>9, <1>10, <1>11 DEF TreeInv
<1> QED
  BY <1>1, <1>2, <1>4, <1>12 DEF leafVars

(* A child of an up to date node is begun.                                 *)
LEMMA CreateBeginTree ==
  ASSUME TreeInv, cur = NoNode, NEW c \in tree.nodes, c # Root, UpToDate(Parent(c)), CreateBegin(c)
  PROVE  /\ TreeInv'
         /\ c # NoNode /\ cur' = c /\ tree' = tree
         /\ status' = [status EXCEPT ![c] = "constructing"]
         /\ UNCHANGED <<child_pruned, max_level, generations, leafVars>>
<1>1. tree' = tree /\ Input'
  BY ConstructInput, SameInput DEF TreeInv
<1>2. ControlTypeOK /\ NoNode \notin tree.nodes
  BY DEF TreeInv, Input
<1>3. /\ c # NoNode /\ Level(c) \in Levels /\ Level(c) >= 1
      /\ Parent(c) \in tree.nodes /\ Parent(c) # c /\ Level(Parent(c)) = Level(c) - 1
  BY <1>2, ParentFacts DEF TreeInv, Input
<1>4. /\ cur' = c /\ emitted' = 0
      /\ status' = [status EXCEPT ![c] = "constructing"]
      /\ end_index' = [end_index EXCEPT ![c] = 0]
      /\ node_gen' = [node_gen EXCEPT ![c] = IF Level(c) > max_level
                                             THEN generation ELSE generations[Level(c)]]
      /\ UNCHANGED <<trace, max_level, generation, generations, q_max_level,
                     canon_leaf, canon_graph, extra_graph>>
  BY DEF CreateBegin, BeginGeneration, coordVars, leafVars
<1>5. Level(c) <= max_level + 1
  BY <1>2, <1>3 DEF UpToDate, Outdated, Root, Level, ControlTypeOK, Levels
<1>6. ControlTypeOK'
  <2>1. value_end' \in [Visitors -> [tree.nodes -> Nat]]
    BY <1>2, <1>3 DEF CreateBegin, BeginEnd, ControlTypeOK
  <2>2. node_gen' \in [tree.nodes -> Nat] /\ end_index' \in [tree.nodes -> Nat]
    BY <1>2, <1>3, <1>4 DEF ControlTypeOK
  <2> QED
    BY <1>1, <1>2, <1>3, <1>4, <2>1, <2>2 DEF ControlTypeOK
<1>7. \A t \in tree.nodes : status'[t] = IF t = c THEN "constructing" ELSE status[t]
  BY <1>2, <1>4 DEF ControlTypeOK
<1>8. \A t \in tree.nodes : status'[t] = "constructing" <=> t = cur'
  BY <1>2, <1>4, <1>7 DEF TreeInv
<1>9. GenerationsBounded'
  <2>1. generation \in Nat /\ node_gen \in [tree.nodes -> Nat] /\ generations \in [Levels -> Nat]
    BY <1>2 DEF ControlTypeOK
  <2>2. \A t \in tree.nodes : node_gen'[t] <= generation'
    BY <1>3, <1>4, <2>1 DEF TreeInv, GenerationsBounded
  <2>3. \A i \in Levels : generations'[i] <= generation'
    BY <1>4 DEF TreeInv, GenerationsBounded
  <2>4. ~IsExtending(c)' => node_gen'[c] = generations'[Level(c)]
    BY <1>3, <1>4, <2>1 DEF IsExtending, Level
  <2> QED
    BY <1>1, <1>4, <2>2, <2>3, <2>4 DEF GenerationsBounded
<1>10. GenerationsAgree'
  <2>1. ASSUME NEW t \in tree.nodes, status'[t] = "live"
        PROVE  node_gen'[t] <= generations'[Level(t)]
    <3>1. t # c /\ status[t] = "live"
      BY <1>7, <2>1
    <3> QED
      BY <1>2, <1>4, <3>1 DEF TreeInv, GenerationsAgree, ControlTypeOK
  <2>2. UpToDate(Parent(c))'
    BY <1>1, <1>2, <1>3, <1>4 DEF UpToDate, Outdated, ControlTypeOK, Parent, Level
  <2>3. IF IsExtending(c)'
        THEN Level(c) = max_level' + 1 /\ node_gen'[c] = generation'
        ELSE end_index'[c] <= Len(trace'[Level(c)])
    <3>1. IsExtending(c)' <=> Level(c) > max_level
      BY <1>4 DEF IsExtending, Level
    <3>2. CASE Level(c) > max_level
      <4>0. Level(c) \in 0 .. MaxDepth /\ max_level \in 0 .. MaxDepth /\ max_level' = max_level
        BY <1>2, <1>3, <1>4 DEF ControlTypeOK, Levels
      <4>1. Level(c) = max_level' + 1
        BY <1>5, <3>2, <4>0, VisitorsAssumption
      <4>2. node_gen'[c] = generation'
        BY <1>2, <1>4, <3>2 DEF ControlTypeOK
      <4> QED
        BY <3>1, <3>2, <4>1, <4>2
    <3>3. CASE ~(Level(c) > max_level)
      <4>1. end_index'[c] = 0 /\ trace'[Level(c)] \in Seq(Visitors)
        BY <1>2, <1>3, <1>4, <1>6 DEF ControlTypeOK
      <4> QED
        BY <3>1, <3>3, <4>1, LenNat
    <3> QED
      BY <3>2, <3>3
  <2> QED
    BY <1>1, <1>4, <2>1, <2>2, <2>3 DEF GenerationsAgree, Level
<1>11. TreeInv'
  BY <1>1, <1>6, <1>8, <1>9, <1>10 DEF TreeInv
<1>12. child_pruned' = child_pruned
  BY DEF CreateBegin
<1> QED
  BY <1>1, <1>3, <1>4, <1>11, <1>12 DEF leafVars

-----------------------------------------------------------------------------
(* What a traversal does with finished nodes.                              *)

(* Finished nodes may be pruned when nothing is under construction, while  *)
(* the record stays as it is.                                              *)
OnlyPrunes ==
  /\ cur = NoNode
  /\ UNCHANGED <<tree, trace, max_level, generation, generations, node_gen, end_index,
                 value_end, q_max_level, cur, emitted>>
  /\ \E S : status' = [s \in tree.nodes |->
                         IF s \in S /\ status[s] = "live" THEN "pruned" ELSE status[s]]
  /\ {canon_leaf', canon_graph', extra_graph'} \subseteq tree.nodes \cup {NoNode}

LEMMA OnlyPrunesStep ==
  ASSUME TreeInv, OnlyPrunes
  PROVE  /\ TreeInv' /\ tree' = tree /\ cur' = NoNode
         /\ \A t \in tree.nodes :
              /\ status'[t] = "live" => status[t] = "live"
              /\ status[t] # "live" => status'[t] = status[t]
              /\ status[t] \in {"live", "pruned"} <=> status'[t] \in {"live", "pruned"}
              /\ ~Outdated(t) => ~Outdated(t)'
<1>1. ControlTypeOK
  BY DEF TreeInv
<1>2. PICK S : status' = [s \in tree.nodes |->
                 IF s \in S /\ status[s] = "live" THEN "pruned" ELSE status[s]]
  BY DEF OnlyPrunes
<1>3. UNCHANGED <<tree, trace, max_level, generation, generations, node_gen, end_index,
                  value_end, q_max_level, cur, emitted>>
  BY DEF OnlyPrunes
<1>4. ControlTypeOK'
  BY <1>1, <1>2, <1>3 DEF ControlTypeOK, OnlyPrunes
<1>5. GenerationsBounded' /\ GenerationsAgree'
  BY <1>1, <1>2, <1>3 DEF TreeInv, GenerationsBounded, GenerationsAgree, OnlyPrunes
<1>6. \A t \in tree.nodes : status'[t] = "constructing" <=> t = cur'
  BY <1>1, <1>2, <1>3 DEF TreeInv, ControlTypeOK
<1>7. \A t \in tree.nodes :
        /\ status'[t] = "live" => status[t] = "live"
        /\ status[t] # "live" => status'[t] = status[t]
        /\ status[t] \in {"live", "pruned"} <=> status'[t] \in {"live", "pruned"}
        /\ ~Outdated(t) => ~Outdated(t)'
  BY <1>2, <1>3 DEF Outdated, Level
<1>8. Input' /\ cur' = NoNode
  BY <1>3, SameInput DEF TreeInv, OnlyPrunes
<1> QED
  BY <1>3, <1>4, <1>5, <1>6, <1>7, <1>8 DEF TreeInv

LEMMA PrunesThese ==
  ASSUME NEW S, cur = NoNode,
         status' = [s \in tree.nodes |->
                      IF s \in S /\ status[s] = "live" THEN "pruned" ELSE status[s]],
         UNCHANGED <<tree, trace, max_level, generation, generations, node_gen, end_index,
                     value_end, q_max_level, cur, emitted>>,
         {canon_leaf', canon_graph', extra_graph'} \subseteq tree.nodes \cup {NoNode}
  PROVE  OnlyPrunes
<1>1. \E U : status' = [s \in tree.nodes |->
                         IF s \in U /\ status[s] = "live" THEN "pruned" ELSE status[s]]
  OBVIOUS
<1> QED
  BY <1>1 DEF OnlyPrunes

LEMMA NothingPruned ==
  ASSUME TreeInv, cur = NoNode, UNCHANGED treeVars
  PROVE  OnlyPrunes
<1>0. PICK S \in SUBSET tree.nodes : S = {}
  OBVIOUS
<1>1. status' = [s \in tree.nodes |->
                   IF s \in S /\ status[s] = "live" THEN "pruned" ELSE status[s]]
  BY <1>0 DEF treeVars, TreeInv, ControlTypeOK
<1>2. {canon_leaf', canon_graph', extra_graph'} \subseteq tree.nodes \cup {NoNode}
  BY DEF treeVars, leafVars, TreeInv, ControlTypeOK
<1>3. UNCHANGED <<trace, max_level, generation, generations, node_gen, end_index,
                  value_end, q_max_level, cur, emitted>>
  BY DEF treeVars, coordVars, dataVars
<1> QED
  BY <1>1, <1>2, <1>3, PrunesThese DEF treeVars

LEMMA SubtreePruned ==
  ASSUME TreeInv, cur = NoNode, NEW t, NEW also, PruneSubtree(t, also),
         {canon_leaf', canon_graph', extra_graph'} \subseteq tree.nodes \cup {NoNode}
  PROVE  /\ OnlyPrunes
         /\ t \in tree.nodes /\ status[t] = "live" => status'[t] = "pruned"
<1> DEFINE below == {s \in tree.nodes : Above(t, s)}
<1>1. status' = [s \in tree.nodes |->
                   IF s \in below /\ status[s] = "live" THEN "pruned" ELSE status[s]]
  BY DEF PruneSubtree
<1>2. UNCHANGED <<tree, trace, max_level, generation, generations, node_gen, end_index,
                  value_end, q_max_level, cur, emitted>>
  BY DEF PruneSubtree, coordVars, dataVars
<1>3. t \in tree.nodes => t \in below
  <2>1. ASSUME t \in tree.nodes PROVE Above(t, t)
    <3>1. t \in Seq(Nat)
      BY <2>1 DEF TreeInv, Input, IsTree
    <3> QED
      BY <3>1 DEF Above
  <2> QED
    BY <2>1
<1> HIDE DEF below
<1>4. OnlyPrunes
  BY <1>1, <1>2, PrunesThese
<1>5. t \in tree.nodes /\ status[t] = "live" => status'[t] = "pruned"
  BY <1>1, <1>3
<1> QED
  BY <1>4, <1>5

LEMMA SubtreePrunedRecord ==
  ASSUME TreeInv, RecordInv, NEW t, NEW also, PruneSubtree(t, also),
         canon_leaf' \in {canon_leaf, NoNode}
  PROVE  RecordInv'
<1>1. UNCHANGED <<tree, trace, max_level, generation, generations, node_gen, end_index, values,
                  value_end, q_max_level, cur, emitted>>
  BY DEF PruneSubtree, coordVars, dataVars
<1>2. \A s \in tree.nodes : status'[s] = "live" => status[s] = "live"
  BY DEF PruneSubtree
<1>3. LeavesRecord
  BY <1>1, <1>2 DEF LeavesRecord
<1> QED
  BY <1>3, LeavesRecordStep

LEMMA SameTreeRecord ==
  ASSUME TreeInv, RecordInv, UNCHANGED treeVars
  PROVE  RecordInv'
<1>1. UNCHANGED <<tree, status, trace, max_level, generation, generations, node_gen, end_index,
                  values, value_end, q_max_level, canon_leaf, cur, emitted>>
  BY DEF treeVars, coordVars, dataVars, leafVars
<1>2. LeavesRecord
  BY <1>1 DEF LeavesRecord
<1> QED
  BY <1>2, LeavesRecordStep

LEMMA SameTree ==
  ASSUME TreeInv, UNCHANGED treeVars
  PROVE  TreeInv'
<1>1. UNCHANGED <<tree, status, trace, max_level, generation, generations, node_gen,
                  end_index, value_end, q_max_level, canon_leaf, canon_graph, extra_graph,
                  cur, emitted>>
  BY DEF treeVars, coordVars, dataVars, leafVars
<1>2. Input'
  BY <1>1, SameInput DEF TreeInv
<1>3. ControlTypeOK'
  BY <1>1 DEF TreeInv, ControlTypeOK
<1> QED
  BY <1>1, <1>2, <1>3 DEF TreeInv, GenerationsBounded, GenerationsAgree, UpToDate, Outdated,
                          IsExtending

(* A node that the traversal has come to is not outdated afterwards.       *)
LEMMA BeforeDescendTree ==
  ASSUME TreeInv, cur = NoNode, NEW t \in tree.nodes, status[t] \in {"live", "pruned"},
         BeforeDescend(t)
  PROVE  /\ OnlyPrunes
         /\ ~Outdated(t)'
         /\ RecordInv => RecordInv'
<1>1. CASE Outdated(t) /\ PruneSubtree(t, {}) /\ PruneCanonLeafBelow(t)
           /\ UNCHANGED <<canon_graph, extra_graph>>
  <2>1. canon_leaf' \in {canon_leaf, NoNode}
    BY <1>1 DEF PruneCanonLeafBelow, PruneCanonLeaf
  <2>2. {canon_leaf', canon_graph', extra_graph'} \subseteq tree.nodes \cup {NoNode}
    BY <1>1, <2>1 DEF TreeInv, ControlTypeOK
  <2>3. status[t] = "live"
    BY <1>1 DEF Outdated
  <2>4. OnlyPrunes /\ status'[t] = "pruned"
    BY <1>1, <2>2, <2>3, SubtreePruned
  <2>5. RecordInv => RecordInv'
    BY <1>1, <2>1, SubtreePrunedRecord
  <2> QED
    BY <2>4, <2>5 DEF Outdated
<1>2. CASE ~Outdated(t) /\ UNCHANGED treeVars
  <2>1. OnlyPrunes
    BY <1>2, NothingPruned
  <2> QED
    BY <1>2, <2>1, OnlyPrunesStep, SameTreeRecord
<1> QED
  BY <1>1, <1>2 DEF BeforeDescend

(* One step of the pruner.                                                 *)
LEMMA UpdateOrMergeTree ==
  ASSUME TreeInv, cur = NoNode, NEW held, Update(held) \/ Merge(held)
  PROVE  OnlyPrunes /\ (RecordInv => RecordInv')
<1>1. CASE UNCHANGED treeVars
  BY <1>1, NothingPruned, SameTreeRecord
<1>2. ASSUME NEW t, PruneSubtree(t, {t}), UNCHANGED leafVars
      PROVE  OnlyPrunes /\ (RecordInv => RecordInv')
  <2>1. {canon_leaf', canon_graph', extra_graph'} \subseteq tree.nodes \cup {NoNode}
        /\ canon_leaf' = canon_leaf
    BY <1>2 DEF leafVars, TreeInv, ControlTypeOK
  <2> QED
    BY <1>2, <2>1, SubtreePruned, SubtreePrunedRecord
<1>3. \/ UNCHANGED treeVars
      \/ \E t : PruneSubtree(t, {t}) /\ UNCHANGED leafVars
  BY DEF Update, Merge, Absorb
<1> QED
  BY <1>1, <1>2, <1>3

LEMMA ReportTree ==
  ASSUME TreeInv, cur = NoNode, NEW t \in tree.nodes, NEW held, ReportVisited(t, held)
  PROVE  /\ OnlyPrunes
         /\ canon_leaf' \in {canon_leaf, t}
         /\ RecordInv /\ IsLeaf(t) /\ UpToDate(t) => RecordInv'
<1>1. /\ canon_leaf' \in {canon_leaf, t}
      /\ {canon_leaf', canon_graph', extra_graph'} \subseteq tree.nodes \cup {NoNode}
  BY DEF ReportVisited, ReportLeaf, Reference, TreeInv, ControlTypeOK
<1>2. ASSUME AutomorphismLeaf(t, held)
      PROVE  /\ OnlyPrunes
             /\ UNCHANGED <<tree, trace, max_level, generation, generations, node_gen, end_index,
                            values, value_end, q_max_level, cur, emitted>>
             /\ \A s \in tree.nodes : status'[s] = "live" => status[s] = "live"
  <2>1. PICK a : PruneSubtree(a, {})
    BY <1>2 DEF AutomorphismLeaf
  <2>2. OnlyPrunes
    BY <1>1, <2>1, SubtreePruned
  <2>3. /\ UNCHANGED <<tree, trace, max_level, generation, generations, node_gen, end_index,
                       values, value_end, q_max_level, cur, emitted>>
        /\ \A s \in tree.nodes : status'[s] = "live" => status[s] = "live"
    BY <2>1 DEF PruneSubtree, coordVars, dataVars
  <2> QED
    BY <2>2, <2>3
<1>3. ASSUME UNCHANGED <<tree, status, child_pruned, coordVars, dataVars, values,
                         q_max_level, cur, emitted, prunerVars>>
      PROVE  /\ OnlyPrunes
             /\ UNCHANGED <<tree, trace, max_level, generation, generations, node_gen, end_index,
                            values, value_end, q_max_level, cur, emitted>>
             /\ \A s \in tree.nodes : status'[s] = "live" => status[s] = "live"
  <2>0. PICK S : S = {}
    OBVIOUS
  <2>1. status' = [s \in tree.nodes |->
                     IF s \in S /\ status[s] = "live" THEN "pruned" ELSE status[s]]
    BY <1>3, <2>0 DEF TreeInv, ControlTypeOK
  <2>2. OnlyPrunes
    BY <1>1, <1>3, <2>1, PrunesThese DEF coordVars, dataVars
  <2>3. /\ UNCHANGED <<tree, trace, max_level, generation, generations, node_gen, end_index,
                       values, value_end, q_max_level, cur, emitted>>
        /\ \A s \in tree.nodes : status'[s] = "live" => status[s] = "live"
    BY <1>3 DEF coordVars, dataVars
  <2> QED
    BY <2>2, <2>3
<1>4. /\ OnlyPrunes
      /\ UNCHANGED <<tree, trace, max_level, generation, generations, node_gen, end_index,
                     values, value_end, q_max_level, cur, emitted>>
      /\ \A s \in tree.nodes : status'[s] = "live" => status[s] = "live"
  BY <1>2, <1>3 DEF ReportVisited
<1>5. ASSUME RecordInv, IsLeaf(t), UpToDate(t) PROVE RecordInv'
  <2>1. cur # Root
    BY DEF TreeInv, Input, IsTree
  <2>2. LeavesRecord
    BY <1>1, <1>4, <1>5, <2>1 DEF LeavesRecord
  <2> QED
    BY <1>5, <2>2, LeavesRecordStep
<1> QED
  BY <1>1, <1>4, <1>5

-----------------------------------------------------------------------------
(* Numbers and sequences.                                                  *)

LEMMA LeastNatural ==
  ASSUME NEW S \in SUBSET Nat, S # {}
  PROVE  \E m \in S : \A k \in S : m <= k
<1>1. PICK R : R = {k \in Nat \X Nat : k[1] < k[2]}
  OBVIOUS
<1>2. IsWellFoundedOn(R, Nat)
  BY <1>1, NatLessThanWellFounded DEF OpToRel
<1>3. PICK m \in S : \A k \in S : ~ (<<k, m>> \in R)
  BY <1>2, WFMin
<1>4. ASSUME NEW k \in S PROVE m <= k
  <2>1. k \in Nat /\ m \in Nat /\ <<k, m>> \notin R
    BY <1>3
  <2>2. ~(k < m)
    BY <1>1, <2>1
  <2> QED
    BY <2>1, <2>2
<1> QED
  BY <1>4

LEMMA Suffix ==
  ASSUME NEW S, NEW s \in Seq(S), NEW m \in Nat
  PROVE  SubSeq(s, m + 1, Len(s)) \in Seq(S)
OBVIOUS

LEMMA Joined ==
  ASSUME NEW S, NEW s \in Seq(S), NEW t \in Seq(S)
  PROVE  s \o t \in Seq(S)
OBVIOUS

(* Each number of positions is that of those up to one of them.            *)
UpTo(P, i) == {j \in P : j <= i}

LEMMA PlaceOf ==
  ASSUME NEW n \in Nat, NEW P \in SUBSET (1 .. n), NEW k \in 1 .. Cardinality(P)
  PROVE  \E i \in P : Cardinality(UpTo(P, i)) = k
<1> DEFINE S == {i \in 0 .. n : Cardinality(UpTo(P, i)) >= k}
<1>1. IsFiniteSet(P) /\ Cardinality(P) \in Nat /\ k \in Nat /\ k >= 1
  <2>1. IsFiniteSet(1 .. n)
    BY FS_Interval
  <2>2. IsFiniteSet(P)
    BY <2>1, FS_Subset
  <2> QED
    BY <2>2, FS_CardinalityType
<1>0. \A j \in P : j \in Nat /\ 1 <= j /\ j <= n
  OBVIOUS
<1>2. \A i \in Nat : IsFiniteSet(UpTo(P, i)) /\ Cardinality(UpTo(P, i)) \in Nat
  <2>1. ASSUME NEW i \in Nat PROVE IsFiniteSet(UpTo(P, i))
    BY <1>1, FS_Subset DEF UpTo
  <2> QED
    BY <2>1, FS_CardinalityType
<1>3. n \in S
  <2>1. UpTo(P, n) = P
    BY <1>0 DEF UpTo
  <2> QED
    BY <1>1, <2>1
<1>4. PICK i \in S : \A j \in S : i <= j
  <2>1. S \in SUBSET Nat /\ S # {}
    BY <1>3
  <2> HIDE DEF S
  <2> QED
    BY <2>1, LeastNatural
<1>5. i \in 0 .. n /\ Cardinality(UpTo(P, i)) >= k
  BY <1>4
<1>6. i # 0
  <2>1. UpTo(P, 0) = {}
    <3>1. ASSUME NEW j \in P PROVE ~(j <= 0)
      BY <1>0
    <3> QED
      BY <3>1 DEF UpTo
  <2>2. Cardinality(UpTo(P, 0)) = 0
    BY <2>1, FS_EmptySet
  <2> QED
    BY <1>1, <1>5, <2>2
<1>7. i - 1 \in 0 .. n /\ ~(i <= i - 1)
  BY <1>5, <1>6
<1>8. ~(Cardinality(UpTo(P, i - 1)) >= k)
  BY <1>4, <1>7
<1>9. i \in P
  <2>1. ASSUME i \notin P PROVE UpTo(P, i) = UpTo(P, i - 1)
    <3>1. ASSUME NEW j \in P PROVE j <= i <=> j <= i - 1
      BY <1>0, <1>5, <2>1
    <3> QED
      BY <3>1 DEF UpTo
  <2> QED
    BY <1>5, <1>8, <2>1
<1>10. Cardinality(UpTo(P, i)) = Cardinality(UpTo(P, i - 1)) + 1
  <2>1. UpTo(P, i) = UpTo(P, i - 1) \cup {i} /\ i \notin UpTo(P, i - 1)
    <3>1. ASSUME NEW j \in P PROVE j <= i <=> j <= i - 1 \/ j = i
      BY <1>0, <1>5
    <3>2. ~(i <= i - 1)
      BY <1>7
    <3> QED
      BY <1>5, <1>9, <3>1, <3>2 DEF UpTo
  <2>2. IsFiniteSet(UpTo(P, i - 1))
    BY <1>2, <1>7
  <2> QED
    BY <2>1, <2>2, FS_AddElement
<1>11. Cardinality(UpTo(P, i)) = k
  <2>1. Cardinality(UpTo(P, i)) \in Nat /\ Cardinality(UpTo(P, i - 1)) \in Nat
    BY <1>2, <1>5, <1>7
  <2> QED
    BY <1>1, <1>5, <1>8, <1>10, <2>1
<1> QED
  BY <1>9, <1>11

LEMMA SelectedElements ==
  ASSUME NEW S, NEW s \in Seq(S), NEW P \in SUBSET (1 .. Len(s))
  PROVE  /\ Selected(s, P) \in Seq(S)
         /\ \A k \in 1 .. Len(Selected(s, P)) : \E i \in P : Selected(s, P)[k] = s[i]
<1>0. PICK m : m = Cardinality(P)
  OBVIOUS
<1>1. m \in Nat
  <2>1. IsFiniteSet(1 .. Len(s))
    BY FS_Interval
  <2>2. IsFiniteSet(P)
    BY <2>1, FS_Subset
  <2> QED
    BY <1>0, <2>2, FS_CardinalityType
<1> DEFINE place(k) == CHOOSE i \in P : Cardinality(UpTo(P, i)) = k
<1>2. \A k \in 1 .. m : place(k) \in P
  <2>1. Len(s) \in Nat
    OBVIOUS
  <2>2. \A k \in 1 .. m : \E i \in P : Cardinality(UpTo(P, i)) = k
    BY <1>0, <2>1, PlaceOf
  <2> QED
    BY <2>2
<1>3. Selected(s, P) = [k \in 1 .. m |-> s[place(k)]]
  BY <1>0 DEF Selected, UpTo
<1> HIDE DEF place
<1>4. \A k \in 1 .. m : s[place(k)] \in S
  <2>1. \A k \in 1 .. m : place(k) \in 1 .. Len(s)
    BY <1>2
  <2> QED
    BY <2>1, ElementOf
<1>5. Selected(s, P) \in Seq(S) /\ Len(Selected(s, P)) = m
  BY <1>1, <1>3, <1>4
<1> QED
  BY <1>2, <1>3, <1>5

-----------------------------------------------------------------------------
(* Automorphisms and the nodes they map to each other.                     *)

Symmetric == tree \in Trees

LEMMA SymmetricTree ==
  ASSUME Symmetric
  PROVE  IsTree(tree) /\ IsGroup(tree.auts) /\ HasSymmetry(tree)
         /\ \A p \in tree.auts, t \in tree.nodes : \A i \in 1 .. Len(t) : t[i] \in DOMAIN p
BY TreesAssumption, SymmetryAssumption DEF Symmetric, HasGroup

LEMMA GroupElements ==
  ASSUME Symmetric
  PROVE  /\ \E e \in tree.auts : \A t \in tree.nodes : \A i \in 1 .. Len(t) : e[t[i]] = t[i]
         /\ \A p, q \in tree.auts : \E r \in tree.auts :
              \A t \in tree.nodes : \A i \in 1 .. Len(t) : r[t[i]] = p[q[t[i]]]
         /\ \A p \in tree.auts : \E q \in tree.auts :
              \A t \in tree.nodes : \A i \in 1 .. Len(t) : q[p[t[i]]] = t[i]
<1>1. PICK V \in {DOMAIN p : p \in tree.auts} :
        /\ tree.auts \subseteq [V -> V]
        /\ \E e \in tree.auts : \A v \in V : e[v] = v
        /\ \A p, q \in tree.auts : \E r \in tree.auts : \A v \in V : r[v] = p[q[v]]
        /\ \A p \in tree.auts : \E q \in tree.auts : \A v \in V : q[p[v]] = v
  BY SymmetricTree DEF IsGroup
<1>2. \A t \in tree.nodes : \A i \in 1 .. Len(t) : t[i] \in V
  BY <1>1, SymmetricTree
<1>3. \E e \in tree.auts : \A t \in tree.nodes : \A i \in 1 .. Len(t) : e[t[i]] = t[i]
  <2>1. PICK e \in tree.auts : \A v \in V : e[v] = v
    BY <1>1
  <2> QED
    BY <1>2, <2>1
<1>4. ASSUME NEW p \in tree.auts, NEW q \in tree.auts
      PROVE  \E r \in tree.auts : \A t \in tree.nodes : \A i \in 1 .. Len(t) :
               r[t[i]] = p[q[t[i]]]
  <2>1. PICK r \in tree.auts : \A v \in V : r[v] = p[q[v]]
    BY <1>1
  <2> QED
    BY <1>2, <2>1
<1>5. ASSUME NEW p \in tree.auts
      PROVE  \E q \in tree.auts : \A t \in tree.nodes : \A i \in 1 .. Len(t) :
               q[p[t[i]]] = t[i]
  <2>1. PICK q \in tree.auts : \A v \in V : q[p[v]] = v
    BY <1>1
  <2> QED
    BY <1>2, <2>1
<1> QED
  BY <1>3, <1>4, <1>5

(* The path to the image of a node.                                        *)
LEMMA ImageFacts ==
  ASSUME Symmetric, NEW p \in tree.auts, NEW t \in tree.nodes
  PROVE  /\ Image(p, t) \in tree.nodes
         /\ Len(Image(p, t)) = Len(t) /\ Len(t) \in Nat
         /\ \A i \in 1 .. Len(t) : Image(p, t)[i] = p[t[i]]
         /\ Image(p, Root) = Root
         /\ t # Root => Image(p, t) # Root /\ Parent(Image(p, t)) = Image(p, Parent(t))
<1>1. t \in Seq(Nat) /\ Len(t) \in Nat /\ Image(p, t) \in tree.nodes
  BY SymmetricTree DEF IsTree, HasSymmetry
<1>2. Image(p, t) \in Seq(Nat)
  BY <1>1, SymmetricTree DEF IsTree
<1>3. Len(Image(p, t)) = Len(t)
  BY <1>1, <1>2 DEF Image
<1>4. \A i \in 1 .. Len(t) : Image(p, t)[i] = p[t[i]]
  BY DEF Image
<1>5. Image(p, Root) = Root
  BY DEF Image, Root
<1>6. ASSUME t # Root PROVE Image(p, t) # Root /\ Parent(Image(p, t)) = Image(p, Parent(t))
  <2>1. Len(t) >= 1 /\ Len(t) - 1 \in 0 .. Len(t) /\ Len(t) - 1 \in Nat
        /\ Len(t) - 1 <= Len(t)
    BY <1>1, <1>6 DEF Root
  <2>2. Parent(t) \in Seq(Nat) /\ Len(Parent(t)) = Len(t) - 1
    BY <1>1, <2>1, Prefix DEF Parent
  <2>3. Parent(Image(p, t)) \in Seq(Nat) /\ Len(Parent(Image(p, t))) = Len(t) - 1
    BY <1>2, <1>3, <2>1, Prefix DEF Parent
  <2>4. Parent(t) \in tree.nodes
    BY <1>6, SymmetricTree, ParentFacts
  <2>5. Image(p, Parent(t)) \in Seq(Nat) /\ Len(Image(p, Parent(t))) = Len(t) - 1
    <3>1. Image(p, Parent(t)) \in tree.nodes
      BY <2>4, SymmetricTree DEF HasSymmetry
    <3>2. Image(p, Parent(t)) \in Seq(Nat)
      BY <3>1, SymmetricTree DEF IsTree
    <3> QED
      BY <2>2, <3>2 DEF Image
  <2>6. ASSUME NEW i \in 1 .. Len(t) - 1
        PROVE  Parent(Image(p, t))[i] = Image(p, Parent(t))[i]
    <3>1. i \in 1 .. Len(t)
      BY <1>1
    <3>2. Parent(t)[i] = t[i]
      BY <1>1, <2>1, PrefixElements DEF Parent
    <3>3. Parent(Image(p, t))[i] = Image(p, t)[i]
      BY <1>2, <1>3, <2>1, PrefixElements DEF Parent
    <3>4. Image(p, Parent(t))[i] = p[Parent(t)[i]]
      BY <2>2 DEF Image
    <3> QED
      BY <1>4, <3>1, <3>2, <3>3, <3>4
  <2>7. Parent(Image(p, t)) = Image(p, Parent(t))
    BY <2>3, <2>5, <2>6, EqualSequences
  <2> QED
    BY <1>3, <2>1, <2>7 DEF Root
<1> QED
  BY <1>1, <1>3, <1>4, <1>5, <1>6

LEMMA SameImage ==
  ASSUME Symmetric, NEW s \in tree.nodes, NEW t \in tree.nodes, Len(s) = Len(t),
         \A i \in 1 .. Len(t) : s[i] = t[i]
  PROVE  s = t
<1>1. s \in Seq(Nat) /\ t \in Seq(Nat)
  BY SymmetricTree DEF IsTree
<1> QED
  BY <1>1, EqualSequences

(* Siblings with subtrees that look the same.                              *)
SameBelow(c, d) == \E p \in tree.auts : Image(p, Parent(c)) = Parent(c) /\ Image(p, c) = d
Siblings(c, d) == c \in tree.nodes \ {Root} /\ d \in tree.nodes \ {Root} /\ Parent(c) = Parent(d)

LEMMA SameBelowSiblings ==
  ASSUME Symmetric, NEW c \in tree.nodes \ {Root}, NEW d, SameBelow(c, d)
  PROVE  Siblings(c, d)
<1>1. PICK p \in tree.auts : Image(p, Parent(c)) = Parent(c) /\ Image(p, c) = d
  BY DEF SameBelow
<1> QED
  BY <1>1, ImageFacts DEF Siblings

LEMMA SameBelowSelf ==
  ASSUME Symmetric, NEW c \in tree.nodes \ {Root}
  PROVE  SameBelow(c, c)
<1>1. PICK e \in tree.auts : \A t \in tree.nodes : \A i \in 1 .. Len(t) : e[t[i]] = t[i]
  BY GroupElements
<1>2. ASSUME NEW t \in tree.nodes PROVE Image(e, t) = t
  <2>1. /\ Image(e, t) \in tree.nodes /\ Len(Image(e, t)) = Len(t)
        /\ \A i \in 1 .. Len(t) : Image(e, t)[i] = e[t[i]]
    BY ImageFacts
  <2> QED
    BY <1>1, <2>1, SameImage
<1>3. Parent(c) \in tree.nodes
  BY ParentFacts, SymmetricTree
<1> QED
  BY <1>2, <1>3 DEF SameBelow

LEMMA SameBelowBack ==
  ASSUME Symmetric, NEW c \in tree.nodes \ {Root}, NEW d, SameBelow(c, d)
  PROVE  SameBelow(d, c)
<1>1. PICK p \in tree.auts : Image(p, Parent(c)) = Parent(c) /\ Image(p, c) = d
  BY DEF SameBelow
<1>2. PICK q \in tree.auts : \A t \in tree.nodes : \A i \in 1 .. Len(t) : q[p[t[i]]] = t[i]
  BY GroupElements
<1>3. ASSUME NEW t \in tree.nodes PROVE Image(q, Image(p, t)) = t
  <2>1. /\ Image(p, t) \in tree.nodes /\ Len(Image(p, t)) = Len(t)
        /\ \A i \in 1 .. Len(t) : Image(p, t)[i] = p[t[i]]
    BY ImageFacts
  <2>2. /\ Image(q, Image(p, t)) \in tree.nodes /\ Len(Image(q, Image(p, t))) = Len(t)
        /\ \A i \in 1 .. Len(t) : Image(q, Image(p, t))[i] = q[Image(p, t)[i]]
    BY <2>1, ImageFacts
  <2> QED
    BY <1>2, <2>1, <2>2, SameImage
<1>4. Parent(c) \in tree.nodes /\ Parent(d) = Parent(c)
  BY SameBelowSiblings, ParentFacts, SymmetricTree DEF Siblings
<1> QED
  BY <1>1, <1>3, <1>4 DEF SameBelow

LEMMA SameBelowOn ==
  ASSUME Symmetric, NEW c \in tree.nodes \ {Root}, NEW d, NEW e, SameBelow(c, d), SameBelow(d, e)
  PROVE  SameBelow(c, e)
<1>0. d \in tree.nodes \ {Root} /\ Parent(d) = Parent(c) /\ Parent(c) \in tree.nodes
  BY SameBelowSiblings, ParentFacts, SymmetricTree DEF Siblings
<1>1. PICK q \in tree.auts : Image(q, Parent(c)) = Parent(c) /\ Image(q, c) = d
  BY DEF SameBelow
<1>2. PICK p \in tree.auts : Image(p, Parent(c)) = Parent(c) /\ Image(p, d) = e
  BY <1>0 DEF SameBelow
<1>3. PICK r \in tree.auts : \A t \in tree.nodes : \A i \in 1 .. Len(t) : r[t[i]] = p[q[t[i]]]
  BY GroupElements
<1>4. ASSUME NEW t \in tree.nodes PROVE Image(r, t) = Image(p, Image(q, t))
  <2>1. /\ Image(q, t) \in tree.nodes /\ Len(Image(q, t)) = Len(t)
        /\ \A i \in 1 .. Len(t) : Image(q, t)[i] = q[t[i]]
    BY ImageFacts
  <2>2. /\ Image(p, Image(q, t)) \in tree.nodes /\ Len(Image(p, Image(q, t))) = Len(t)
        /\ \A i \in 1 .. Len(t) : Image(p, Image(q, t))[i] = p[Image(q, t)[i]]
    BY <2>1, ImageFacts
  <2>3. /\ Image(r, t) \in tree.nodes /\ Len(Image(r, t)) = Len(t)
        /\ \A i \in 1 .. Len(t) : Image(r, t)[i] = r[t[i]]
    BY ImageFacts
  <2> QED
    BY <1>3, <2>1, <2>2, <2>3, SameImage
<1> QED
  BY <1>0, <1>1, <1>2, <1>4 DEF SameBelow

-----------------------------------------------------------------------------
(* The nodes on the way up from t.                                         *)
UpPath(t, n) == [i \in 1 .. n |-> Ancestor(t, Len(t) + 1 - i)]

LEMMA PathLength ==
  ASSUME IsTree(tree), NEW t \in tree.nodes
  PROVE  t \in Seq(Nat) /\ Len(t) \in Nat /\ Level(t) = Len(t) /\ Level(t) \in Levels
BY ParentFacts DEF IsTree, Level

LEMMA UpPathFacts ==
  ASSUME IsTree(tree), NEW t \in tree.nodes, NEW n \in 0 .. Len(t) + 1
  PROVE  /\ UpPath(t, n) \in Seq(tree.nodes) /\ Len(UpPath(t, n)) = n
         /\ \A i \in 1 .. n : /\ UpPath(t, n)[i] = Ancestor(t, Len(t) + 1 - i)
                              /\ UpPath(t, n)[i] \in tree.nodes
         /\ n = 0 <=> UpPath(t, n) = <<>>
         /\ n > 0 => /\ Last(UpPath(t, n)) = Ancestor(t, Len(t) + 1 - n)
                     /\ Front(UpPath(t, n)) = UpPath(t, n - 1)
<1>1. t \in Seq(Nat) /\ Len(t) \in Nat /\ n \in Nat
  BY PathLength
<1>2. \A i \in 1 .. Len(t) + 1 : Ancestor(t, Len(t) + 1 - i) \in tree.nodes
  <2>1. \A i \in 1 .. Len(t) + 1 : Len(t) + 1 - i \in 0 .. Len(t)
    BY <1>1
  <2> QED
    BY <2>1 DEF IsTree
<1>3. ASSUME NEW m \in 0 .. Len(t) + 1
      PROVE  /\ UpPath(t, m) \in Seq(tree.nodes) /\ Len(UpPath(t, m)) = m
             /\ \A i \in 1 .. m : UpPath(t, m)[i] = Ancestor(t, Len(t) + 1 - i)
  <2>1. \A i \in 1 .. m : Ancestor(t, Len(t) + 1 - i) \in tree.nodes
    BY <1>1, <1>2
  <2> QED
    BY <1>1, <2>1 DEF UpPath
<1>4. UpPath(t, n) \in Seq(tree.nodes) /\ Len(UpPath(t, n)) = n
      /\ \A i \in 1 .. n : UpPath(t, n)[i] = Ancestor(t, Len(t) + 1 - i)
  BY <1>3
<1>5. \A i \in 1 .. n : UpPath(t, n)[i] \in tree.nodes
  BY <1>4, ElementOf
<1>6. n = 0 <=> UpPath(t, n) = <<>>
  BY <1>1, <1>4
<1>7. ASSUME n > 0
      PROVE  /\ Last(UpPath(t, n)) = Ancestor(t, Len(t) + 1 - n)
             /\ Front(UpPath(t, n)) = UpPath(t, n - 1)
  <2>1. n \in 1 .. n /\ n - 1 \in 0 .. Len(t) + 1 /\ n - 1 \in 0 .. n
        /\ n - 1 \in Nat /\ n - 1 <= n
    BY <1>1, <1>7
  <2>2. Last(UpPath(t, n)) = Ancestor(t, Len(t) + 1 - n)
    BY <1>4, <2>1 DEF Last
  <2>3. /\ UpPath(t, n - 1) \in Seq(tree.nodes) /\ Len(UpPath(t, n - 1)) = n - 1
        /\ \A i \in 1 .. n - 1 : UpPath(t, n - 1)[i] = Ancestor(t, Len(t) + 1 - i)
    BY <1>3, <2>1
  <2>4. Front(UpPath(t, n)) = SubSeq(UpPath(t, n), 1, n - 1)
    BY <1>4 DEF Front
  <2>5. SubSeq(UpPath(t, n), 1, n - 1) \in Seq(tree.nodes)
        /\ Len(SubSeq(UpPath(t, n), 1, n - 1)) = n - 1
    BY <1>4, <2>1, Prefix
  <2>6. ASSUME NEW i \in 1 .. n - 1
        PROVE  SubSeq(UpPath(t, n), 1, n - 1)[i] = UpPath(t, n - 1)[i]
    <3>1. SubSeq(UpPath(t, n), 1, n - 1)[i] = UpPath(t, n)[i]
      BY <1>4, <2>1, PrefixElements
    <3>2. i \in 1 .. n
      BY <1>1
    <3> QED
      BY <1>4, <2>3, <3>1, <3>2
  <2>7. SubSeq(UpPath(t, n), 1, n - 1) = UpPath(t, n - 1)
    BY <2>3, <2>5, <2>6, EqualSequences
  <2> QED
    BY <2>2, <2>4, <2>7
<1> QED
  BY <1>4, <1>5, <1>6, <1>7

(* Up to where a node and its ancestors have to be updated.                *)
LEMMA NeedPathIs ==
  ASSUME IsTree(tree), NEW t \in tree.nodes
  PROVE  \E n \in 0 .. Len(t) + 1 :
           /\ NeedPath(t) = UpPath(t, n)
           /\ \A i \in 1 .. n : NeedUpdate(Ancestor(t, Len(t) + 1 - i))
           /\ n < Len(t) + 1 => ~NeedUpdate(Ancestor(t, Len(t) - n))
<1> DEFINE up == UpPath(t, Len(t) + 1)
           stops(n) == /\ \A i \in 1 .. n : NeedUpdate(up[i])
                       /\ n < Len(up) => ~NeedUpdate(up[n + 1])
<1>1. t \in Seq(Nat) /\ Len(t) \in Nat /\ Len(t) + 1 \in 0 .. Len(t) + 1
  BY PathLength
<1>2. /\ up \in Seq(tree.nodes) /\ Len(up) = Len(t) + 1
      /\ \A i \in 1 .. Len(t) + 1 : up[i] = Ancestor(t, Len(t) + 1 - i)
  BY <1>1, UpPathFacts
<1> DEFINE n0 == CHOOSE n \in 0 .. Len(up) : stops(n)
<1>3. NeedPath(t) = SubSeq(up, 1, n0)
  BY DEF NeedPath, UpPath
<1>4. \E n \in 0 .. Len(up) : stops(n)
  <2> DEFINE S == {i \in 1 .. Len(t) + 1 : ~NeedUpdate(up[i])}
  <2>1. CASE S = {}
    <3>1. stops(Len(t) + 1)
      BY <1>1, <1>2, <2>1
    <3> QED
      BY <1>1, <1>2, <3>1
  <2>2. CASE S # {}
    <3>1. PICK m \in S : \A k \in S : m <= k
      <4>1. S \in SUBSET Nat
        BY <1>1
      <4> HIDE DEF S
      <4> QED
        BY <2>2, <4>1, LeastNatural
    <3>2. m \in 1 .. Len(t) + 1 /\ ~NeedUpdate(up[m])
      BY <3>1
    <3>3. ASSUME NEW i \in 1 .. m - 1 PROVE NeedUpdate(up[i])
      <4>1. i \in 1 .. Len(t) + 1 /\ ~(m <= i)
        BY <1>1, <3>2
      <4> QED
        BY <3>1, <4>1
    <3>4. m - 1 \in 0 .. Len(t) + 1 /\ (m - 1) + 1 = m
      BY <1>1, <3>2
    <3>5. stops(m - 1)
      BY <3>2, <3>3, <3>4
    <3> HIDE DEF stops, up
    <3> QED
      BY <1>2, <3>4, <3>5
  <2> QED
    BY <2>1, <2>2
<1>5. n0 \in 0 .. Len(up) /\ stops(n0)
  <2> HIDE DEF stops, up
  <2> QED
    BY <1>4
<1> HIDE DEF n0, up
<1>6. n0 \in 0 .. Len(t) + 1
  BY <1>2, <1>5
<1>7. SubSeq(up, 1, n0) = UpPath(t, n0)
  <2>1. UpPath(t, n0) \in Seq(tree.nodes) /\ Len(UpPath(t, n0)) = n0
        /\ \A i \in 1 .. n0 : UpPath(t, n0)[i] = Ancestor(t, Len(t) + 1 - i)
    BY <1>6, UpPathFacts
  <2>2. n0 \in Nat /\ n0 <= Len(up) /\ n0 \in 0 .. Len(up)
    BY <1>1, <1>2, <1>6
  <2>3. SubSeq(up, 1, n0) \in Seq(tree.nodes) /\ Len(SubSeq(up, 1, n0)) = n0
    BY <1>2, <2>2, Prefix
  <2>4. ASSUME NEW i \in 1 .. n0 PROVE SubSeq(up, 1, n0)[i] = UpPath(t, n0)[i]
    <3>1. SubSeq(up, 1, n0)[i] = up[i]
      BY <1>2, <2>2, PrefixElements
    <3>2. i \in 1 .. Len(t) + 1
      BY <1>1, <1>6
    <3> QED
      BY <1>2, <2>1, <3>1, <3>2
  <2> QED
    BY <2>1, <2>3, <2>4, EqualSequences
<1>8. ASSUME NEW i \in 1 .. n0 PROVE NeedUpdate(Ancestor(t, Len(t) + 1 - i))
  <2>1. i \in 1 .. Len(t) + 1
    BY <1>1, <1>6
  <2>2. NeedUpdate(up[i])
    BY <1>5
  <2> QED
    BY <1>2, <2>1, <2>2
<1>9. ASSUME n0 < Len(t) + 1 PROVE ~NeedUpdate(Ancestor(t, Len(t) - n0))
  <2>1. n0 + 1 \in 1 .. Len(t) + 1 /\ Len(t) + 1 - (n0 + 1) = Len(t) - n0
    BY <1>1, <1>6, <1>9
  <2>2. ~NeedUpdate(up[n0 + 1])
    BY <1>2, <1>5, <1>9
  <2> QED
    BY <1>2, <2>1, <2>2
<1> QED
  BY <1>3, <1>6, <1>7, <1>8, <1>9

LEMMA AboveFacts ==
  ASSUME IsTree(tree), NEW a \in tree.nodes, NEW t \in tree.nodes
  PROVE  /\ Above(a, t) <=> Len(a) <= Len(t) /\ a = Ancestor(t, Len(a))
         /\ Len(a) \in Nat /\ Len(t) \in Nat
BY PathLength DEF Above, Ancestor

LEMMA AncestorOfAncestor ==
  ASSUME IsTree(tree), NEW t \in tree.nodes, NEW k \in 0 .. Len(t), NEW j \in 0 .. k
  PROVE  Ancestor(Ancestor(t, k), j) = Ancestor(t, j)
BY PathLength, PrefixOfPrefix DEF Ancestor

LEMMA ChildrenAreNodes ==
  ASSUME IsTree(tree), NEW t \in tree.nodes, NEW c \in Children(t)
  PROVE  c \in tree.nodes \ {Root} /\ Parent(c) = t /\ Level(c) = Level(t) + 1
         /\ Last(c) = c[Len(c)] /\ Last(c) \in Nat
<1>1. c \in tree.nodes \ {Root} /\ Parent(c) = t
  BY DEF Children, IsTree
<1>2. Level(t) = Level(c) - 1 /\ Level(c) >= 1 /\ Level(c) \in Nat /\ Level(c) = Len(c)
      /\ c \in Seq(Nat)
  BY <1>1, ParentFacts, PathLength DEF Levels
<1>3. c[Len(c)] \in Nat
  BY <1>2, ElementOf
<1> QED
  BY <1>1, <1>2, <1>3 DEF Last

-----------------------------------------------------------------------------
(* How leaves compare.                                                     *)

(* The first difference decides, position by position.                     *)
DecidedAt(r, s, i) ==
  /\ i \in 1 .. Len(r) /\ i <= Len(s) + 1
  /\ \A j \in 1 .. i - 1 : r[j] = s[j]
  /\ i <= Len(s) => ElementBetter(r[i], s[i])

LEMMA DecidedSomewhere ==
  ASSUME NEW r \in Seq(Elements), NEW s \in Seq(Elements)
  PROVE  ElementsBetter(r, s) <=> \E i \in Nat : DecidedAt(r, s, i)
<1>1. ASSUME NEW i \in 1 .. Len(r), i <= Len(s) + 1
      PROVE  SubSeq(r, 1, i - 1) = SubSeq(s, 1, i - 1) <=> \A j \in 1 .. i - 1 : r[j] = s[j]
  <2>1. Len(r) \in Nat /\ Len(s) \in Nat /\ i \in Nat /\ i - 1 \in Nat
        /\ i - 1 \in 0 .. Len(r) /\ i - 1 \in 0 .. Len(s)
    BY <1>1
  <2>2. /\ SubSeq(r, 1, i - 1) \in Seq(Elements) /\ Len(SubSeq(r, 1, i - 1)) = i - 1
        /\ SubSeq(s, 1, i - 1) \in Seq(Elements) /\ Len(SubSeq(s, 1, i - 1)) = i - 1
    BY <2>1, Prefix
  <2>3. \A j \in 1 .. i - 1 : SubSeq(r, 1, i - 1)[j] = r[j] /\ SubSeq(s, 1, i - 1)[j] = s[j]
    BY <2>1, PrefixElements
  <2>4. ASSUME \A j \in 1 .. i - 1 : r[j] = s[j] PROVE SubSeq(r, 1, i - 1) = SubSeq(s, 1, i - 1)
    BY <2>2, <2>3, <2>4, EqualSequences
  <2> QED
    BY <2>3, <2>4
<1>2. Len(r) \in Nat /\ \A i \in 1 .. Len(r) : i \in Nat
  BY LenNat
<1> QED
  BY <1>1, <1>2 DEF ElementsBetter, DecidedAt

LEMMA ElementsCompare ==
  ASSUME NEW a \in Elements, NEW b \in Elements, NEW c \in Elements
  PROVE  /\ ElementBetter(a, b) => ~ElementBetter(b, a)
         /\ ElementBetter(a, b) /\ ElementBetter(b, c) => ElementBetter(a, c)
<1>1. a[1] \in Nat /\ b[1] \in Nat /\ c[1] \in Nat /\ a[2] \in Nat /\ b[2] \in Nat /\ c[2] \in Nat
  BY VisitorsAssumption DEF Elements
<1> QED
  BY <1>1 DEF ElementBetter

LEMMA LevelsCompare ==
  ASSUME NEW r \in Seq(Elements), NEW s \in Seq(Elements), NEW t \in Seq(Elements)
  PROVE  /\ ElementsBetter(r, s) => ~ElementsBetter(s, r)
         /\ ElementsBetter(r, s) /\ ElementsBetter(s, t) => ElementsBetter(r, t)
<1>0. Len(r) \in Nat /\ Len(s) \in Nat /\ Len(t) \in Nat
      /\ (\A i \in 1 .. Len(r) : r[i] \in Elements)
      /\ (\A i \in 1 .. Len(s) : s[i] \in Elements)
      /\ (\A i \in 1 .. Len(t) : t[i] \in Elements)
  BY LenNat, ElementOf
<1>1. ASSUME ElementsBetter(r, s), ElementsBetter(s, r) PROVE FALSE
  <2>1. PICK i \in Nat : DecidedAt(r, s, i)
    BY <1>1, DecidedSomewhere
  <2>2. PICK j \in Nat : DecidedAt(s, r, j)
    BY <1>1, DecidedSomewhere
  <2>3. CASE i = j
    <3>1. i \in 1 .. Len(r) /\ i \in 1 .. Len(s)
      BY <2>1, <2>2, <2>3 DEF DecidedAt
    <3>2. ElementBetter(r[i], s[i]) /\ ElementBetter(s[i], r[i])
      BY <1>0, <2>1, <2>2, <2>3, <3>1 DEF DecidedAt
    <3> QED
      BY <1>0, <3>1, <3>2, ElementsCompare
  <2>4. CASE i < j
    <3>1. i \in 1 .. Len(r) /\ i \in 1 .. Len(s) /\ i \in 1 .. j - 1
      BY <1>0, <2>1, <2>2, <2>4 DEF DecidedAt
    <3>2. s[i] = r[i] /\ ElementBetter(r[i], s[i])
      BY <1>0, <2>1, <2>2, <3>1 DEF DecidedAt
    <3> QED
      BY <1>0, <3>1, <3>2, ElementsCompare
  <2>5. CASE j < i
    <3>1. j \in 1 .. Len(r) /\ j \in 1 .. Len(s) /\ j \in 1 .. i - 1
      BY <1>0, <2>1, <2>2, <2>5 DEF DecidedAt
    <3>2. s[j] = r[j] /\ ElementBetter(s[j], r[j])
      BY <1>0, <2>1, <2>2, <3>1 DEF DecidedAt
    <3> QED
      BY <1>0, <3>1, <3>2, ElementsCompare
  <2> QED
    BY <2>3, <2>4, <2>5
<1>2. ASSUME ElementsBetter(r, s), ElementsBetter(s, t) PROVE ElementsBetter(r, t)
  <2>1. PICK i \in Nat : DecidedAt(r, s, i)
    BY <1>2, DecidedSomewhere
  <2>2. PICK j \in Nat : DecidedAt(s, t, j)
    BY <1>2, DecidedSomewhere
  <2>3. CASE i = j
    <3>1. i \in 1 .. Len(r) /\ i \in 1 .. Len(s) /\ i <= Len(t) + 1
          /\ \A k \in 1 .. i - 1 : r[k] = t[k]
      BY <2>1, <2>2, <2>3 DEF DecidedAt
    <3>2. i <= Len(t) => ElementBetter(r[i], s[i]) /\ ElementBetter(s[i], t[i])
      BY <1>0, <2>1, <2>2, <2>3, <3>1 DEF DecidedAt
    <3>3. i <= Len(t) => i \in 1 .. Len(t)
      BY <1>0, <3>1
    <3>4. i <= Len(t) => ElementBetter(r[i], t[i])
      BY <1>0, <3>1, <3>2, <3>3, ElementsCompare
    <3>5. DecidedAt(r, t, i)
      BY <3>1, <3>4 DEF DecidedAt
    <3> QED
      BY <3>5, DecidedSomewhere
  <2>4. CASE i < j
    <3>1. i \in 1 .. Len(r) /\ i \in 1 .. j - 1 /\ i <= Len(t) + 1 /\ i <= Len(s)
      BY <1>0, <2>1, <2>2, <2>4 DEF DecidedAt
    <3>2. s[i] = t[i] /\ ElementBetter(r[i], s[i])
      BY <1>0, <2>1, <2>2, <3>1 DEF DecidedAt
    <3>3. \A k \in 1 .. i - 1 : k \in 1 .. j - 1
      BY <1>0, <3>1
    <3>4. \A k \in 1 .. i - 1 : r[k] = t[k]
      BY <2>1, <2>2, <3>3 DEF DecidedAt
    <3>5. DecidedAt(r, t, i)
      BY <3>1, <3>2, <3>4 DEF DecidedAt
    <3> QED
      BY <3>5, DecidedSomewhere
  <2>5. CASE j < i
    <3>1. j \in 1 .. Len(s) /\ j \in 1 .. i - 1 /\ j \in 1 .. Len(r) /\ j <= Len(t) + 1
      BY <1>0, <2>1, <2>2, <2>5 DEF DecidedAt
    <3>2. r[j] = s[j] /\ (j <= Len(t) => ElementBetter(s[j], t[j]))
      BY <2>1, <2>2, <3>1 DEF DecidedAt
    <3>3. \A k \in 1 .. j - 1 : k \in 1 .. i - 1
      BY <1>0, <3>1
    <3>4. \A k \in 1 .. j - 1 : r[k] = t[k]
      BY <2>1, <2>2, <3>3 DEF DecidedAt
    <3>5. DecidedAt(r, t, j)
      BY <3>1, <3>2, <3>4 DEF DecidedAt
    <3> QED
      BY <3>5, DecidedSomewhere
  <2> QED
    BY <2>3, <2>4, <2>5
<1> QED
  BY <1>1, <1>2

(* m is as good as l: by the first difference of their paths, or by the    *)
(* permuted graphs if there is none.                                       *)
AsGood(m, l) ==
  \/ TraceBetter(tree, m, l)
  \/ Len(m) = Len(l) /\ SamePath(tree, m, l, Len(m)) /\ tree.cert[m] <= tree.cert[l]

BetterAt(s, t, l) ==
  /\ l \in 1 .. Len(s) /\ l \in 1 .. Len(t)
  /\ \A k \in 1 .. l - 1 : PathElements(tree, s, k) = PathElements(tree, t, k)
  /\ ElementsBetter(PathElements(tree, s, l), PathElements(tree, t, l))

LEMMA PathElementsType ==
  ASSUME IsTree(tree), NEW t \in tree.nodes
  PROVE  /\ Len(t) \in Nat /\ tree.cert[t] \in Nat
         /\ \A l \in 0 .. Len(t) : PathElements(tree, t, l) \in Seq(Elements)
         /\ \A l \in 1 .. Len(t) : l \in Nat /\ l \in 0 .. Len(t)
<1>1. Len(t) \in Nat /\ tree.cert[t] \in Nat
  BY PathLength DEF IsTree
<1>2. \A l \in 0 .. Len(t) : Ancestor(t, l) \in tree.nodes
  BY DEF IsTree
<1>3. \A l \in 0 .. Len(t) : tree.elems[Ancestor(t, l)] \in Seq(Elements)
  BY <1>2 DEF IsTree
<1> QED
  BY <1>1, <1>3 DEF PathElements

LEMMA BetterSomewhere ==
  ASSUME IsTree(tree), NEW s \in tree.nodes, NEW t \in tree.nodes
  PROVE  TraceBetter(tree, s, t) <=> \E l \in Nat : BetterAt(s, t, l)
<1>1. Len(s) \in Nat /\ Len(t) \in Nat
  BY PathElementsType
<1> QED
  BY <1>1 DEF TraceBetter, BetterAt, SamePath, Level

LEMMA TraceBetterOneWay ==
  ASSUME IsTree(tree), NEW s \in tree.nodes, NEW t \in tree.nodes, TraceBetter(tree, s, t)
  PROVE  ~TraceBetter(tree, t, s) /\ ~(Len(s) = Len(t) /\ SamePath(tree, t, s, Len(s)))
<1>1. /\ Len(s) \in Nat /\ Len(t) \in Nat
      /\ \A l \in 1 .. Len(s) : PathElements(tree, s, l) \in Seq(Elements)
      /\ \A l \in 1 .. Len(t) : PathElements(tree, t, l) \in Seq(Elements)
  BY PathElementsType
<1>2. PICK i \in Nat : BetterAt(s, t, i)
  BY BetterSomewhere
<1>3. i \in 1 .. Len(s) /\ i \in 1 .. Len(t)
      /\ ElementsBetter(PathElements(tree, s, i), PathElements(tree, t, i))
  BY <1>2 DEF BetterAt
<1>4. ~ElementsBetter(PathElements(tree, t, i), PathElements(tree, s, i))
  BY <1>1, <1>3, LevelsCompare
<1>5. PathElements(tree, s, i) # PathElements(tree, t, i)
  BY <1>3, <1>4
<1>6. ASSUME TraceBetter(tree, t, s) PROVE FALSE
  <2>1. PICK j \in Nat : BetterAt(t, s, j)
    BY <1>6, BetterSomewhere
  <2>2. j \in 1 .. Len(s) /\ j \in 1 .. Len(t)
        /\ ElementsBetter(PathElements(tree, t, j), PathElements(tree, s, j))
    BY <2>1 DEF BetterAt
  <2>3. PathElements(tree, s, j) # PathElements(tree, t, j)
    <3>1. ~ElementsBetter(PathElements(tree, s, j), PathElements(tree, t, j))
      BY <1>1, <2>2, LevelsCompare
    <3> QED
      BY <2>2, <3>1
  <2>4. CASE i = j
    BY <1>4, <2>2, <2>4
  <2>5. CASE i < j
    <3>1. i \in 1 .. j - 1
      BY <1>3, <2>5
    <3> QED
      BY <1>5, <2>1, <3>1 DEF BetterAt
  <2>6. CASE j < i
    <3>1. j \in 1 .. i - 1
      BY <2>2, <2>6
    <3> QED
      BY <1>2, <2>3, <3>1 DEF BetterAt
  <2> QED
    BY <2>4, <2>5, <2>6
<1>7. ~(Len(s) = Len(t) /\ SamePath(tree, t, s, Len(s)))
  BY <1>3, <1>5 DEF SamePath
<1> QED
  BY <1>6, <1>7

LEMMA TraceBetterOn ==
  ASSUME IsTree(tree), NEW s \in tree.nodes, NEW t \in tree.nodes, NEW u \in tree.nodes,
         TraceBetter(tree, s, t), TraceBetter(tree, t, u)
  PROVE  TraceBetter(tree, s, u)
<1>1. /\ Len(s) \in Nat /\ Len(t) \in Nat /\ Len(u) \in Nat
      /\ \A l \in 1 .. Len(s) : PathElements(tree, s, l) \in Seq(Elements)
      /\ \A l \in 1 .. Len(t) : PathElements(tree, t, l) \in Seq(Elements)
      /\ \A l \in 1 .. Len(u) : PathElements(tree, u, l) \in Seq(Elements)
  BY PathElementsType
<1>2. PICK i \in Nat : BetterAt(s, t, i)
  BY BetterSomewhere
<1>3. PICK j \in Nat : BetterAt(t, u, j)
  BY BetterSomewhere
<1>4. i \in 1 .. Len(s) /\ i \in 1 .. Len(t) /\ j \in 1 .. Len(t) /\ j \in 1 .. Len(u)
  BY <1>2, <1>3 DEF BetterAt
<1>5. CASE i = j
  <2>1. ElementsBetter(PathElements(tree, s, i), PathElements(tree, u, i))
    <3>1. ElementsBetter(PathElements(tree, s, i), PathElements(tree, t, i))
          /\ ElementsBetter(PathElements(tree, t, i), PathElements(tree, u, i))
      BY <1>2, <1>3, <1>5 DEF BetterAt
    <3> QED
      BY <1>1, <1>4, <1>5, <3>1, LevelsCompare
  <2>2. BetterAt(s, u, i)
    BY <1>2, <1>3, <1>4, <1>5, <2>1 DEF BetterAt
  <2> QED
    BY <2>2, BetterSomewhere
<1>6. CASE i < j
  <2>1. i \in 1 .. j - 1 /\ i \in 1 .. Len(u) /\ \A k \in 1 .. i - 1 : k \in 1 .. j - 1
    BY <1>1, <1>4, <1>6
  <2>2. BetterAt(s, u, i)
    BY <1>2, <1>3, <1>4, <2>1 DEF BetterAt
  <2> QED
    BY <2>2, BetterSomewhere
<1>7. CASE j < i
  <2>1. j \in 1 .. i - 1 /\ j \in 1 .. Len(s) /\ \A k \in 1 .. j - 1 : k \in 1 .. i - 1
    BY <1>1, <1>4, <1>7
  <2>2. BetterAt(s, u, j)
    BY <1>2, <1>3, <1>4, <2>1 DEF BetterAt
  <2> QED
    BY <2>2, BetterSomewhere
<1> QED
  BY <1>5, <1>6, <1>7

LEMMA AsGoodOn ==
  ASSUME IsTree(tree), NEW s \in tree.nodes, NEW t \in tree.nodes, NEW u \in tree.nodes,
         AsGood(s, t), AsGood(t, u)
  PROVE  AsGood(s, u)
<1>1. /\ Len(s) \in Nat /\ Len(t) \in Nat /\ Len(u) \in Nat
      /\ tree.cert[s] \in Nat /\ tree.cert[t] \in Nat /\ tree.cert[u] \in Nat
  BY PathElementsType
<1>2. CASE TraceBetter(tree, s, t) /\ TraceBetter(tree, t, u)
  BY <1>2, TraceBetterOn DEF AsGood
<1>3. CASE TraceBetter(tree, s, t) /\ Len(t) = Len(u) /\ SamePath(tree, t, u, Len(t))
  <2>1. PICK i \in Nat : BetterAt(s, t, i)
    BY <1>3, BetterSomewhere
  <2>2. i \in 1 .. Len(t) /\ \A k \in 1 .. i - 1 : k \in 1 .. Len(t)
    BY <1>1, <2>1 DEF BetterAt
  <2>3. BetterAt(s, u, i)
    BY <1>3, <2>1, <2>2 DEF BetterAt, SamePath
  <2> QED
    BY <2>3, BetterSomewhere DEF AsGood
<1>4. CASE TraceBetter(tree, t, u) /\ Len(s) = Len(t) /\ SamePath(tree, s, t, Len(s))
  <2>1. PICK i \in Nat : BetterAt(t, u, i)
    BY <1>4, BetterSomewhere
  <2>2. i \in 1 .. Len(s) /\ \A k \in 1 .. i - 1 : k \in 1 .. Len(s)
    BY <1>1, <1>4, <2>1 DEF BetterAt
  <2>3. BetterAt(s, u, i)
    BY <1>4, <2>1, <2>2 DEF BetterAt, SamePath
  <2> QED
    BY <2>3, BetterSomewhere DEF AsGood
<1>5. CASE /\ Len(s) = Len(t) /\ SamePath(tree, s, t, Len(s)) /\ tree.cert[s] <= tree.cert[t]
           /\ Len(t) = Len(u) /\ SamePath(tree, t, u, Len(t)) /\ tree.cert[t] <= tree.cert[u]
  BY <1>1, <1>5 DEF AsGood, SamePath
<1> QED
  BY <1>2, <1>3, <1>4, <1>5 DEF AsGood

LEMMA AsGoodSelf ==
  ASSUME IsTree(tree), NEW s \in tree.nodes
  PROVE  AsGood(s, s)
BY PathElementsType DEF AsGood, SamePath

(* The ranking of BestLeaf.                                                *)
LEMMA AsGoodRanks ==
  ASSUME IsTree(tree), NEW s \in tree.nodes, NEW t \in tree.nodes, AsGood(s, t)
  PROVE  LeafAtLeast(tree, s, t)
<1>1. tree.cert[s] \in Nat /\ tree.cert[t] \in Nat
  BY PathElementsType
<1>2. CASE TraceBetter(tree, s, t)
  BY <1>2, TraceBetterOneWay DEF LeafAtLeast, LeafBetter
<1>3. CASE Len(s) = Len(t) /\ SamePath(tree, s, t, Len(s)) /\ tree.cert[s] <= tree.cert[t]
  <2>1. SamePath(tree, t, s, Len(s))
    BY <1>3 DEF SamePath
  <2>2. ~TraceBetter(tree, t, s)
    BY <1>3, TraceBetterOneWay
  <2> QED
    BY <1>1, <1>3, <2>2 DEF LeafAtLeast, LeafBetter
<1> QED
  BY <1>2, <1>3 DEF AsGood

-----------------------------------------------------------------------------
(* Subtrees and their images.                                              *)

LEMMA AboveOn ==
  ASSUME IsTree(tree), NEW a \in tree.nodes, NEW b \in tree.nodes, NEW c \in tree.nodes
  PROVE  /\ Above(a, a)
         /\ Above(a, b) /\ Above(b, c) => Above(a, c)
         /\ Above(a, c) /\ Above(b, c) /\ Len(a) <= Len(b) => Above(a, b)
         /\ Above(a, b) /\ Above(b, a) => a = b
         /\ Above(a, b) /\ Len(a) = Len(b) => a = b
<1>1. /\ Len(a) \in Nat /\ Len(b) \in Nat /\ Len(c) \in Nat
      /\ Above(a, b) <=> Len(a) <= Len(b) /\ a = Ancestor(b, Len(a))
      /\ Above(b, a) <=> Len(b) <= Len(a) /\ b = Ancestor(a, Len(b))
      /\ Above(b, c) <=> Len(b) <= Len(c) /\ b = Ancestor(c, Len(b))
      /\ Above(a, c) <=> Len(a) <= Len(c) /\ a = Ancestor(c, Len(a))
      /\ Above(a, a) <=> Len(a) <= Len(a) /\ a = Ancestor(a, Len(a))
  BY AboveFacts
<1>2. Ancestor(a, Len(a)) = a /\ Ancestor(b, Len(b)) = b
  BY <1>1, PathToAncestor DEF Level
<1>3. Len(a) <= Len(b) /\ Len(b) <= Len(c) =>
        Ancestor(Ancestor(c, Len(b)), Len(a)) = Ancestor(c, Len(a))
  BY <1>1, AncestorOfAncestor
<1> QED
  BY <1>1, <1>2, <1>3

LEMMA AncestorsAbove ==
  ASSUME IsTree(tree), NEW t \in tree.nodes
  PROVE  /\ \A i \in 0 .. Len(t) : /\ Ancestor(t, i) \in tree.nodes /\ Len(Ancestor(t, i)) = i
                                   /\ Above(Ancestor(t, i), t)
         /\ \A i \in 1 .. Len(t) : i \in 0 .. Len(t) /\ Ancestor(t, i) # Root
                                   /\ Parent(Ancestor(t, i)) = Ancestor(t, i - 1)
         /\ Ancestor(t, Len(t)) = t /\ Len(t) \in Nat
         /\ Above(Root, t) /\ Root \in tree.nodes
<1>1. Len(t) \in Nat /\ Root \in tree.nodes
  BY PathLength DEF IsTree
<1>2. ASSUME NEW i \in 0 .. Len(t)
      PROVE  /\ Ancestor(t, i) \in tree.nodes /\ Len(Ancestor(t, i)) = i
             /\ Above(Ancestor(t, i), t)
  <2>1. Ancestor(t, i) \in tree.nodes /\ Len(Ancestor(t, i)) = i
    BY <1>2, PathToAncestor DEF Level
  <2> QED
    BY <1>1, <2>1, AboveFacts
<1>3. ASSUME NEW i \in 1 .. Len(t)
      PROVE  i \in 0 .. Len(t) /\ Ancestor(t, i) # Root /\ Parent(Ancestor(t, i)) = Ancestor(t, i - 1)
  <2>1. i \in 0 .. Len(t) /\ i > 0
    BY <1>1
  <2> QED
    BY <2>1, PathToAncestor DEF Level
<1>4. Ancestor(t, Len(t)) = t
  BY PathToAncestor, <1>1 DEF Level
<1>5. Above(Root, t)
  <2>1. Len(Root) = 0 /\ Ancestor(t, 0) = Root
    BY <1>1, <1>2 DEF Root, Ancestor
  <2> QED
    BY <1>1, <2>1 DEF Above, Ancestor
<1> QED
  BY <1>1, <1>2, <1>3, <1>4, <1>5

LEMMA ImageOfPath ==
  ASSUME Symmetric, NEW p \in tree.auts, NEW t \in tree.nodes, NEW l \in 0 .. Len(t)
  PROVE  /\ Ancestor(Image(p, t), l) = Image(p, Ancestor(t, l))
         /\ PathElements(tree, Image(p, t), l) = PathElements(tree, t, l)
<1>1. IsTree(tree) /\ HasSymmetry(tree)
  BY SymmetricTree
<1>2. Image(p, t) \in tree.nodes /\ Len(Image(p, t)) = Len(t) /\ Len(t) \in Nat
      /\ \A i \in 1 .. Len(t) : Image(p, t)[i] = p[t[i]]
  BY ImageFacts
<1>3. Ancestor(t, l) \in tree.nodes /\ Len(Ancestor(t, l)) = l
      /\ Ancestor(Image(p, t), l) \in tree.nodes /\ Len(Ancestor(Image(p, t), l)) = l
  BY <1>1, <1>2, AncestorsAbove
<1>4. Image(p, Ancestor(t, l)) \in tree.nodes /\ Len(Image(p, Ancestor(t, l))) = l
      /\ \A i \in 1 .. l : Image(p, Ancestor(t, l))[i] = p[Ancestor(t, l)[i]]
  BY <1>3, ImageFacts
<1>5. ASSUME NEW i \in 1 .. l
      PROVE  Ancestor(Image(p, t), l)[i] = Image(p, Ancestor(t, l))[i]
  <2>1. t \in Seq(Nat) /\ Image(p, t) \in Seq(Nat)
    BY <1>1, <1>2 DEF IsTree
  <2>2. Ancestor(t, l)[i] = t[i] /\ Ancestor(Image(p, t), l)[i] = Image(p, t)[i]
    BY <1>2, <2>1, PrefixElements DEF Ancestor
  <2>3. i \in 1 .. Len(t)
    BY <1>2
  <2> QED
    BY <1>2, <1>4, <2>2, <2>3
<1>6. Ancestor(Image(p, t), l) = Image(p, Ancestor(t, l))
  BY <1>3, <1>4, <1>5, SameImage
<1>7. tree.elems[Image(p, Ancestor(t, l))] = tree.elems[Ancestor(t, l)]
  BY <1>1, <1>3 DEF HasSymmetry
<1> QED
  BY <1>6, <1>7 DEF PathElements

LEMMA ImageAbove ==
  ASSUME Symmetric, NEW p \in tree.auts, NEW a \in tree.nodes, NEW t \in tree.nodes, Above(a, t)
  PROVE  Above(Image(p, a), Image(p, t))
<1>1. /\ Image(p, a) \in tree.nodes /\ Len(Image(p, a)) = Len(a)
      /\ Image(p, t) \in tree.nodes /\ Len(Image(p, t)) = Len(t)
  BY ImageFacts
<1>2. Len(a) \in Nat /\ Len(t) \in Nat /\ Len(a) <= Len(t) /\ a = Ancestor(t, Len(a))
  BY SymmetricTree, AboveFacts
<1>3. Ancestor(Image(p, t), Len(a)) = Image(p, a)
  BY <1>2, ImageOfPath
<1> QED
  BY <1>1, <1>2, <1>3 DEF Above, Ancestor

(* The image of a leaf is a leaf that looks the same.                      *)
LEMMA ImageOfLeaf ==
  ASSUME Symmetric, Input, NEW p \in tree.auts, NEW l \in LeavesOf(tree)
  PROVE  /\ l \in tree.nodes
         /\ Image(p, l) \in LeavesOf(tree)
         /\ AsGood(Image(p, l), l) /\ AsGood(l, Image(p, l))
<1>1. IsTree(tree) /\ HasSymmetry(tree) /\ LeavesAlike(tree)
  BY SymmetricTree DEF Input
<1>2. l \in tree.nodes /\ tree.children[l] = {}
  BY DEF LeavesOf
<1>3. Image(p, l) \in tree.nodes /\ Len(Image(p, l)) = Len(l) /\ Len(l) \in Nat
  BY <1>2, ImageFacts
<1>4. SamePath(tree, l, Image(p, l), Len(l)) /\ SamePath(tree, Image(p, l), l, Len(l))
  <2>1. \A i \in 1 .. Len(l) : i \in 0 .. Len(l)
    BY <1>3
  <2> QED
    BY <1>2, <2>1, ImageOfPath DEF SamePath
<1>5. Image(p, l) \in LeavesOf(tree)
  BY <1>1, <1>2, <1>3, <1>4 DEF LeavesAlike, LeavesOf
<1>6. tree.cert[Image(p, l)] = tree.cert[l]
  BY <1>1, <1>3, <1>4, <1>5 DEF HasSymmetry
<1>7. tree.cert[l] <= tree.cert[Image(p, l)] /\ tree.cert[Image(p, l)] <= tree.cert[l]
  BY <1>1, <1>2, <1>6, PathElementsType
<1> QED
  BY <1>2, <1>3, <1>4, <1>5, <1>7 DEF AsGood

(* Every subtree has a leaf.                                               *)
LEMMA LeafBelow ==
  ASSUME IsTree(tree), NEW t \in tree.nodes
  PROVE  \E l \in LeavesOf(tree) : Above(t, l)
<1>1. \A s \in tree.nodes : Len(s) \in Nat /\ Len(s) <= MaxDepth
  BY PathLength DEF IsTree
<1>2. MaxDepth \in Nat
  BY VisitorsAssumption
<1>3. PICK S : S = {k \in Nat : \E s \in tree.nodes : Above(t, s) /\ k = MaxDepth - Len(s)}
  OBVIOUS
<1>4. S \in SUBSET Nat /\ S # {}
  <2>1. MaxDepth - Len(t) \in Nat /\ Above(t, t)
    BY <1>1, <1>2, AboveOn
  <2> QED
    BY <1>3, <2>1
<1>5. PICK m \in S : \A k \in S : m <= k
  BY <1>4, LeastNatural
<1>6. PICK s \in tree.nodes : Above(t, s) /\ m = MaxDepth - Len(s)
  BY <1>3
<1>7. ASSUME NEW c \in tree.children[s] PROVE FALSE
  <2>1. c \in tree.nodes \ {Root} /\ Parent(c) = s /\ Len(c) = Len(s) + 1
    BY <1>7, ChildrenAreNodes DEF Children, Level
  <2>2. Above(s, c)
    <3>1. Len(c) - 1 \in 0 .. Len(c) /\ s = Ancestor(c, Len(c) - 1)
      BY <1>1, <2>1 DEF Parent, Ancestor
    <3>2. PICK k : k = Len(c) - 1
      OBVIOUS
    <3>3. Above(Ancestor(c, k), c)
      BY <2>1, <3>1, <3>2, AncestorsAbove
    <3> QED
      BY <3>1, <3>2, <3>3
  <2>3. Above(t, c)
    BY <1>6, <2>1, <2>2, AboveOn
  <2>4. MaxDepth - Len(c) \in S
    <3>1. MaxDepth - Len(c) \in Nat
      BY <1>1, <1>2, <2>1
    <3> QED
      BY <1>3, <2>1, <2>3, <3>1
  <2>5. m <= MaxDepth - Len(c)
    BY <1>5, <2>4
  <2> QED
    BY <1>1, <1>2, <1>6, <2>1, <2>5
<1> QED
  BY <1>6, <1>7 DEF LeavesOf

(* A node below another that is not the same is below one of its children. *)
LEMMA ChildTowards ==
  ASSUME IsTree(tree), NEW a \in tree.nodes, NEW t \in tree.nodes, Above(a, t), a # t
  PROVE  \E c \in Children(a) : c \in tree.nodes \ {Root} /\ Above(c, t) /\ Parent(c) = a
                                /\ c = Ancestor(t, Len(a) + 1) /\ Len(a) + 1 \in 1 .. Len(t)
<1>1. Len(a) \in Nat /\ Len(t) \in Nat /\ Len(a) <= Len(t) /\ a = Ancestor(t, Len(a))
  BY AboveFacts
<1>2. Len(a) # Len(t)
  BY <1>1, AncestorsAbove
<1>3. Len(a) + 1 \in 1 .. Len(t) /\ (Len(a) + 1) - 1 = Len(a)
  BY <1>1, <1>2
<1>4. PICK c : c = Ancestor(t, Len(a) + 1)
  OBVIOUS
<1>5. c \in tree.nodes /\ c # Root /\ Above(c, t) /\ Parent(c) = a
  BY <1>1, <1>3, <1>4, AncestorsAbove
<1>6. c \in Children(a)
  BY <1>5 DEF IsTree, Children
<1> QED
  BY <1>3, <1>4, <1>5, <1>6

-----------------------------------------------------------------------------
(* Which nodes have been created, and which are cut off.                   *)

(* A node that is alive is not flagged, and all its ancestors are alive.   *)
Living ==
  \A t \in tree.nodes : status[t] \in {"live", "constructing"} =>
    /\ t \notin child_pruned
    /\ \A a \in tree.nodes : Above(a, t) /\ a # t => status[a] = "live"

(* Nodes are created, and children flagged, below finished nodes.          *)
FinishedAbove ==
  \A t \in tree.nodes : status[t] # "absent" \/ t \in child_pruned =>
    \A a \in tree.nodes : Above(a, t) /\ a # t => status[a] \in {"live", "pruned"}

RootLives == status[Root] \in {"live", "constructing"}

(* Of a pair one child is never created, and flagged from the start.       *)
PairsCut ==
  \A t \in tree.nodes : \A c \in OneOfPair(t) :
    status[c] = "absent" /\ (status[t] = "live" => c \in child_pruned)

(* What was merged into another set is flagged.                            *)
SetsCut ==
  \A c \in tree.nodes : /\ forest[forest[c]] = forest[c]
                        /\ forest[c] # c => c \in child_pruned

ShapeInv ==
  /\ child_pruned \subseteq tree.nodes
  /\ Living /\ FinishedAbove /\ RootLives /\ PairsCut /\ SetsCut

LEMMA SameTreeTerms ==
  ASSUME UNCHANGED <<tree, implicit>>
  PROVE  /\ \A t : OneOfPair(t)' = OneOfPair(t) /\ Children(t)' = Children(t)
         /\ \A a, b : Above(a, b)' <=> Above(a, b)
         /\ \A a, b : AsGood(a, b)' <=> AsGood(a, b)
         /\ LeavesOf(tree)' = LeavesOf(tree)
BY DEF OneOfPair, Fits, Children, Above, AsGood, TraceBetter, SamePath, PathElements, Ancestor,
   Level, ElementsBetter, ElementBetter, LeavesOf

LEMMA PairsAreChildren ==
  ASSUME IsTree(tree), NEW t \in tree.nodes, NEW c \in OneOfPair(t)
  PROVE  c \in Children(t) /\ c \in tree.nodes \ {Root} /\ Parent(c) = t /\ Above(t, c) /\ t # c
<1>1. c \in Children(t)
  BY DEF OneOfPair
<1>2. c \in tree.nodes \ {Root} /\ Parent(c) = t /\ t # c
  BY <1>1, ChildrenAreNodes, ParentFacts
<1>3. Above(t, c)
  <2>1. t = Ancestor(c, Len(c) - 1) /\ Len(c) - 1 \in 0 .. Len(c)
    BY <1>2, ParentIsAncestor DEF Level
  <2> QED
    BY <1>2, <2>1, AncestorsAbove
<1> QED
  BY <1>1, <1>2, <1>3

LEMMA ChildAbove ==
  ASSUME IsTree(tree), NEW c \in tree.nodes \ {Root}
  PROVE  /\ Parent(c) \in tree.nodes /\ Above(Parent(c), c) /\ Parent(c) # c
         /\ Len(c) = Len(Parent(c)) + 1
         /\ \A a \in tree.nodes : Above(a, c) /\ a # c => Above(a, Parent(c))
<1>1. Parent(c) \in tree.nodes /\ Len(Parent(c)) = Len(c) - 1 /\ Parent(c) # c
      /\ Len(c) \in Nat /\ Len(c) >= 1
  BY ParentFacts, PathLength DEF Level
<1>2. Above(Parent(c), c)
  <2>1. Parent(c) = Ancestor(c, Len(c) - 1) /\ Len(c) - 1 \in 0 .. Len(c)
    BY ParentIsAncestor DEF Level
  <2> QED
    BY <2>1, AncestorsAbove
<1>3. ASSUME NEW a \in tree.nodes, Above(a, c), a # c PROVE Above(a, Parent(c))
  <2>1. Len(a) <= Len(c) /\ Len(a) # Len(c) /\ Len(a) \in Nat
    BY <1>3, AboveOn, AboveFacts
  <2>2. Len(a) <= Len(Parent(c))
    BY <1>1, <2>1
  <2> QED
    BY <1>1, <1>2, <1>3, <2>2, AboveOn
<1> QED
  BY <1>1, <1>2, <1>3

LEMMA ShapeKept ==
  ASSUME ShapeInv, UNCHANGED <<tree, implicit, status, child_pruned, forest>>
  PROVE  ShapeInv'
BY SameTreeTerms DEF ShapeInv, Living, FinishedAbove, RootLives, PairsCut, SetsCut, Root

LEMMA ShapeDiscard ==
  ASSUME TreeInv, ShapeInv, UNCHANGED <<tree, implicit, forest>>, cur \notin {NoNode, Root},
         status' = [status EXCEPT ![cur] = "pruned"], child_pruned' = child_pruned \cup {cur}
  PROVE  ShapeInv'
<1>1. IsTree(tree) /\ cur \in tree.nodes /\ status[cur] = "constructing" /\ ControlTypeOK
  BY DEF TreeInv, Input, ControlTypeOK
<1>2. status'[cur] = "pruned" /\ \A t \in tree.nodes \ {cur} : status'[t] = status[t]
  BY <1>1 DEF ControlTypeOK
<1>3. child_pruned' \subseteq tree.nodes
  BY <1>1 DEF ShapeInv
<1>4. ASSUME NEW t \in tree.nodes, status'[t] \in {"live", "constructing"}
      PROVE  /\ t \notin child_pruned'
             /\ \A a \in tree.nodes : Above(a, t) /\ a # t => status'[a] = "live"
  <2>1. t # cur /\ status[t] \in {"live", "constructing"}
    BY <1>2, <1>4
  <2>2. t \notin child_pruned /\ \A a \in tree.nodes : Above(a, t) /\ a # t => status[a] = "live"
    BY <2>1 DEF ShapeInv, Living
  <2> QED
    BY <1>1, <1>2, <2>1, <2>2
<1>5. ASSUME NEW t \in tree.nodes, status'[t] # "absent" \/ t \in child_pruned',
             NEW a \in tree.nodes, Above(a, t), a # t
      PROVE  status'[a] \in {"live", "pruned"}
  <2>1. status[t] # "absent" \/ t \in child_pruned
    BY <1>1, <1>2, <1>5
  <2>2. status[a] \in {"live", "pruned"}
    BY <1>5, <2>1 DEF ShapeInv, FinishedAbove
  <2> QED
    BY <1>2, <2>2
<1>6. status'[Root] \in {"live", "constructing"}
  BY <1>1, <1>2 DEF ShapeInv, RootLives, IsTree
<1>7. ASSUME NEW t \in tree.nodes, NEW c \in OneOfPair(t)
      PROVE  status'[c] = "absent" /\ (status'[t] = "live" => c \in child_pruned')
  <2>1. c \in tree.nodes /\ status[c] = "absent" /\ (status[t] = "live" => c \in child_pruned)
    BY <1>1, <1>7, PairsAreChildren DEF ShapeInv, PairsCut
  <2> QED
    BY <1>1, <1>2, <2>1
<1>8. SetsCut'
  BY DEF ShapeInv, SetsCut
<1> QED
  BY <1>3, <1>4, <1>5, <1>6, <1>7, <1>8, SameTreeTerms
  DEF ShapeInv, Living, FinishedAbove, RootLives, PairsCut, Root

LEMMA ShapeFinished ==
  ASSUME TreeInv, ShapeInv, UNCHANGED <<tree, implicit, forest>>, cur # NoNode,
         status' = [status EXCEPT ![cur] = "live"],
         child_pruned' = child_pruned \cup OneOfPair(cur)
  PROVE  ShapeInv'
<1>1. IsTree(tree) /\ cur \in tree.nodes /\ status[cur] = "constructing" /\ ControlTypeOK
  BY DEF TreeInv, Input, ControlTypeOK
<1>2. status'[cur] = "live" /\ \A t \in tree.nodes \ {cur} : status'[t] = status[t]
  BY <1>1 DEF ControlTypeOK
<1>3. child_pruned' \subseteq tree.nodes
  BY <1>1, PairsAreChildren DEF ShapeInv
<1>4. ASSUME NEW t \in tree.nodes, status'[t] \in {"live", "constructing"}
      PROVE  /\ t \notin child_pruned'
             /\ \A a \in tree.nodes : Above(a, t) /\ a # t => status'[a] = "live"
  <2>1. status[t] \in {"live", "constructing"}
    BY <1>1, <1>2, <1>4
  <2>2. t \notin child_pruned /\ \A a \in tree.nodes : Above(a, t) /\ a # t => status[a] = "live"
    BY <2>1 DEF ShapeInv, Living
  <2>3. t \notin OneOfPair(cur)
    BY <1>1, <2>1 DEF ShapeInv, PairsCut
  <2> QED
    BY <1>1, <1>2, <2>2, <2>3
<1>5. ASSUME NEW t \in tree.nodes, status'[t] # "absent" \/ t \in child_pruned',
             NEW a \in tree.nodes, Above(a, t), a # t
      PROVE  status'[a] \in {"live", "pruned"}
  <2>1. CASE status[t] # "absent" \/ t \in child_pruned
    <3>1. status[a] \in {"live", "pruned"}
      BY <1>5, <2>1 DEF ShapeInv, FinishedAbove
    <3> QED
      BY <1>2, <3>1
  <2>2. CASE t \in OneOfPair(cur)
    <3>1. t \in tree.nodes \ {Root} /\ Parent(t) = cur
      BY <1>1, <2>2, PairsAreChildren
    <3>2. Above(a, cur)
      BY <1>1, <1>5, <3>1, ChildAbove
    <3>3. a # cur => status[a] = "live"
      BY <1>1, <3>2 DEF ShapeInv, Living
    <3> QED
      BY <1>2, <3>3
  <2> QED
    BY <1>1, <1>2, <1>5, <2>1, <2>2
<1>6. status'[Root] \in {"live", "constructing"}
  BY <1>1, <1>2 DEF ShapeInv, RootLives, IsTree
<1>7. ASSUME NEW t \in tree.nodes, NEW c \in OneOfPair(t)
      PROVE  status'[c] = "absent" /\ (status'[t] = "live" => c \in child_pruned')
  <2>1. c \in tree.nodes /\ status[c] = "absent" /\ (status[t] = "live" => c \in child_pruned)
    BY <1>1, <1>7, PairsAreChildren DEF ShapeInv, PairsCut
  <2> QED
    BY <1>1, <1>2, <1>7, <2>1
<1>8. SetsCut'
  BY DEF ShapeInv, SetsCut
<1> QED
  BY <1>3, <1>4, <1>5, <1>6, <1>7, <1>8, SameTreeTerms
  DEF ShapeInv, Living, FinishedAbove, RootLives, PairsCut, Root

LEMMA ShapeCreated ==
  ASSUME TreeInv, ShapeInv, UNCHANGED <<tree, implicit, forest, child_pruned>>, cur = NoNode,
         NEW c \in tree.nodes \ {Root}, status' = [status EXCEPT ![c] = "constructing"],
         status[c] = "absent", c \notin child_pruned, status[Parent(c)] = "live"
  PROVE  ShapeInv'
<1>1. IsTree(tree) /\ ControlTypeOK
  BY DEF TreeInv, Input
<1>2. status'[c] = "constructing" /\ \A t \in tree.nodes \ {c} : status'[t] = status[t]
  BY <1>1 DEF ControlTypeOK
<1>3. \A a \in tree.nodes : Above(a, c) /\ a # c => status[a] = "live"
  <2>1. Parent(c) \in tree.nodes /\ \A a \in tree.nodes : Above(a, c) /\ a # c => Above(a, Parent(c))
    BY <1>1, ChildAbove
  <2> QED
    BY <2>1 DEF ShapeInv, Living
<1>4. ASSUME NEW t \in tree.nodes, status'[t] \in {"live", "constructing"}
      PROVE  /\ t \notin child_pruned
             /\ \A a \in tree.nodes : Above(a, t) /\ a # t => status'[a] = "live"
  <2>1. CASE t = c
    BY <1>2, <1>3, <2>1
  <2>2. CASE t # c
    <3>1. status[t] \in {"live", "constructing"}
      BY <1>2, <1>4, <2>2
    <3>2. t \notin child_pruned /\ \A a \in tree.nodes : Above(a, t) /\ a # t => status[a] = "live"
      BY <3>1 DEF ShapeInv, Living
    <3> QED
      BY <1>2, <3>2
  <2> QED
    BY <2>1, <2>2
<1>5. ASSUME NEW t \in tree.nodes, status'[t] # "absent" \/ t \in child_pruned,
             NEW a \in tree.nodes, Above(a, t), a # t
      PROVE  status'[a] \in {"live", "pruned"}
  <2>1. CASE t = c
    BY <1>2, <1>3, <1>5, <2>1
  <2>2. CASE t # c
    <3>1. status[a] \in {"live", "pruned"}
      BY <1>2, <1>5, <2>2 DEF ShapeInv, FinishedAbove
    <3> QED
      BY <1>2, <3>1
  <2> QED
    BY <2>1, <2>2
<1>6. status'[Root] \in {"live", "constructing"}
  BY <1>1, <1>2 DEF ShapeInv, RootLives, IsTree
<1>7. ASSUME NEW t \in tree.nodes, NEW d \in OneOfPair(t)
      PROVE  status'[d] = "absent" /\ (status'[t] = "live" => d \in child_pruned)
  <2>1. d \in tree.nodes \ {Root} /\ Parent(d) = t /\ status[d] = "absent"
        /\ (status[t] = "live" => d \in child_pruned)
    BY <1>1, <1>7, PairsAreChildren DEF ShapeInv, PairsCut
  <2>2. d # c
    BY <2>1
  <2> QED
    BY <1>1, <1>2, <2>1, <2>2
<1>8. SetsCut'
  BY DEF ShapeInv, SetsCut
<1> QED
  BY <1>4, <1>5, <1>6, <1>7, <1>8, SameTreeTerms
  DEF ShapeInv, Living, FinishedAbove, RootLives, PairsCut, Root

LEMMA ShapePruned ==
  ASSUME TreeInv, ShapeInv, UNCHANGED <<tree, implicit>>, cur = NoNode,
         NEW t \in tree.nodes \ {Root}, NEW also \in SUBSET {t}, PruneSubtree(t, also),
         status[Parent(t)] \in {"live", "pruned"}, SetsCut'
  PROVE  ShapeInv'
<1>1. IsTree(tree) /\ ControlTypeOK
  BY DEF TreeInv, Input
<1>2. /\ \A s \in tree.nodes : status'[s] = IF Above(t, s) /\ status[s] = "live" THEN "pruned"
                                            ELSE status[s]
      /\ \A s \in tree.nodes : s \in child_pruned' <=>
           s \in child_pruned \/ s \in also \/ (Above(t, s) /\ s # t /\ status[Parent(s)] = "live")
      /\ child_pruned' \subseteq tree.nodes
  BY DEF PruneSubtree, ShapeInv
<1>3. \A s \in tree.nodes : status[s] # "constructing"
  BY <1>1 DEF TreeInv, Input
<1>4. ASSUME NEW s \in tree.nodes, status'[s] \in {"live", "constructing"}
      PROVE  /\ s \notin child_pruned'
             /\ \A a \in tree.nodes : Above(a, s) /\ a # s => status'[a] = "live"
  <2>1. status[s] = "live" /\ ~Above(t, s)
    BY <1>2, <1>3, <1>4
  <2>2. s \notin child_pruned /\ \A a \in tree.nodes : Above(a, s) /\ a # s => status[a] = "live"
    BY <2>1 DEF ShapeInv, Living
  <2>3. s # t /\ \A a \in tree.nodes : Above(a, s) => ~Above(t, a)
    BY <1>1, <2>1, AboveOn
  <2> QED
    BY <1>2, <2>1, <2>2, <2>3
<1>5. ASSUME NEW s \in tree.nodes, status'[s] # "absent" \/ s \in child_pruned',
             NEW a \in tree.nodes, Above(a, s), a # s
      PROVE  status'[a] \in {"live", "pruned"}
  <2>1. status[a] \in {"live", "pruned"}
    <3>1. CASE status[s] # "absent" \/ s \in child_pruned
      BY <1>5, <3>1 DEF ShapeInv, FinishedAbove
    <3>2. CASE s = t
      <4>1. Parent(t) \in tree.nodes /\ Above(a, Parent(t))
        BY <1>1, <1>5, <3>2, ChildAbove
      <4> QED
        BY <4>1 DEF ShapeInv, FinishedAbove
    <3>3. CASE Above(t, s) /\ s # t /\ status[Parent(s)] = "live"
      <4>1. s # Root
        <5>1. Above(Root, t)
          BY <1>1, AncestorsAbove
        <5> QED
          BY <1>1, <3>3, <5>1, AboveOn
      <4>2. Parent(s) \in tree.nodes /\ Above(a, Parent(s))
        BY <1>1, <1>5, <4>1, ChildAbove
      <4> QED
        BY <3>3, <4>2 DEF ShapeInv, Living
    <3> QED
      BY <1>2, <1>5, <3>1, <3>2, <3>3
  <2> QED
    BY <1>2, <2>1
<1>6. status'[Root] \in {"live", "constructing"}
  <2>1. Root \in tree.nodes /\ ~Above(t, Root)
    BY <1>1, AncestorsAbove, AboveOn
  <2> QED
    BY <1>2, <2>1 DEF ShapeInv, RootLives
<1>7. ASSUME NEW s \in tree.nodes, NEW c \in OneOfPair(s)
      PROVE  status'[c] = "absent" /\ (status'[s] = "live" => c \in child_pruned')
  <2>1. c \in tree.nodes /\ status[c] = "absent" /\ (status[s] = "live" => c \in child_pruned)
    BY <1>1, <1>7, PairsAreChildren DEF ShapeInv, PairsCut
  <2> QED
    BY <1>2, <2>1
<1> QED
  BY <1>2, <1>4, <1>5, <1>6, <1>7, SameTreeTerms
  DEF ShapeInv, Living, FinishedAbove, RootLives, PairsCut, Root

LEMMA SameLast ==
  ASSUME Symmetric, NEW t \in tree.nodes, NEW c \in Children(t), NEW d \in Children(t), Last(c) = Last(d)
  PROVE  c = d
<1>1. IsTree(tree)
  BY SymmetricTree
<1>2. ASSUME NEW s \in Children(t)
      PROVE  /\ s \in tree.nodes /\ Len(s) = Len(t) + 1 /\ Len(t) \in Nat /\ Last(s) = s[Len(t) + 1]
             /\ \A i \in 1 .. Len(t) : s[i] = t[i]
  <2>1. s \in tree.nodes \ {Root} /\ Parent(s) = t /\ Last(s) = s[Len(s)]
    BY <1>1, <1>2, ChildrenAreNodes
  <2>2. Len(s) = Len(t) + 1 /\ Len(t) \in Nat /\ s \in Seq(Nat)
    BY <1>1, <2>1, ChildAbove, PathLength
  <2>3. t = SubSeq(s, 1, Len(t)) /\ Len(t) \in 0 .. Len(s)
    BY <2>1, <2>2 DEF Parent
  <2>4. \A i \in 1 .. Len(t) : s[i] = t[i]
    BY <2>2, <2>3, PrefixElements
  <2> QED
    BY <2>1, <2>2, <2>4
<1>3. \A i \in 1 .. Len(d) : i \in 1 .. Len(t) \/ i = Len(t) + 1
  BY <1>2
<1>4. \A i \in 1 .. Len(d) : c[i] = d[i]
  BY <1>2, <1>3
<1> QED
  BY <1>2, <1>4, SameImage

-----------------------------------------------------------------------------
(* Which generators a node has.                                            *)

Seen(t) == num_base_gens[t] = Len(gens)

GensTyped ==
  /\ gens \in Seq(tree.auts)
  /\ num_base_gens \in [tree.nodes -> Nat]
  /\ num_parent_gens \in [tree.nodes -> Nat]
  /\ stab \in [tree.nodes -> Seq(tree.auts)]

(* They fix the path to the node.                                          *)
GensFix == \A t \in tree.nodes : \A i \in 1 .. Len(stab[t]) : Image(stab[t][i], t) = t

(* As GeneratorsPassedDown, but of every node, finished or not: a node that*)
(* does not exist has seen nothing.                                        *)
GensSeen ==
  /\ \A t \in tree.nodes : num_base_gens[t] <= Len(gens)
  /\ \A t \in tree.nodes \ {Root} :
       /\ num_parent_gens[t] <= Len(ParentGens(t))
       /\ gens # <<>> /\ Seen(t) => Seen(Parent(t)) /\ num_parent_gens[t] = Len(ParentGens(t))

GensInv == Symmetric /\ pruner = "basic" /\ GensTyped /\ GensFix /\ GensSeen

LEMMA ParentGensType ==
  ASSUME Symmetric, GensTyped, NEW t \in tree.nodes \ {Root}
  PROVE  /\ ParentGens(t) \in Seq(tree.auts)
         /\ Parent(t) \in tree.nodes /\ Level(t) \in Nat /\ Level(t) >= 1
         /\ Level(t) = 1 <=> Parent(t) = Root
<1>1. /\ Parent(t) \in tree.nodes /\ Level(Parent(t)) = Level(t) - 1 /\ Level(t) \in Levels
      /\ Level(t) >= 1
  BY SymmetricTree, ParentFacts
<1>2. Parent(t) \in Seq(Nat) /\ Level(t) \in Nat
  BY <1>1, SymmetricTree DEF IsTree, Levels
<1>3. Level(t) = 1 <=> Parent(t) = Root
  BY <1>1, <1>2 DEF Level, Root
<1> QED
  BY <1>1, <1>2, <1>3 DEF ParentGens, GensTyped

(* What update passes to a node fixes it.                                  *)
LEMMA NewGensFix ==
  ASSUME Symmetric, GensTyped, GensFix, GensSeen, NEW t \in tree.nodes
  PROVE  /\ NewGens(t) \in Seq(tree.auts)
         /\ \A i \in 1 .. Len(NewGens(t)) :
              NewGens(t)[i] \in tree.auts /\ Image(NewGens(t)[i], t) = t
<1>1. CASE t = Root
  <2>1. NewGens(t) = SubSeq(gens, num_base_gens[t] + 1, Len(gens))
    BY <1>1 DEF NewGens
  <2>2. NewGens(t) \in Seq(tree.auts)
    <3>1. num_base_gens[t] \in Nat /\ gens \in Seq(tree.auts)
      BY DEF GensTyped
    <3> QED
      BY <2>1, <3>1, Suffix
  <2>3. \A i \in 1 .. Len(NewGens(t)) : NewGens(t)[i] \in tree.auts
    BY <2>2, ElementOf
  <2> QED
    BY <1>1, <2>2, <2>3, ImageFacts
<1>2. CASE t # Root
  <2> DEFINE s == ParentGens(t)
             P == {i \in num_parent_gens[t] + 1 .. Len(s) : s[i][Last(t)] = Last(t)}
  <2>1. s \in Seq(tree.auts) /\ Parent(t) \in tree.nodes /\ (Level(t) = 1 <=> Parent(t) = Root)
        /\ Level(t) >= 1
    BY <1>2, ParentGensType
  <2>2. P \in SUBSET (1 .. Len(s))
    <3>1. num_parent_gens[t] \in Nat
      BY DEF GensTyped
    <3> QED
      BY <3>1
  <2>3. NewGens(t) = Selected(s, P)
    BY <1>2 DEF NewGens
  <2>4. /\ NewGens(t) \in Seq(tree.auts)
        /\ \A k \in 1 .. Len(NewGens(t)) : \E i \in P : NewGens(t)[k] = s[i]
    <3> HIDE DEF s, P
    <3> QED
      BY <2>1, <2>2, <2>3, SelectedElements
  <2>5. ASSUME NEW k \in 1 .. Len(NewGens(t))
        PROVE  NewGens(t)[k] \in tree.auts /\ Image(NewGens(t)[k], t) = t
    <3>1. PICK i \in P : NewGens(t)[k] = s[i]
      BY <2>4
    <3>2. i \in 1 .. Len(s) /\ s[i][Last(t)] = Last(t)
      BY <2>2, <3>1
    <3>3. PICK p : p = s[i]
      OBVIOUS
    <3>4. p \in tree.auts /\ p[Last(t)] = Last(t)
      BY <2>1, <3>2, <3>3, ElementOf
    <3>5. Image(p, Parent(t)) = Parent(t)
      <4>1. CASE Level(t) = 1
        BY <2>1, <3>4, <4>1, ImageFacts
      <4>2. CASE Level(t) # 1
        <5>1. s = stab[Parent(t)]
          BY <4>2 DEF ParentGens
        <5> HIDE DEF s
        <5> QED
          BY <2>1, <3>2, <3>3, <5>1 DEF GensFix
      <4> QED
        BY <4>1, <4>2
    <3>6. t \in Seq(Nat) /\ Len(t) \in Nat /\ Len(t) >= 1 /\ Last(t) = t[Len(t)]
      BY <2>1, SymmetricTree, PathLength DEF Last
    <3>7. Parent(t) \in Seq(Nat) /\ Len(Parent(t)) = Len(t) - 1
          /\ \A j \in 1 .. Len(t) - 1 : Parent(t)[j] = t[j]
      <4>1. Len(t) - 1 \in Nat /\ Len(t) - 1 <= Len(t) /\ Len(t) - 1 \in 0 .. Len(t)
        BY <3>6
      <4> QED
        BY <3>6, <4>1, Prefix, PrefixElements DEF Parent
    <3>8. ASSUME NEW j \in 1 .. Len(t) PROVE p[t[j]] = t[j]
      <4>1. CASE j = Len(t)
        BY <3>4, <3>6, <4>1
      <4>2. CASE j # Len(t)
        <5>1. j \in 1 .. Len(t) - 1
          BY <3>6, <4>2
        <5>2. Parent(t)[j] = t[j]
          BY <3>7, <5>1
        <5>3. Image(p, Parent(t))[j] = p[Parent(t)[j]]
          BY <3>7, <5>1 DEF Image
        <5> QED
          BY <3>5, <5>2, <5>3
      <4> QED
        BY <4>1, <4>2
    <3>9. Image(p, t) = t
      <4>1. /\ Image(p, t) \in tree.nodes /\ Len(Image(p, t)) = Len(t)
            /\ \A j \in 1 .. Len(t) : Image(p, t)[j] = p[t[j]]
        BY <3>4, ImageFacts
      <4> QED
        BY <3>8, <4>1, SameImage
    <3> QED
      BY <3>1, <3>3, <3>4, <3>9
  <2> QED
    BY <2>4, <2>5
<1> QED
  BY <1>1, <1>2

(* The ancestor one level up is the parent.                                *)
LEMMA AncestorBefore ==
  ASSUME IsTree(tree), NEW t \in tree.nodes, NEW k \in 0 .. Level(t), k > 0
  PROVE  Ancestor(t, k) \in tree.nodes \ {Root} /\ Parent(Ancestor(t, k)) = Ancestor(t, k - 1)
BY PathToAncestor

(* All ancestors of a node that has seen all generators have.              *)
LEMMA SeenAbove ==
  ASSUME GensInv, gens # <<>>, NEW t \in tree.nodes, Seen(t), NEW l \in 0 .. Len(t)
  PROVE  Seen(Ancestor(t, l))
<1> DEFINE S == {d \in 0 .. Len(t) : ~Seen(Ancestor(t, Len(t) - d))}
<1>1. IsTree(tree) /\ Len(t) \in Nat /\ Level(t) = Len(t)
  BY SymmetricTree, PathLength DEF GensInv
<1> SUFFICES ASSUME ~Seen(Ancestor(t, l)) PROVE FALSE
  OBVIOUS
<1>2. Len(t) - l \in S
  <2>1. Len(t) - l \in 0 .. Len(t) /\ Len(t) - (Len(t) - l) = l
    BY <1>1
  <2> QED
    BY <2>1
<1>3. PICK d \in S : \A e \in S : d <= e
  <2>0. S \in SUBSET Nat
    BY <1>1
  <2>1. S \in SUBSET Nat /\ S # {}
    BY <1>2, <2>0
  <2> HIDE DEF S
  <2> QED
    BY <2>1, LeastNatural
<1>4. d \in 0 .. Len(t) /\ ~Seen(Ancestor(t, Len(t) - d))
  BY <1>3
<1>5. d # 0
  BY <1>1, <1>4, PathToAncestor
<1>6. d - 1 \in 0 .. Len(t) /\ ~(d <= d - 1)
  BY <1>1, <1>4, <1>5
<1>7. Seen(Ancestor(t, Len(t) - (d - 1)))
  BY <1>3, <1>6
<1> DEFINE k == Len(t) - (d - 1)
<1>8. k \in 0 .. Level(t) /\ k > 0 /\ k - 1 = Len(t) - d
  BY <1>1, <1>4, <1>5
<1>9. Ancestor(t, k) \in tree.nodes \ {Root} /\ Parent(Ancestor(t, k)) = Ancestor(t, Len(t) - d)
  <2> HIDE DEF k, S
  <2>1. Ancestor(t, k) \in tree.nodes \ {Root} /\ Parent(Ancestor(t, k)) = Ancestor(t, k - 1)
    BY <1>1, <1>8, AncestorBefore
  <2> QED
    BY <1>8, <2>1
<1> QED
  BY <1>4, <1>7, <1>9 DEF GensInv, GensSeen

LEMMA InitGens ==
  ASSUME TreeInit, PrunerInit, pruner = "basic"
  PROVE  GensInv
<1>1. /\ gens = <<>>
      /\ num_base_gens = [t \in tree.nodes |-> 0]
      /\ num_parent_gens = [t \in tree.nodes |-> 0]
      /\ stab = [t \in tree.nodes |-> <<>>]
      /\ Symmetric
  BY DEF PrunerInit, BasicInit, TreeInit, Symmetric
<1>2. GensTyped
  BY <1>1 DEF GensTyped
<1>3. GensFix
  BY <1>1 DEF GensFix
<1>4. GensSeen
  <2>1. \A t \in tree.nodes \ {Root} : Len(ParentGens(t)) \in Nat
    BY <1>1, <1>2, ParentGensType, LenNat
  <2> QED
    BY <1>1, <2>1 DEF GensSeen
<1> QED
  BY <1>1, <1>2, <1>3, <1>4 DEF GensInv

LEMMA SameGens ==
  ASSUME GensInv, UNCHANGED <<tree, pruner, gens, nodeGens>>
  PROVE  GensInv' /\ \A t \in tree.nodes : Seen(t)' <=> Seen(t)
<1>1. UNCHANGED <<tree, pruner, gens, num_base_gens, num_parent_gens, stab>>
  BY DEF nodeGens
<1>2. Symmetric' /\ GensTyped' /\ GensFix'
  BY <1>1 DEF GensInv, Symmetric, GensTyped, GensFix
<1>3. GensSeen'
  BY <1>1 DEF GensInv, GensSeen, ParentGens, Seen, Parent, Root, Level
<1> QED
  BY <1>1, <1>2, <1>3 DEF GensInv, Seen

(* add_automorphism: whoever had seen all generators has not any more.     *)
LEMMA AddGens ==
  ASSUME GensInv, UNCHANGED <<tree, pruner>>, NEW p \in tree.auts, BasicAdd(p)
  PROVE  GensInv'
<1>1. UNCHANGED <<tree, pruner, num_base_gens, num_parent_gens, stab>>
  BY DEF BasicAdd, nodeGens
<1>2. CASE gens' = gens
  BY <1>1, <1>2, SameGens DEF nodeGens
<1>3. CASE gens' = Append(gens, p)
  <2>1. gens \in Seq(tree.auts) /\ num_base_gens \in [tree.nodes -> Nat] /\ Len(gens) \in Nat
    BY LenNat DEF GensInv, GensTyped
  <2>2. gens' \in Seq(tree.auts) /\ Len(gens') = Len(gens) + 1
    BY <1>3, <2>1, Appended
  <2>3. Symmetric' /\ GensTyped' /\ GensFix'
    BY <1>1, <2>2 DEF GensInv, Symmetric, GensTyped, GensFix
  <2>4. ASSUME NEW t \in tree.nodes
        PROVE  num_base_gens[t] <= Len(gens') /\ num_base_gens[t] # Len(gens')
    <3>1. num_base_gens[t] \in Nat /\ num_base_gens[t] <= Len(gens)
      BY <2>1 DEF GensInv, GensSeen
    <3> QED
      BY <2>1, <2>2, <3>1
  <2>5. ASSUME NEW t \in tree.nodes \ {Root}
        PROVE  num_parent_gens[t] <= Len(ParentGens(t)')
    <3>1. num_parent_gens[t] \in Nat /\ num_parent_gens[t] <= Len(ParentGens(t))
      BY DEF GensInv, GensTyped, GensSeen
    <3>2. CASE Level(t) = 1
      <4>1. ParentGens(t) = gens /\ ParentGens(t)' = gens'
        BY <3>2 DEF ParentGens, Level
      <4> QED
        BY <2>1, <2>2, <3>1, <4>1
    <3>3. CASE Level(t) # 1
      <4>1. ParentGens(t)' = ParentGens(t)
        BY <1>1, <3>3 DEF ParentGens, Level, Parent
      <4> QED
        BY <3>1, <4>1
    <3> QED
      BY <3>2, <3>3
  <2>6. GensSeen'
    BY <1>1, <2>4, <2>5 DEF GensSeen, Seen, Root
  <2> QED
    BY <1>1, <2>3, <2>6 DEF GensInv
<1> QED
  BY <1>2, <1>3 DEF BasicAdd

(* update of a node whose parent has seen all generators.                  *)
LEMMA UpdateGens ==
  ASSUME GensInv, UNCHANGED <<tree, pruner, gens>>, NEW a \in tree.nodes, BasicUpdate(a),
         gens # <<>>, ~Seen(a), a # Root => Seen(Parent(a))
  PROVE  /\ GensInv'
         /\ Seen(a)' /\ \A t \in tree.nodes : t # a => (Seen(t)' <=> Seen(t))
<1>0. /\ IsTree(tree) /\ gens \in Seq(tree.auts) /\ num_base_gens \in [tree.nodes -> Nat]
      /\ num_parent_gens \in [tree.nodes -> Nat] /\ stab \in [tree.nodes -> Seq(tree.auts)]
      /\ Len(gens) \in Nat
  BY SymmetricTree, LenNat DEF GensInv, GensTyped
<1>1. num_base_gens' = [num_base_gens EXCEPT ![a] = Len(gens)]
  BY DEF BasicUpdate
<1>2. Seen(a)' /\ \A t \in tree.nodes : t # a => (Seen(t)' <=> Seen(t))
  BY <1>0, <1>1 DEF Seen
<1>3. NewGens(a) \in Seq(tree.auts)
      /\ \A i \in 1 .. Len(NewGens(a)) : Image(NewGens(a)[i], a) = a
  BY NewGensFix DEF GensInv
<1>4. a # Root => Len(ParentGens(a)) \in Nat
  BY ParentGensType, LenNat DEF GensInv
<1>5. \A t \in tree.nodes \ {a} : stab'[t] = stab[t] /\ num_parent_gens'[t] = num_parent_gens[t]
  BY <1>0 DEF BasicUpdate
<1>6. IF a = Root THEN stab' = stab /\ num_parent_gens' = num_parent_gens
      ELSE stab'[a] = stab[a] \o NewGens(a) /\ num_parent_gens'[a] = Len(ParentGens(a))
  BY <1>0 DEF BasicUpdate
<1>7. stab[a] \in Seq(tree.auts) /\ stab[a] \o NewGens(a) \in Seq(tree.auts)
  <2>1. stab[a] \in Seq(tree.auts)
    BY <1>0
  <2> QED
    BY <1>3, <2>1, Joined
<1>8. GensTyped'
  BY <1>0, <1>1, <1>4, <1>7 DEF GensTyped, BasicUpdate
<1>9. GensFix'
  <2>1. ASSUME NEW t \in tree.nodes, NEW i \in 1 .. Len(stab'[t])
        PROVE  Image(stab'[t][i], t) = t
    <3>1. CASE stab'[t] = stab[t]
      BY <2>1, <3>1 DEF GensInv, GensFix
    <3>2. CASE t = a /\ stab'[a] = stab[a] \o NewGens(a)
      <4>1. CASE i <= Len(stab[a])
        <5>1. i \in 1 .. Len(stab[a]) /\ stab'[a][i] = stab[a][i]
          BY <1>3, <1>7, <2>1, <3>2, <4>1
        <5> QED
          BY <3>2, <5>1 DEF GensInv, GensFix
      <4>2. CASE ~(i <= Len(stab[a]))
        <5>1. /\ i - Len(stab[a]) \in 1 .. Len(NewGens(a))
              /\ stab'[a][i] = NewGens(a)[i - Len(stab[a])]
          BY <1>3, <1>7, <2>1, <3>2, <4>2
        <5> QED
          BY <1>3, <3>2, <5>1
      <4> QED
        BY <4>1, <4>2
    <3> QED
      BY <1>5, <1>6, <3>1, <3>2
  <2> QED
    BY <2>1 DEF GensFix
<1>10. GensSeen'
  <2>1. ASSUME NEW t \in tree.nodes PROVE num_base_gens'[t] <= Len(gens)
    BY <1>0, <1>1 DEF GensInv, GensSeen
  <2>2. ASSUME NEW t \in tree.nodes \ {Root}
        PROVE  /\ num_parent_gens'[t] <= Len(ParentGens(t)')
               /\ Seen(t)' => Seen(Parent(t))' /\ num_parent_gens'[t] = Len(ParentGens(t)')
    <3>0. /\ Parent(t) \in tree.nodes /\ Parent(t) # t /\ ParentGens(t) \in Seq(tree.auts)
          /\ Level(t) = 1 <=> Parent(t) = Root
      BY <1>0, ParentFacts, ParentGensType DEF GensInv
    <3>1. CASE t = a
      <4>1. ParentGens(t)' = ParentGens(t)
        BY <1>5, <3>0, <3>1 DEF ParentGens, Level, Parent
      <4>2. num_parent_gens'[t] = Len(ParentGens(t)')
        BY <1>6, <3>1, <4>1
      <4>3. Seen(Parent(t))'
        BY <1>2, <3>0, <3>1 DEF Parent, Seen
      <4> QED
        BY <1>4, <3>1, <4>1, <4>2, <4>3
    <3>2. CASE t # a /\ Parent(t) = a
      <4>1. ~Seen(t)'
        BY <1>2, <3>2 DEF GensInv, GensSeen
      <4>2. num_parent_gens'[t] = num_parent_gens[t] /\ num_parent_gens[t] \in Nat
            /\ num_parent_gens[t] <= Len(ParentGens(t))
        BY <1>0, <1>5, <3>2 DEF GensInv, GensSeen
      <4>3. Len(ParentGens(t)) <= Len(ParentGens(t)') /\ Len(ParentGens(t)') \in Nat
            /\ Len(ParentGens(t)) \in Nat
        <5>1. CASE Level(t) = 1
          <6>1. ParentGens(t) = gens /\ ParentGens(t)' = gens
            BY <5>1 DEF ParentGens, Level
          <6> QED
            BY <1>0, <6>1
        <5>2. CASE Level(t) # 1
          <6>1. ParentGens(t) = stab[a] /\ ParentGens(t)' = stab'[a] /\ a # Root
            BY <3>0, <3>2, <5>2 DEF ParentGens, Level, Parent
          <6>2. stab'[a] = stab[a] \o NewGens(a)
            BY <1>6, <6>1
          <6> QED
            BY <1>3, <1>7, <6>1, <6>2
        <5> QED
          BY <5>1, <5>2
      <4> QED
        BY <4>1, <4>2, <4>3
    <3>3. CASE t # a /\ Parent(t) # a
      <4>1. ParentGens(t)' = ParentGens(t)
        BY <1>5, <3>0, <3>3 DEF ParentGens, Level, Parent
      <4>2. Seen(Parent(t))' <=> Seen(Parent(t))
        BY <1>2, <3>0, <3>3 DEF Parent, Seen
      <4> QED
        BY <1>2, <1>5, <3>3, <4>1, <4>2 DEF GensInv, GensSeen
    <3> QED
      BY <3>1, <3>2, <3>3
  <2> QED
    BY <2>1, <2>2 DEF GensSeen, Seen, Parent, Root
<1>11. Symmetric'
  BY DEF GensInv, Symmetric
<1> QED
  BY <1>2, <1>8, <1>9, <1>10, <1>11 DEF GensInv

-----------------------------------------------------------------------------
(* tree_before_descend goes down from the highest node to update: those    *)
(* below have not seen all generators, the one above has, and the highest  *)
(* has once its generators are there to merge by.  They end in the node t  *)
(* that the traversal visits.                                              *)
OnTheWay(t, n) ==
  /\ t_path = UpPath(t, n)
  /\ \A i \in 1 .. n - 1 : ~Seen(Ancestor(t, Len(t) + 1 - i))
  /\ n <= Len(t) => Seen(Ancestor(t, Len(t) - n))
  /\ Seen(Ancestor(t, Len(t) + 1 - n)) <=> moves # {}

UpdatePathTo(t) ==
  /\ Idle => moves = {}
  /\ ~Idle => /\ gens # <<>> /\ t \in tree.nodes
              /\ \E n \in 1 .. Len(t) + 1 : OnTheWay(t, n)

(* What a generator maps to each other has subtrees that look the same, and*)
(* so have all children that are in one set.                               *)
MovesReal ==
  \A m \in moves : m[2] \in tree.nodes \ {Root} /\ Parent(m[2]) = Highest /\ SameBelow(m[2], m[3])

PrunerAt(t) ==
  /\ UpdatePathTo(t)
  /\ MovesReal
  /\ forest \in [tree.nodes -> tree.nodes]
  /\ \A c \in tree.nodes \ {Root} : SameBelow(c, forest[c])

LEMMA OnTheWayFacts ==
  ASSUME IsTree(tree), NEW t \in tree.nodes, NEW n \in 1 .. Len(t) + 1, t_path = UpPath(t, n)
  PROVE  /\ Highest = Ancestor(t, Len(t) + 1 - n) /\ Highest \in tree.nodes
         /\ Len(Highest) = Len(t) + 1 - n /\ Len(t) \in Nat
         /\ Front(t_path) = UpPath(t, n - 1)
         /\ Highest # Root => n <= Len(t) /\ Parent(Highest) = Ancestor(t, Len(t) - n)
         /\ \A i \in 1 .. n - 1 : /\ Ancestor(t, Len(t) + 1 - i) \in tree.nodes
                                  /\ Ancestor(t, Len(t) + 1 - i) # Highest
         /\ n <= Len(t) => /\ Ancestor(t, Len(t) - n) \in tree.nodes
                           /\ Ancestor(t, Len(t) - n) # Highest
<1>1. Len(t) \in Nat /\ Level(t) = Len(t)
  BY PathLength
<1> DEFINE l == Len(t) + 1 - n
<1>2. l \in 0 .. Level(t) /\ n \in 0 .. Len(t) + 1 /\ n > 0
  BY <1>1
<1>3. Highest = Ancestor(t, l) /\ Front(t_path) = UpPath(t, n - 1)
  BY <1>2, UpPathFacts DEF Highest
<1>4. \A k \in 0 .. Level(t) : Ancestor(t, k) \in tree.nodes /\ Level(Ancestor(t, k)) = k
  BY PathToAncestor
<1>5. Highest \in tree.nodes /\ Level(Highest) = l
  BY <1>2, <1>3, <1>4
<1>6. ASSUME Highest # Root
      PROVE  n <= Len(t) /\ Parent(Highest) = Ancestor(t, Len(t) - n)
  <2>1. l # 0
    <3> SUFFICES ASSUME l = 0 PROVE FALSE
      OBVIOUS
    <3>1. Highest \in Seq(Nat) /\ Len(Highest) = 0
      BY <1>5 DEF IsTree, Level
    <3> QED
      BY <1>6, <3>1 DEF Root
  <2>2. l > 0 /\ l - 1 = Len(t) - n /\ n <= Len(t)
    BY <1>1, <1>2, <2>1
  <2> HIDE DEF l
  <2> QED
    BY <1>2, <1>3, <2>2, PathToAncestor
<1>7. ASSUME NEW i \in 1 .. n - 1
      PROVE  /\ Ancestor(t, Len(t) + 1 - i) \in tree.nodes
             /\ Ancestor(t, Len(t) + 1 - i) # Highest
  <2>1. Len(t) + 1 - i \in 0 .. Level(t) /\ Len(t) + 1 - i # l
    BY <1>1
  <2> QED
    BY <1>4, <1>5, <2>1
<1>8. ASSUME n <= Len(t)
      PROVE  Ancestor(t, Len(t) - n) \in tree.nodes /\ Ancestor(t, Len(t) - n) # Highest
  <2>1. Len(t) - n \in 0 .. Level(t) /\ Len(t) - n # l
    BY <1>1, <1>8
  <2> QED
    BY <1>4, <1>5, <2>1
<1> QED
  BY <1>1, <1>3, <1>5, <1>6, <1>7, <1>8 DEF Level

(* The next node down.                                                     *)
LEMMA GoDown ==
  ASSUME IsTree(tree), NEW t \in tree.nodes, NEW n \in 1 .. Len(t) + 1, OnTheWay(t, n),
         t_path' = Front(t_path), moves' = {}, NEW a, a = Highest, Seen(a)',
         \A s \in tree.nodes : s # a => (Seen(s)' <=> Seen(s))
  PROVE  /\ n = 1 => Idle'
         /\ n # 1 => n - 1 \in 1 .. Len(t) + 1 /\ OnTheWay(t, n - 1)'
<1>1. /\ Highest = Ancestor(t, Len(t) + 1 - n) /\ Len(t) \in Nat
      /\ t_path' = UpPath(t, n - 1)
      /\ \A i \in 1 .. n - 1 : /\ Ancestor(t, Len(t) + 1 - i) \in tree.nodes
                               /\ Ancestor(t, Len(t) + 1 - i) # Highest
  BY OnTheWayFacts DEF OnTheWay
<1>2. ASSUME n = 1 PROVE Idle'
  <2>1. 0 \in 0 .. Len(t) + 1 /\ n - 1 = 0
    BY <1>1, <1>2
  <2> QED
    BY <1>1, <2>1, UpPathFacts DEF Idle
<1>3. ASSUME n # 1 PROVE n - 1 \in 1 .. Len(t) + 1 /\ OnTheWay(t, n - 1)'
  <2>1. n - 1 \in 1 .. Len(t) + 1 /\ n - 1 \in 1 .. n - 1 /\ Len(t) + 1 - (n - 1) = Len(t) - n + 2
        /\ Len(t) - (n - 1) = Len(t) + 1 - n
    BY <1>1, <1>3
  <2>2. \A i \in 1 .. n - 1 : ~Seen(Ancestor(t, Len(t) + 1 - i))'
    <3>1. ASSUME NEW i \in 1 .. n - 1 PROVE ~Seen(Ancestor(t, Len(t) + 1 - i))'
      <4>1. PICK s \in tree.nodes : s = Ancestor(t, Len(t) + 1 - i) /\ s # Highest
        BY <1>1
      <4>2. ~Seen(s)
        BY <4>1 DEF OnTheWay
      <4>3. ~Seen(s)'
        BY <4>1, <4>2
      <4> QED
        BY <4>1, <4>3 DEF Seen, Ancestor
    <3> QED
      BY <3>1
  <2>3. \A i \in 1 .. (n - 1) - 1 : i \in 1 .. n - 1
    BY <2>1
  <2>4. Seen(Ancestor(t, Len(t) - (n - 1)))'
    <3>1. a = Ancestor(t, Len(t) - (n - 1))
      BY <1>1, <2>1
    <3> QED
      BY <3>1 DEF Seen, Ancestor
  <2> QED
    BY <1>1, <2>1, <2>2, <2>3, <2>4 DEF OnTheWay, UpPath, Seen, Ancestor
<1> QED
  BY <1>2, <1>3

LEMMA InitPrunerAt ==
  ASSUME TreeInit, PrunerInit, NEW t
  PROVE  PrunerAt(t)
<1>1. t_path = <<>> /\ moves = {} /\ forest = [s \in tree.nodes |-> s] /\ Symmetric
  BY DEF PrunerInit, TreeInit, Symmetric
<1>2. UpdatePathTo(t) /\ MovesReal
  BY <1>1 DEF UpdatePathTo, MovesReal, Idle
<1> QED
  BY <1>1, <1>2, SameBelowSelf DEF PrunerAt

(* Between updates it does not matter which node that is.                  *)
LEMMA IdlePrunerAt ==
  ASSUME NEW t, PrunerAt(t), Idle, UNCHANGED <<tree, forest, t_path, moves>>, NEW u
  PROVE  PrunerAt(u)'
<1>1. moves' = {} /\ Idle'
  BY DEF PrunerAt, UpdatePathTo, Idle
<1> QED
  BY <1>1 DEF PrunerAt, UpdatePathTo, MovesReal, SameBelow, Parent, Root

LEMMA SamePrunerAt ==
  ASSUME NEW t, PrunerAt(t), UNCHANGED <<tree, gens, nodeGens, forest, t_path, moves>>
  PROVE  PrunerAt(t)'
<1>1. UNCHANGED <<tree, gens, num_base_gens, forest, t_path, moves>>
  BY DEF nodeGens
<1> QED
  BY <1>1 DEF PrunerAt, UpdatePathTo, MovesReal, OnTheWay, UpPath, Seen, Idle, SameBelow, Parent,
     Root, Ancestor, Highest

(* An update starts.                                                       *)
LEMMA StartPrunerAt ==
  ASSUME GensInv, NEW u, PrunerAt(u), Idle, NEW t \in tree.nodes,
         NeedUpdate(t), Start(t), tree' = tree
  PROVE  PrunerAt(t)' /\ ~Idle'
<1>0. IsTree(tree)
  BY SymmetricTree DEF GensInv
<1>1. PICK n \in 0 .. Len(t) + 1 :
        /\ NeedPath(t) = UpPath(t, n)
        /\ \A i \in 1 .. n : NeedUpdate(Ancestor(t, Len(t) + 1 - i))
        /\ n < Len(t) + 1 => ~NeedUpdate(Ancestor(t, Len(t) - n))
  BY <1>0, NeedPathIs
<1>2. /\ t_path' = UpPath(t, n) /\ moves' = {}
      /\ UNCHANGED <<gens, num_base_gens, forest>>
  BY <1>1 DEF Start, nodeGens, PrunerAt, UpdatePathTo
<1>3. Len(t) \in Nat /\ Level(t) = Len(t) /\ Ancestor(t, Len(t)) = t
  BY <1>0, PathLength, PathToAncestor
<1>4. n # 0
  <2> SUFFICES ASSUME n = 0 PROVE FALSE
    OBVIOUS
  <2>1. Len(t) - n = Len(t) /\ n < Len(t) + 1
    BY <1>3
  <2> QED
    BY <1>1, <1>3, <2>1
<1>5. n \in 1 .. Len(t) + 1 /\ n > 0
  BY <1>3, <1>4
<1>6. gens # <<>>
  BY DEF NeedUpdate
<1>7. OnTheWay(t, n)'
  <2>1. ASSUME NEW i \in 1 .. n PROVE ~Seen(Ancestor(t, Len(t) + 1 - i))
    BY <1>1 DEF NeedUpdate, Seen
  <2>2. ASSUME n <= Len(t) PROVE Seen(Ancestor(t, Len(t) - n))
    <3>1. n < Len(t) + 1
      BY <1>3, <1>5, <2>2
    <3> QED
      BY <1>1, <1>6, <3>1 DEF NeedUpdate, Seen
  <2>3. n \in 1 .. n /\ \A i \in 1 .. n - 1 : i \in 1 .. n
    BY <1>5
  <2> QED
    BY <1>2, <2>1, <2>2, <2>3 DEF OnTheWay, UpPath, Seen, Ancestor
<1>8. ~Idle'
  BY <1>2, <1>4, <1>0, UpPathFacts DEF Idle
<1>9. UpdatePathTo(t)'
  BY <1>2, <1>5, <1>6, <1>7, <1>8 DEF UpdatePathTo
<1>10. MovesReal'
  BY <1>2 DEF MovesReal
<1> QED
  BY <1>2, <1>8, <1>9, <1>10 DEF PrunerAt, SameBelow, Parent, Root

(* The highest node is updated.                                            *)
LEMMA HighestAt ==
  ASSUME GensInv, NEW t, UpdatePathTo(t), ~Idle
  PROVE  /\ t \in tree.nodes /\ gens # <<>>
         /\ \E n \in 1 .. Len(t) + 1 :
              /\ OnTheWay(t, n)
              /\ Highest \in tree.nodes /\ Highest = Ancestor(t, Len(t) + 1 - n)
              /\ Len(Highest) = Len(t) + 1 - n /\ Len(t) \in Nat
              /\ Highest # Root => Seen(Parent(Highest))
              /\ Seen(Highest) <=> moves # {}
<1>1. gens # <<>> /\ t \in tree.nodes
  BY DEF UpdatePathTo
<1>2. PICK n \in 1 .. Len(t) + 1 : OnTheWay(t, n)
  BY DEF UpdatePathTo
<1>3. IsTree(tree)
  BY SymmetricTree DEF GensInv
<1>4. /\ Highest = Ancestor(t, Len(t) + 1 - n) /\ Highest \in tree.nodes
      /\ Len(Highest) = Len(t) + 1 - n /\ Len(t) \in Nat
      /\ Highest # Root => /\ n <= Len(t)
                           /\ Parent(Highest) = Ancestor(t, Len(t) - n)
  BY <1>1, <1>2, <1>3, OnTheWayFacts DEF OnTheWay
<1>5. Highest # Root => Seen(Parent(Highest))
  BY <1>2, <1>4 DEF OnTheWay
<1>6. Seen(Highest) <=> moves # {}
  BY <1>2, <1>4 DEF OnTheWay
<1> QED
  BY <1>1, <1>2, <1>4, <1>5, <1>6

LEMMA MovesAreReal ==
  ASSUME GensInv, NEW a \in tree.nodes, NEW m \in Moves(a, NewGens(a))
  PROVE  m[2] \in tree.nodes \ {Root} /\ Parent(m[2]) = a /\ SameBelow(m[2], m[3])
<1>1. PICK i \in 1 .. Len(NewGens(a)), c \in Children(a) : m = <<i, c, Image(NewGens(a)[i], c)>>
  BY DEF Moves
<1>2. c \in tree.nodes \ {Root} /\ Parent(c) = a
  BY SymmetricTree DEF GensInv, Children, IsTree
<1>3. NewGens(a)[i] \in tree.auts /\ Image(NewGens(a)[i], a) = a
  BY NewGensFix DEF GensInv
<1> QED
  BY <1>1, <1>2, <1>3 DEF SameBelow

(* An update ends.                                                         *)
LEMMA StopPrunerAt ==
  ASSUME NEW t, PrunerAt(t), UNCHANGED <<tree, forest>>, t_path' = <<>>, moves' = {}
  PROVE  PrunerAt(t)'
<1>1. UpdatePathTo(t)' /\ MovesReal'
  BY DEF UpdatePathTo, MovesReal, Idle
<1> QED
  BY <1>1 DEF PrunerAt, SameBelow, Parent, Root

(* It goes on with the next node down.                                     *)
LEMMA NextPrunerAt ==
  ASSUME IsTree(tree), UNCHANGED <<tree, gens>>, gens # <<>>,
         forest' \in [tree.nodes -> tree.nodes],
         \A c \in tree.nodes \ {Root} : SameBelow(c, forest'[c]),
         NEW t \in tree.nodes, NEW n \in 1 .. Len(t) + 1, OnTheWay(t, n),
         t_path' = Front(t_path), moves' = {}, NEW a, a = Highest, Seen(a)',
         \A s \in tree.nodes : s # a => (Seen(s)' <=> Seen(s))
  PROVE  PrunerAt(t)'
<1>1. /\ n = 1 => Idle'
      /\ n # 1 => n - 1 \in 1 .. Len(t) + 1 /\ OnTheWay(t, n - 1)'
  BY GoDown
<1>2. UpdatePathTo(t)'
  <2>1. CASE n = 1
    BY <1>1, <2>1 DEF UpdatePathTo
  <2>2. CASE n # 1
    <3>1. PICK k \in 1 .. Len(t) + 1 : OnTheWay(t, k)'
      BY <1>1, <2>2
    <3> QED
      BY <3>1 DEF UpdatePathTo
  <2> QED
    BY <2>1, <2>2
<1>3. MovesReal'
  BY DEF MovesReal
<1> QED
  BY <1>2, <1>3 DEF PrunerAt, SameBelow, Parent, Root

LEMMA UpdatePrunerAt ==
  ASSUME GensInv, NEW t, PrunerAt(t), NEW held, Update(held)
  PROVE  GensInv' /\ PrunerAt(t)'
<1>1. PICK a : a = Highest
  OBVIOUS
<1>2. /\ ~Idle /\ moves = {}
      /\ UNCHANGED <<tree, gens, forest>>
  BY DEF Update, treeVars
<1>3. t \in tree.nodes /\ gens # <<>>
  BY <1>2, HighestAt DEF PrunerAt
<1>4. PICK n \in 1 .. Len(t) + 1 :
           /\ OnTheWay(t, n)
           /\ a \in tree.nodes
           /\ a # Root => Seen(Parent(a))
           /\ ~Seen(a)
  BY <1>1, <1>2, HighestAt DEF PrunerAt
<1>5. IsTree(tree) /\ pruner = "basic"
  BY SymmetricTree DEF GensInv
<1>6. CASE StopUpdate /\ UNCHANGED <<nodeGens, moves, chainVars>>
  <2>1. GensInv'
    BY <1>2, <1>6, SameGens DEF chainVars, setup
  <2>2. PrunerAt(t)'
    BY <1>2, <1>6, StopPrunerAt DEF StopUpdate
  <2> QED
    BY <2>1, <2>2
<1>7. CASE /\ BasicUpdate(a) /\ UNCHANGED chainVars
           /\ moves' = Moves(a, NewGens(a))
           /\ CASE NewGens(a) = <<>> /\ a # Root -> StopUpdate
                [] NewGens(a) = <<>> /\ a = Root -> NextUpdate
                [] NewGens(a) # <<>> /\ moves' = {} -> NextUpdate
                [] NewGens(a) # <<>> /\ moves' # {} -> SameUpdate
  <2>1. GensInv' /\ Seen(a)' /\ \A s \in tree.nodes : s # a => (Seen(s)' <=> Seen(s))
    <3>1. UNCHANGED <<tree, pruner, gens>>
      BY <1>2, <1>7 DEF chainVars, setup
    <3> QED
      BY <1>3, <1>4, <1>7, <3>1, UpdateGens
  <2>2. \/ StopUpdate /\ moves' = {}
        \/ NextUpdate /\ moves' = {}
        \/ SameUpdate /\ moves' # {}
    <3>1. ASSUME NewGens(a) = <<>> PROVE moves' = {}
      <4>1. Moves(a, <<>>) = {}
        BY DEF Moves
      <4> QED
        BY <1>7, <3>1, <4>1
    <3> QED
      BY <1>7, <3>1
  <2>3. CASE StopUpdate /\ moves' = {}
    BY <1>2, <2>1, <2>3, StopPrunerAt DEF StopUpdate
  <2>4. CASE NextUpdate /\ moves' = {}
    <3>1. /\ forest' \in [tree.nodes -> tree.nodes]
          /\ \A c \in tree.nodes \ {Root} : SameBelow(c, forest'[c])
      BY <1>2 DEF PrunerAt
    <3>2. t_path' = Front(t_path)
      BY <2>4 DEF NextUpdate
    <3>3. PrunerAt(t)'
      BY <1>1, <1>2, <1>3, <1>4, <1>5, <2>1, <2>4, <3>1, <3>2, NextPrunerAt
    <3> QED
      BY <2>1, <3>3
  <2>5. CASE SameUpdate /\ moves' # {}
    <3>1. /\ t_path = UpPath(t, n)
          /\ t_path' = t_path
          /\ Highest = Ancestor(t, Len(t) + 1 - n)
          /\ \A i \in 1 .. n - 1 : /\ Ancestor(t, Len(t) + 1 - i) \in tree.nodes
                                   /\ Ancestor(t, Len(t) + 1 - i) # Highest
          /\ n <= Len(t) => /\ Ancestor(t, Len(t) - n) \in tree.nodes
                            /\ Ancestor(t, Len(t) - n) # Highest
      BY <1>3, <1>4, <1>5, <2>5, OnTheWayFacts DEF SameUpdate, OnTheWay
    <3>2. \A s \in tree.nodes : s # a => (num_base_gens'[s] = Len(gens) <=> Seen(s))
      BY <1>2, <2>1 DEF Seen
    <3>3. num_base_gens'[a] = Len(gens)
      BY <1>2, <2>1 DEF Seen
    <3>4. \A i \in 1 .. n - 1 : num_base_gens'[Ancestor(t, Len(t) + 1 - i)] # Len(gens)
      BY <1>1, <1>4, <3>1, <3>2 DEF OnTheWay
    <3>5. n <= Len(t) => num_base_gens'[Ancestor(t, Len(t) - n)] = Len(gens)
      BY <1>1, <1>4, <3>1, <3>2 DEF OnTheWay
    <3>6. OnTheWay(t, n)'
      BY <1>1, <1>2, <2>5, <3>1, <3>3, <3>4, <3>5 DEF OnTheWay, UpPath, Seen, Ancestor
    <3>7. UpdatePathTo(t)'
      <4>1. ~Idle'
        BY <1>2, <3>1 DEF Idle
      <4> QED
        BY <1>2, <1>3, <3>6, <4>1 DEF UpdatePathTo
    <3>8. MovesReal'
      <4>1. Highest' = a
        BY <1>1, <3>1 DEF Highest
      <4>2. \A m \in moves' : m[2] \in tree.nodes \ {Root} /\ Parent(m[2]) = a /\ SameBelow(m[2], m[3])
        BY <1>4, <1>7, MovesAreReal
      <4> QED
        BY <1>2, <4>1, <4>2 DEF MovesReal, Parent, Root, SameBelow
    <3> QED
      BY <1>2, <2>1, <3>7, <3>8 DEF PrunerAt, SameBelow, Parent, Root
  <2> QED
    BY <2>1, <2>2, <2>3, <2>4, <2>5
<1> QED
  BY <1>1, <1>5, <1>6, <1>7 DEF Update, UpdateVisited, Returned

(* Two sets of children are merged.                                        *)
Absorbed(keep, other) == [b \in tree.nodes |-> IF forest[b] = other THEN keep ELSE forest[b]]

LEMMA AbsorbPruner ==
  ASSUME GensInv, NEW t, PrunerAt(t), NEW c \in tree.nodes \ {Root}, NEW d, SameBelow(c, d),
         NEW keep, NEW other,
         \/ keep = forest[c] /\ other = forest[d]
         \/ keep = forest[d] /\ other = forest[c]
  PROVE  /\ Absorbed(keep, other) \in [tree.nodes -> tree.nodes]
         /\ \A b \in tree.nodes \ {Root} : SameBelow(b, Absorbed(keep, other)[b])
<1>1. Symmetric /\ forest \in [tree.nodes -> tree.nodes]
      /\ \A b \in tree.nodes \ {Root} : SameBelow(b, forest[b])
  BY DEF GensInv, PrunerAt
<1>2. /\ d \in tree.nodes \ {Root} /\ forest[c] \in tree.nodes \ {Root}
      /\ forest[d] \in tree.nodes \ {Root}
  BY <1>1, SameBelowSiblings DEF Siblings
<1>3. SameBelow(forest[c], forest[d])
  <2>1. SameBelow(c, forest[d])
    BY <1>1, <1>2, SameBelowOn
  <2>2. SameBelow(forest[c], c)
    BY <1>1, SameBelowBack
  <2> QED
    BY <1>1, <1>2, <2>1, <2>2, SameBelowOn
<1>4. SameBelow(forest[d], forest[c])
  BY <1>1, <1>2, <1>3, SameBelowBack
<1>5. SameBelow(other, keep) /\ other \in tree.nodes \ {Root} /\ keep \in tree.nodes
  BY <1>2, <1>3, <1>4
<1>6. Absorbed(keep, other) \in [tree.nodes -> tree.nodes]
  BY <1>1, <1>5 DEF Absorbed
<1>7. ASSUME NEW b \in tree.nodes \ {Root} PROVE SameBelow(b, Absorbed(keep, other)[b])
  <2>1. CASE forest[b] = other
    <3>1. Absorbed(keep, other)[b] = keep
      BY <2>1 DEF Absorbed
    <3>2. SameBelow(b, other)
      BY <1>1, <2>1
    <3>3. SameBelow(b, keep)
      BY <1>1, <1>5, <3>2, SameBelowOn
    <3> QED
      BY <3>1, <3>3
  <2>2. CASE forest[b] # other
    <3>1. Absorbed(keep, other)[b] = forest[b]
      BY <2>2 DEF Absorbed
    <3> QED
      BY <1>1, <3>1
  <2> QED
    BY <2>1, <2>2
<1> QED
  BY <1>6, <1>7

LEMMA MergePrunerAt ==
  ASSUME GensInv, NEW t, PrunerAt(t), NEW held, Merge(held)
  PROVE  GensInv' /\ PrunerAt(t)'
<1>1. PICK a : a = Highest
  OBVIOUS
<1>2. PICK m \in moves :
        /\ LET r == forest[m[2]]
               s == forest[m[3]]
           IN \/ r = s /\ UNCHANGED <<treeVars, forest, gens, nodeGens, chainVars>>
              \/ r # s /\ \E keep \in {Keep(r, s, held)} :
                             \E other \in {r, s} \ {keep} : Absorb(keep, other)
        /\ moves' = moves \ {m}
        /\ IF moves' = {} THEN NextUpdate ELSE SameUpdate
  BY DEF Merge
<1>3. ~Idle /\ moves # {}
  BY <1>2 DEF Merge
<1>4. IsTree(tree) /\ pruner = "basic"
  BY SymmetricTree DEF GensInv
<1>5. /\ UNCHANGED <<tree, pruner, gens, nodeGens>>
      /\ forest' \in [tree.nodes -> tree.nodes]
      /\ \A c \in tree.nodes \ {Root} : SameBelow(c, forest'[c])
  <2>0. m[2] \in tree.nodes \ {Root} /\ SameBelow(m[2], m[3])
    BY <1>2 DEF PrunerAt, MovesReal
  <2>1. CASE UNCHANGED <<treeVars, forest, gens, nodeGens, chainVars>>
    BY <2>1 DEF treeVars, chainVars, setup, PrunerAt
  <2>2. ASSUME NEW keep, NEW other \in {forest[m[2]], forest[m[3]]} \ {keep}, Absorb(keep, other),
               keep \in {forest[m[2]], forest[m[3]]}
        PROVE  /\ UNCHANGED <<tree, pruner, gens, nodeGens>>
               /\ forest' \in [tree.nodes -> tree.nodes]
               /\ \A c \in tree.nodes \ {Root} : SameBelow(c, forest'[c])
    <3>1. /\ forest' = Absorbed(keep, other)
          /\ UNCHANGED <<tree, pruner, gens, nodeGens>>
      BY <1>4, <2>2 DEF Absorb, Absorbed, PruneSubtree, PruneVisited, chainVars, setup
    <3>2. \/ keep = forest[m[2]] /\ other = forest[m[3]]
          \/ keep = forest[m[3]] /\ other = forest[m[2]]
      BY <2>2
    <3>3. PICK c, d :
            /\ c \in tree.nodes \ {Root} /\ SameBelow(c, d)
            /\ \/ keep = forest[c] /\ other = forest[d]
               \/ keep = forest[d] /\ other = forest[c]
      BY <2>0, <3>2
    <3>4. /\ Absorbed(keep, other) \in [tree.nodes -> tree.nodes]
          /\ \A b \in tree.nodes \ {Root} : SameBelow(b, Absorbed(keep, other)[b])
      BY <3>3, AbsorbPruner
    <3> QED
      BY <3>1, <3>4
  <2>3. \A r, s : Keep(r, s, held) \in {r, s}
    BY DEF Keep
  <2> QED
    BY <1>2, <2>1, <2>2, <2>3
<1>6. GensInv' /\ \A s \in tree.nodes : Seen(s)' <=> Seen(s)
  BY <1>5, SameGens
<1>7. t \in tree.nodes /\ gens # <<>>
  BY <1>3, HighestAt DEF PrunerAt
<1>8. PICK n \in 1 .. Len(t) + 1 : OnTheWay(t, n) /\ a \in tree.nodes /\ Seen(a)
  BY <1>1, <1>3, HighestAt DEF PrunerAt
<1>9. CASE NextUpdate /\ moves' = {}
  <2>1. t_path' = Front(t_path)
    BY <1>9 DEF NextUpdate
  <2>2. Seen(a)' /\ \A s \in tree.nodes : s # a => (Seen(s)' <=> Seen(s))
    BY <1>6, <1>8
  <2>3. PrunerAt(t)'
    BY <1>1, <1>4, <1>5, <1>7, <1>8, <1>9, <2>1, <2>2, NextPrunerAt
  <2> QED
    BY <1>6, <2>3
<1>10. CASE SameUpdate /\ moves' # {}
  <2>1. t_path' = t_path /\ Highest' = Highest /\ ~Idle'
    BY <1>3, <1>10 DEF SameUpdate, Highest, Idle
  <2>2. UNCHANGED <<tree, gens, num_base_gens>>
    BY <1>5 DEF nodeGens
  <2>3. OnTheWay(t, n)'
    BY <1>3, <1>8, <1>10, <2>1, <2>2 DEF OnTheWay, UpPath, Seen, Ancestor
  <2>5. UpdatePathTo(t)'
    BY <1>7, <1>8, <2>1, <2>2, <2>3 DEF UpdatePathTo
  <2>6. MovesReal'
    BY <1>2, <2>1, <2>2 DEF PrunerAt, MovesReal, Parent, Root, SameBelow
  <2> QED
    BY <1>5, <1>6, <2>5, <2>6 DEF PrunerAt, SameBelow, Parent, Root
<1> QED
  BY <1>2, <1>9, <1>10

-----------------------------------------------------------------------------
(* An automorphism found at a leaf.                                         *)

(* The child that automorphism_leaf prunes is above the leaf, but not above*)
(* the candidate.                                                          *)
LEMMA BelowCommonIs ==
  ASSUME IsTree(tree), NEW t \in tree.nodes, canon_leaf \in tree.nodes, t # canon_leaf,
         IsLeaf(canon_leaf), Level(t) = Level(canon_leaf)
  PROVE  /\ ~Above(BelowCommon(t), canon_leaf)
         /\ \E j \in 1 .. Len(t) : BelowCommon(t) = Ancestor(t, j)
<1>1. PICK cl : cl = canon_leaf /\ cl \in tree.nodes /\ Len(cl) = Len(t) /\ Len(t) \in Nat
                /\ Level(t) = Len(t)
  BY PathLength DEF Level
<1> DEFINE S == {k \in 0 .. Len(t) : ~Above(Ancestor(t, k), cl)}
           splits(k) == Above(Ancestor(t, k), cl) /\ ~Above(Ancestor(t, k + 1), cl)
<1>2. Len(t) \in S
  <2>1. Ancestor(t, Len(t)) = t /\ Ancestor(cl, Len(cl)) = cl
    BY <1>1, PathToAncestor DEF Level
  <2>2. ~Above(t, cl)
    BY <1>1, <2>1, AboveFacts
  <2> QED
    BY <1>1, <2>1, <2>2
<1>3. PICK m \in S : \A k \in S : m <= k
  <2>0. S \in SUBSET Nat
    BY <1>1
  <2>1. S \in SUBSET Nat /\ S # {}
    BY <1>2, <2>0
  <2> HIDE DEF S
  <2> QED
    BY <2>1, LeastNatural
<1>4. m \in 0 .. Len(t) /\ ~Above(Ancestor(t, m), cl)
  BY <1>3
<1>5. m # 0
  <2> SUFFICES ASSUME m = 0 PROVE FALSE
    OBVIOUS
  <2>1. 0 \in 0 .. Len(t) /\ 0 \in 0 .. Len(cl)
    BY <1>1
  <2>2. /\ Ancestor(t, 0) \in tree.nodes /\ Len(Ancestor(t, 0)) = 0
        /\ Ancestor(cl, 0) \in tree.nodes /\ Len(Ancestor(cl, 0)) = 0
    BY <1>1, <2>1, PathToAncestor DEF Level
  <2>3. Ancestor(t, 0) = Ancestor(cl, 0)
    BY <2>2, SymmetricTree, EqualSequences DEF IsTree
  <2> QED
    BY <1>1, <1>4, <2>2, <2>3, AboveFacts
<1>6. m - 1 \in 0 .. Len(t) /\ m - 1 \in 0 .. Len(t) - 1 /\ ~(m <= m - 1) /\ (m - 1) + 1 = m
  BY <1>1, <1>4, <1>5
<1>7. splits(m - 1)
  <2>1. Above(Ancestor(t, m - 1), cl)
    BY <1>3, <1>6
  <2> QED
    BY <1>4, <1>6, <2>1
<1> DEFINE k0 == CHOOSE k \in 0 .. Len(t) - 1 : splits(k)
<1>8. k0 \in 0 .. Len(t) - 1 /\ splits(k0)
  <2> HIDE DEF splits
  <2> QED
    BY <1>6, <1>7
<1>9. BelowCommon(t) = Ancestor(t, k0 + 1)
  BY <1>1 DEF BelowCommon
<1>10. k0 + 1 \in 1 .. Len(t)
  BY <1>1, <1>8
<1> QED
  BY <1>1, <1>8, <1>9, <1>10

(* The automorphism that a leaf and the candidate give is one.             *)
LEMMA ExplicitIsReal ==
  ASSUME TreeInv, RecordInv, GensInv, NEW t \in tree.nodes, UpToDate(t), IsLeaf(t), FindsAutomorphism(t),
         cur # Root
  PROVE  /\ ExplicitAutomorphism(t) \in tree.auts
         /\ Image(ExplicitAutomorphism(t), canon_leaf) = t
         /\ canon_leaf \in tree.nodes /\ IsLeaf(canon_leaf) /\ Level(t) = Level(canon_leaf)
         /\ tree.cert[t] = tree.cert[canon_leaf] /\ tree.cert[t] \in Nat
<1>0. TreeInv /\ RecordInv /\ Symmetric
  BY DEF GensInv
<1>1. PICK cl : cl = canon_leaf
  OBVIOUS
<1>2. cl # NoNode /\ tree.cert[t] = tree.cert[cl] /\ canon_leaf # NoNode
  BY <1>1 DEF FindsAutomorphism, Reference
<1>3. cl \in tree.nodes
  BY <1>0, <1>1, <1>2 DEF TreeInv, ControlTypeOK
<1>4. IsLeaf(cl) /\ Level(cl) = max_level /\ PathRecorded(cl, max_level)
  BY <1>0, <1>1, <1>2 DEF RecordInv, CandidateOnRecord
<1>5. Level(t) = max_level /\ PathRecorded(t, max_level)
  BY <1>0, LeafIsDeepest
<1>6. /\ Len(t) = Len(cl) /\ Len(cl) \in Nat /\ max_level = Len(cl)
      /\ t \in LeavesOf(tree) /\ cl \in LeavesOf(tree)
  BY <1>0, <1>3, <1>4, <1>5, PathLength DEF Level, LeavesOf, IsLeaf, Children, TreeInv, Input
<1>7. SamePath(tree, cl, t, Len(cl))
  <2>1. ASSUME NEW i \in 1 .. Len(cl) PROVE PathElements(tree, cl, i) = PathElements(tree, t, i)
    <3>1. i \in 0 .. max_level
      BY <1>6
    <3> QED
      BY <1>4, <1>5, <3>1 DEF PathRecorded, OnPath
  <2> QED
    BY <2>1 DEF SamePath
<1>8. \E p \in tree.auts : Image(p, cl) = t
  <2>1. HasSymmetry(tree)
    BY <1>0, SymmetricTree
  <2> QED
    BY <1>2, <1>6, <1>7, <2>1 DEF HasSymmetry
<1>9. ExplicitAutomorphism(t) \in tree.auts /\ Image(ExplicitAutomorphism(t), cl) = t
  BY <1>1, <1>8 DEF ExplicitAutomorphism
<1>10. tree.cert[t] \in Nat
  BY <1>0 DEF TreeInv, Input, IsTree
<1> QED
  BY <1>1, <1>2, <1>3, <1>4, <1>5, <1>9, <1>10

LEMMA SubtreeSpares ==
  ASSUME NEW a, NEW also, PruneSubtree(a, also)
  PROVE  /\ \A s \in tree.nodes : \/ status'[s] = status[s]
                                  \/ status[s] = "live" /\ status'[s] = "pruned"
         /\ \A s \in tree.nodes : ~Above(a, s) => status'[s] = status[s]
         /\ UNCHANGED <<tree, node_gen, generations, cur>>
BY DEF PruneSubtree, dataVars, coordVars

-----------------------------------------------------------------------------
(* What is pruned never takes the candidate away.                          *)

(* The path from the candidate to the node that is updated, if it is one of*)
(* those above the candidate.                                              *)
CanonPath ==
  ~Idle /\ canon_leaf # NoNode /\ Above(Highest, canon_leaf) =>
    c_path = UpPath(canon_leaf, Len(canon_leaf) - Len(Highest) + 1)

LEMMA StartCanon ==
  ASSUME GensInv, canon_leaf \in tree.nodes \cup {NoNode}, Idle, NEW t \in tree.nodes,
         NeedUpdate(t), Start(t), canon_leaf' = canon_leaf
  PROVE  CanonPath'
<1> SUFFICES ASSUME canon_leaf # NoNode, Above(Highest', canon_leaf)
             PROVE  c_path' = UpPath(canon_leaf, Len(canon_leaf) - Len(Highest') + 1)
  BY DEF CanonPath, UpPath, Ancestor, Above
<1>1. PICK h, cl : h = Highest' /\ cl = canon_leaf
  OBVIOUS
<1>2. IsTree(tree) /\ cl \in tree.nodes
  BY <1>1, SymmetricTree DEF GensInv
<1>3. PICK n \in 0 .. Len(t) + 1 :
        /\ NeedPath(t) = UpPath(t, n)
        /\ \A i \in 1 .. n : NeedUpdate(Ancestor(t, Len(t) + 1 - i))
        /\ n < Len(t) + 1 => ~NeedUpdate(Ancestor(t, Len(t) - n))
  BY <1>2, NeedPathIs
<1>4. PICK k \in 0 .. Len(cl) + 1 :
        /\ NeedPath(cl) = UpPath(cl, k)
        /\ \A i \in 1 .. k : NeedUpdate(Ancestor(cl, Len(cl) + 1 - i))
        /\ k < Len(cl) + 1 => ~NeedUpdate(Ancestor(cl, Len(cl) - k))
  BY <1>2, NeedPathIs
<1>5. Len(t) \in Nat /\ Len(cl) \in Nat /\ Ancestor(t, Len(t)) = t
      /\ Level(t) = Len(t) /\ Level(cl) = Len(cl)
  BY <1>2, PathLength, PathToAncestor
<1>6. n # 0
  <2> SUFFICES ASSUME n = 0 PROVE FALSE
    OBVIOUS
  <2>1. Len(t) - n = Len(t) /\ n < Len(t) + 1
    BY <1>5
  <2> QED
    BY <1>3, <1>5, <2>1
<1>7. n \in 1 .. n /\ n > 0 /\ n \in 1 .. Len(t) + 1
  BY <1>5, <1>6
<1>8. t_path' = UpPath(t, n)
  BY <1>3 DEF Start
<1>9. h = Ancestor(t, Len(t) + 1 - n)
  BY <1>1, <1>2, <1>7, <1>8, UpPathFacts DEF Highest
<1>10. Len(t) + 1 - n \in 0 .. Len(t)
  BY <1>5, <1>7
<1>11. h \in tree.nodes /\ Len(h) = Len(t) + 1 - n /\ Len(h) \in Nat /\ NeedUpdate(h)
  <2>1. NeedUpdate(h)
    BY <1>3, <1>7, <1>9
  <2> QED
    BY <1>2, <1>5, <1>9, <1>10, <2>1, PathToAncestor DEF Level
<1>12. Len(h) <= Len(cl) /\ h = Ancestor(cl, Len(h)) /\ Len(h) \in 0 .. Len(cl)
  BY <1>1, <1>2, <1>5, <1>11, AboveFacts
<1> DEFINE a0 == Len(h)
           b0 == Len(t)
           c0 == Len(cl)
<1>20. /\ a0 \in Nat /\ b0 \in Nat /\ c0 \in Nat /\ k \in 0 .. c0 + 1 /\ n \in 0 .. b0 + 1
       /\ a0 = b0 + 1 - n /\ a0 <= c0 /\ n # 0
  BY <1>5, <1>6, <1>11, <1>12
<1> HIDE DEF a0, b0, c0
<1>21. /\ k <= c0 - a0 => c0 - k \in 0 .. c0 /\ k < c0 + 1 /\ a0 \in 0 .. c0 - k
       /\ k >= c0 - a0 + 2 =>
            /\ c0 - a0 + 2 \in 1 .. k /\ c0 + 1 - (c0 - a0 + 2) = a0 - 1 /\ a0 >= 1
            /\ n < b0 + 1 /\ b0 - n = a0 - 1 /\ a0 - 1 \in 0 .. a0
       /\ ~(k <= c0 - a0) /\ ~(k >= c0 - a0 + 2) =>
            k = c0 - a0 + 1 /\ k > 0 /\ k \in 0 .. c0 + 1 /\ c0 + 1 - k = a0
  BY <1>20
<1>13. ASSUME k <= Len(cl) - Len(h) PROVE FALSE
  <2> DEFINE a == Ancestor(cl, Len(cl) - k)
  <2>1. Len(cl) - k \in 0 .. Len(cl) /\ k < Len(cl) + 1 /\ Len(h) \in 0 .. Len(cl) - k
    BY <1>13, <1>21 DEF a0, c0
  <2>2. a \in tree.nodes /\ Len(a) = Len(cl) - k
    BY <1>2, <1>5, <2>1, PathToAncestor DEF Level
  <2>3. ~NeedUpdate(a)
    BY <1>4, <2>1
  <2> HIDE DEF a
  <2>4. Seen(a) /\ gens # <<>>
    BY <1>11, <2>3 DEF NeedUpdate, Seen
  <2>5. Seen(Ancestor(a, Len(h)))
    BY <2>1, <2>2, <2>4, SeenAbove
  <2>6. Ancestor(a, Len(h)) = h
    BY <1>2, <1>12, <2>1, AncestorOfAncestor DEF a
  <2> QED
    BY <1>11, <2>5, <2>6 DEF NeedUpdate, Seen
<1>14. ASSUME k >= Len(cl) - Len(h) + 2 PROVE FALSE
  <2>1. Len(cl) - Len(h) + 2 \in 1 .. k /\ Len(cl) + 1 - (Len(cl) - Len(h) + 2) = Len(h) - 1
        /\ Len(h) >= 1
    BY <1>14, <1>21 DEF a0, c0
  <2>2. NeedUpdate(Ancestor(cl, Len(h) - 1))
    BY <1>4, <2>1
  <2>3. n < Len(t) + 1 /\ Len(t) - n = Len(h) - 1 /\ Len(h) - 1 \in 0 .. Len(h)
    BY <1>14, <1>21 DEF a0, b0, c0
  <2>4. ~NeedUpdate(Ancestor(t, Len(h) - 1))
    BY <1>3, <2>3
  <2>5. Ancestor(t, Len(h) - 1) = Ancestor(h, Len(h) - 1)
    BY <1>2, <1>9, <1>10, <1>11, <2>3, AncestorOfAncestor
  <2>6. Ancestor(cl, Len(h) - 1) = Ancestor(h, Len(h) - 1)
    BY <1>2, <1>12, <2>3, AncestorOfAncestor
  <2> QED
    BY <2>2, <2>4, <2>5, <2>6
<1>15. k = Len(cl) - Len(h) + 1
  BY <1>13, <1>14, <1>21 DEF a0, c0
<1>16. k > 0 /\ k \in 0 .. Len(cl) + 1 /\ Len(cl) + 1 - k = Len(h)
  BY <1>13, <1>14, <1>21 DEF a0, c0
<1>17. UpPath(cl, k) # <<>> /\ Last(UpPath(cl, k)) = h
  BY <1>2, <1>12, <1>16, UpPathFacts
<1>18. Last(t_path') = h
  BY <1>1 DEF Highest
<1>19. c_path' = UpPath(cl, k)
  BY <1>1, <1>4, <1>17, <1>18 DEF Start
<1> QED
  BY <1>1, <1>15, <1>19

LEMMA IdleCanon == Idle' => CanonPath'
BY DEF CanonPath

(* It goes down with the update.                                           *)
LEMMA GoDownCanon ==
  ASSUME GensInv, canon_leaf \in tree.nodes \cup {NoNode}, NEW u, UpdatePathTo(u), CanonPath, ~Idle,
         UNCHANGED canon_leaf, NextUpdate
  PROVE  CanonPath'
<1> SUFFICES ASSUME ~Idle', canon_leaf # NoNode, Above(Highest', canon_leaf)
             PROVE  c_path' = UpPath(canon_leaf, Len(canon_leaf) - Len(Highest') + 1)
  BY DEF CanonPath, UpPath, Ancestor, Above
<1>1. PICK h, g, cl : h = Highest /\ g = Highest' /\ cl = canon_leaf
  OBVIOUS
<1>2. IsTree(tree) /\ cl \in tree.nodes
  BY <1>1, SymmetricTree DEF GensInv
<1>3. PICK t \in tree.nodes : \E n \in 1 .. Len(t) + 1 : OnTheWay(t, n)
  BY HighestAt
<1>4. PICK n \in 1 .. Len(t) + 1 : OnTheWay(t, n)
  BY <1>3
<1>5. /\ t_path = UpPath(t, n)
      /\ h = Ancestor(t, Len(t) + 1 - n) /\ h \in tree.nodes
      /\ Len(h) = Len(t) + 1 - n /\ Len(t) \in Nat /\ Front(t_path) = UpPath(t, n - 1)
  BY <1>1, <1>2, <1>4, OnTheWayFacts DEF OnTheWay
<1>6. t_path' = UpPath(t, n - 1)
  BY <1>5 DEF NextUpdate
<1>7. n # 1
  <2>1. 0 \in 0 .. Len(t) + 1
    BY <1>5
  <2>2. UpPath(t, 0) = <<>>
    BY <1>2, <2>1, UpPathFacts
  <2> QED
    BY <1>6, <2>2 DEF Idle
<1>8. n - 1 \in 0 .. Len(t) + 1 /\ n - 1 > 0 /\ Len(t) + 1 - (n - 1) \in 0 .. Len(t)
      /\ Len(t) + 1 - n \in 0 .. Len(t) + 1 - (n - 1)
      /\ Len(t) + 1 - n >= 0 /\ Len(t) + 1 - (n - 1) = Len(h) + 1
  <2>1. PICK b0 : b0 = Len(t)
    OBVIOUS
  <2>2. b0 \in Nat /\ n \in 1 .. b0 + 1 /\ n # 1 /\ Len(h) = b0 + 1 - n
    BY <1>4, <1>5, <1>7, <2>1
  <2>3. /\ n - 1 \in 0 .. b0 + 1 /\ n - 1 > 0 /\ b0 + 1 - (n - 1) \in 0 .. b0
        /\ b0 + 1 - n \in 0 .. b0 + 1 - (n - 1)
        /\ b0 + 1 - n >= 0 /\ b0 + 1 - (n - 1) = Len(h) + 1
    BY <2>2
  <2> QED
    BY <2>1, <2>3
<1>9. g = Ancestor(t, Len(t) + 1 - (n - 1))
  BY <1>1, <1>2, <1>6, <1>8, UpPathFacts DEF Highest
<1>10. g \in tree.nodes /\ Len(g) = Len(h) + 1 /\ Len(h) \in Nat
  BY <1>2, <1>5, <1>8, <1>9, PathLength, PathToAncestor DEF Level
<1>11. h = Ancestor(g, Len(h)) /\ Len(h) \in 0 .. Len(g)
  BY <1>2, <1>5, <1>8, <1>9, <1>10, AncestorOfAncestor
<1>12. Len(g) <= Len(cl) /\ g = Ancestor(cl, Len(g)) /\ Len(cl) \in Nat /\ Len(g) \in 0 .. Len(cl)
  BY <1>1, <1>2, <1>10, AboveFacts
<1>13. Above(h, cl)
  <2>1. h = Ancestor(cl, Len(h)) /\ Len(h) <= Len(cl)
    BY <1>2, <1>10, <1>11, <1>12, AncestorOfAncestor
  <2> QED
    BY <1>2, <1>5, <2>1, AboveFacts
<1> DEFINE k == Len(cl) - Len(h) + 1
<1>14. c_path = UpPath(cl, k)
  BY <1>1, <1>13 DEF CanonPath
<1>15. k \in 0 .. Len(cl) + 1 /\ k > 0 /\ k - 1 = Len(cl) - Len(g) + 1
  BY <1>10, <1>12
<1> HIDE DEF k
<1>16. c_path # <<>> /\ Front(c_path) = UpPath(cl, k - 1)
  BY <1>2, <1>14, <1>15, UpPathFacts
<1>17. c_path' = UpPath(cl, k - 1)
  BY <1>16 DEF NextUpdate
<1> QED
  BY <1>1, <1>15, <1>17

LEMMA UpdateCanon ==
  ASSUME GensInv, canon_leaf \in tree.nodes \cup {NoNode}, NEW u, UpdatePathTo(u), CanonPath, ~Idle,
         UNCHANGED canon_leaf, StopUpdate \/ NextUpdate \/ SameUpdate
  PROVE  CanonPath'
<1>1. CASE StopUpdate
  BY <1>1, IdleCanon DEF StopUpdate, Idle
<1>2. CASE SameUpdate
  BY <1>2 DEF SameUpdate, CanonPath, Idle, Highest, UpPath, Ancestor, Above
<1> QED
  BY <1>1, <1>2, GoDownCanon

(* Of the two sets, the one that is given up is not the candidate's.       *)
LEMMA OtherIsNotAbove ==
  ASSUME GensInv, canon_leaf \in tree.nodes, NoNode \notin tree.nodes, NEW u, UpdatePathTo(u),
         CanonPath, ~Idle, NEW held,
         NEW r \in tree.nodes \ {Root}, Parent(r) = Highest,
         NEW s \in tree.nodes \ {Root}, Parent(s) = Highest,
         NEW keep, keep = Keep(r, s, held), NEW other \in {r, s} \ {keep}
  PROVE  ~Above(other, canon_leaf)
<1> SUFFICES ASSUME Above(other, canon_leaf) PROVE FALSE
  OBVIOUS
<1>1. PICK h, cl : h = Highest /\ cl = canon_leaf
  OBVIOUS
<1>2. IsTree(tree) /\ cl \in tree.nodes /\ h \in tree.nodes
  BY <1>1, SymmetricTree, HighestAt DEF GensInv
<1>3. other \in tree.nodes /\ other # Root /\ Parent(other) = h
  BY <1>1
<1>4. Level(h) = Level(other) - 1 /\ h = Ancestor(other, Level(other) - 1)
      /\ Level(other) - 1 \in 0 .. Level(other)
  BY <1>2, <1>3, ParentFacts, ParentIsAncestor
<1>5. Len(h) = Len(other) - 1 /\ Len(h) \in 0 .. Len(other) /\ h = Ancestor(other, Len(h))
      /\ Len(h) \in Nat /\ Len(other) \in Nat /\ Len(cl) \in Nat
  BY <1>2, <1>3, <1>4, PathLength
<1>6. Len(other) <= Len(cl) /\ other = Ancestor(cl, Len(other)) /\ Len(other) \in 0 .. Len(cl)
  BY <1>1, <1>2, <1>3, <1>5, AboveFacts
<1>7. Above(h, cl)
  <2>1. h = Ancestor(cl, Len(h)) /\ Len(h) <= Len(cl)
    BY <1>2, <1>5, <1>6, AncestorOfAncestor
  <2> QED
    BY <1>2, <2>1, AboveFacts
<1> DEFINE k == Len(cl) - Len(h) + 1
<1>8. c_path = UpPath(cl, k)
  BY <1>1, <1>7 DEF CanonPath
<1>9. k \in 0 .. Len(cl) + 1 /\ k > 0 /\ k - 1 \in 1 .. k /\ Len(cl) + 1 - k = Len(h)
      /\ Len(cl) + 1 - (k - 1) = Len(other)
  BY <1>5, <1>6
<1> HIDE DEF k
<1>10. /\ c_path # <<>> /\ Last(c_path) = Ancestor(cl, Len(h)) /\ Len(c_path) = k
       /\ c_path[k - 1] = Ancestor(cl, Len(other))
  <2>1. /\ Len(UpPath(cl, k)) = k /\ UpPath(cl, k) # <<>>
        /\ UpPath(cl, k)[k - 1] = Ancestor(cl, Len(cl) + 1 - (k - 1))
        /\ Last(UpPath(cl, k)) = Ancestor(cl, Len(cl) + 1 - k)
    BY <1>2, <1>9, UpPathFacts
  <2> QED
    BY <1>8, <1>9, <2>1
<1>11. Ancestor(cl, Len(h)) = h
  BY <1>2, <1>5, <1>6, AncestorOfAncestor
<1>12. CanonChild = other
  BY <1>1, <1>6, <1>10, <1>11 DEF CanonChild
<1>13. keep = other
  BY <1>12 DEF Keep
<1> QED
  BY <1>13

-----------------------------------------------------------------------------
(* The types of what the pruner keeps.                                     *)

(* aut_pruner_basic has no chains, but some of what is kept of them is     *)
(* also assigned without.                                                  *)

ChainsTyped ==
  /\ implicit \in BOOLEAN /\ pruner \in tree.pruners
  /\ trans \in [tree.nodes -> Seq(tree.auts)]
  /\ num_base_chain \in [tree.nodes -> Nat]
  /\ num_reported \in [tree.nodes -> Nat]
  /\ chain_child \in [tree.nodes -> tree.nodes \cup {NoNode}]
  /\ main_chain \subseteq tree.nodes
PathsTyped == t_path \in Seq(tree.nodes) /\ c_path \in Seq(tree.nodes)
MovesTyped == moves \subseteq Nat \X tree.nodes \X tree.nodes
ToldTyped == told \in BOOLEAN
WalkTyped == PathsTyped /\ MovesTyped /\ ToldTyped

(* How the basic pruner changes them.                                      *)
ChainsStep ==
  UNCHANGED <<setup, trans, num_base_chain, num_reported, chain_child>> /\ main_chain' \subseteq main_chain
WalkStep ==
  /\ told' \in {told, TRUE, FALSE}
  /\ \/ UNCHANGED <<t_path, c_path, moves>>
     \/ UNCHANGED moves /\ \E t \in tree.nodes : Start(t)
     \/ /\ StopUpdate \/ NextUpdate \/ SameUpdate
        /\ moves' \subseteq moves \/ moves' = Moves(Highest, NewGens(Highest))
        /\ ~Idle

LEMMA ConstructionTyped ==
  ASSUME pruner = "basic", NEW held, Constructing \/ AutomorphismImplicit(held) \/ NodeFinished
  PROVE  ChainsStep /\ WalkStep
<1>0. pruner # "schreier"
  OBVIOUS
<1>1. CASE Constructing
  BY <1>0, <1>1 DEF Constructing, Discarded, PointAt, CanonPrune, prunerVars, setup, ChainsStep,
     WalkStep
<1>2. CASE AutomorphismImplicit(held)
  <2>1. PICK p \in tree.auts : AddAutomorphism(p, Holders(held))
    BY <1>2 DEF AutomorphismImplicit
  <2>2. UNCHANGED <<chainVars, t_path, c_path, moves>>
    BY <1>0, <2>1 DEF AddAutomorphism
  <2>3. told' = TRUE
    BY <1>2 DEF AutomorphismImplicit
  <2> QED
    BY <2>2, <2>3 DEF chainVars, setup, ChainsStep, WalkStep
<1>3. CASE NodeFinished
  BY <1>0, <1>3 DEF NodeFinished, PointAt, prunerVars, setup, ChainsStep, WalkStep
<1> QED
  BY <1>1, <1>2, <1>3

LEMMA DescentTyped ==
  ASSUME pruner = "basic", NEW t \in tree.nodes, BeforeDescend(t)
  PROVE  ChainsStep /\ WalkStep
<1>1. \/ UNCHANGED <<chainVars, t_path, c_path, moves, told>>
      \/ Start(t)
  BY DEF BeforeDescend, PruneVisited, prunerVars
<1>2. Start(t) => UNCHANGED <<chainVars, moves, told>>
  BY DEF Start
<1> QED
  BY <1>1, <1>2 DEF chainVars, setup, ChainsStep, WalkStep

LEMMA UpdateTyped ==
  ASSUME pruner = "basic", NEW held, Update(held) \/ Merge(held)
  PROVE  ChainsStep /\ WalkStep
<1>0. pruner # "schreier"
  OBVIOUS
<1>1. CASE Update(held)
  <2>1. /\ StopUpdate \/ NextUpdate \/ SameUpdate
        /\ UNCHANGED chainVars
        /\ moves' \subseteq moves \/ moves' = Moves(Highest, NewGens(Highest))
    BY <1>0, <1>1 DEF Update, UpdateVisited, Returned
  <2>2. told' = told /\ ~Idle
    BY <1>1 DEF Update
  <2> QED
    BY <2>1, <2>2 DEF chainVars, setup, ChainsStep, WalkStep
<1>2. CASE Merge(held)
  <2>1. /\ NextUpdate \/ SameUpdate
        /\ UNCHANGED chainVars
        /\ moves' \subseteq moves
    BY <1>0, <1>2 DEF Merge, Absorb, PruneVisited
  <2>2. told' = told /\ ~Idle
    BY <1>2 DEF Merge
  <2> QED
    BY <2>1, <2>2 DEF chainVars, setup, ChainsStep, WalkStep
<1> QED
  BY <1>1, <1>2

LEMMA BeginTyped ==
  ASSUME NEW t, CountChild(t)
  PROVE  ChainsStep /\ WalkStep
BY DEF CountChild, chainVars, setup, ChainsStep, WalkStep

LEMMA ReportTyped ==
  ASSUME pruner = "basic", NEW t, NEW held, ReportVisited(t, held)
  PROVE  ChainsStep /\ WalkStep
<1>1. UNCHANGED <<chainVars, t_path, c_path, moves, told>>
  BY DEF ReportVisited, AutomorphismLeaf, AddAutomorphism, prunerVars
<1> QED
  BY <1>1 DEF chainVars, setup, ChainsStep, WalkStep

LEMMA NothingTyped ==
  ASSUME UNCHANGED <<prunerVars, chainVars>>
  PROVE  ChainsStep /\ WalkStep
BY DEF prunerVars, chainVars, setup, ChainsStep, WalkStep

LEMMA FrontType ==
  ASSUME NEW S, NEW s \in Seq(S)
  PROVE  Front(s) \in Seq(S)
<1>1. Len(s) \in Nat
  BY LenNat
<1>2. CASE Len(s) = 0
  BY <1>1, <1>2 DEF Front
<1>3. CASE Len(s) # 0
  <2>1. Len(s) - 1 \in Nat /\ Len(s) - 1 <= Len(s)
    BY <1>1, <1>3
  <2> QED
    BY <2>1, Prefix DEF Front
<1> QED
  BY <1>2, <1>3

LEMMA TypedStep ==
  ASSUME GensInv, canon_leaf \in tree.nodes \cup {NoNode}, NEW u, PrunerAt(u), tree' = tree,
         ChainsTyped, WalkTyped, ChainsStep, WalkStep
  PROVE  ChainsTyped' /\ WalkTyped'
<1>1. /\ IsTree(tree) /\ Symmetric /\ NoNode \notin tree.nodes /\ UpdatePathTo(u)
  BY SymmetricTree, NoNodeAssumption DEF GensInv, Symmetric, PrunerAt
<1>2. ChainsTyped /\ WalkTyped /\ ChainsStep /\ WalkStep
  OBVIOUS
<1>3. tree' = tree
  OBVIOUS
<1>4. ChainsTyped'
  BY <1>2, <1>3 DEF ChainsTyped, ChainsStep, setup
<1>5. ToldTyped'
  <2>1. told' \in {told, TRUE, FALSE}
    BY <1>2, Zenon DEF WalkStep
  <2>2. told \in BOOLEAN
    BY <1>2, Zenon DEF WalkTyped, ToldTyped
  <2> QED
    BY <2>1, <2>2, Zenon DEF ToldTyped
<1>6. CASE UNCHANGED <<t_path, c_path, moves>>
  <2>1. PathsTyped'
    BY <1>2, <1>3, <1>6 DEF WalkTyped, PathsTyped
  <2>2. MovesTyped'
    BY <1>2, <1>3, <1>6 DEF WalkTyped, MovesTyped
  <2> QED
    BY <1>4, <1>5, <2>1, <2>2 DEF WalkTyped
<1>7. CASE UNCHANGED moves /\ \E t \in tree.nodes : Start(t)
  <2>1. PICK t \in tree.nodes : Start(t)
    BY <1>7
  <2>2. ASSUME NEW s \in tree.nodes PROVE NeedPath(s) \in Seq(tree.nodes)
    <3>1. PICK n \in 0 .. Len(s) + 1 : NeedPath(s) = UpPath(s, n)
      BY <1>1, NeedPathIs
    <3>2. UpPath(s, n) \in Seq(tree.nodes)
      BY <1>1, UpPathFacts
    <3> QED
      BY <3>1, <3>2
  <2>3. t_path' \in Seq(tree.nodes) /\ c_path' \in {<<>>, NeedPath(canon_leaf)}
        /\ (canon_leaf = NoNode => c_path' = <<>>)
    BY <2>1, <2>2 DEF Start
  <2>4. c_path' \in Seq(tree.nodes)
    <3>0. <<>> \in Seq(tree.nodes)
      OBVIOUS
    <3>1. CASE canon_leaf = NoNode
      BY <2>3, <3>0, <3>1
    <3>2. CASE canon_leaf \in tree.nodes
      <4>1. NeedPath(canon_leaf) \in Seq(tree.nodes)
        BY <2>2, <3>2
      <4> QED
        BY <2>3, <3>0, <4>1
    <3> QED
      BY <1>1, <3>1, <3>2
  <2>5. PathsTyped'
    BY <1>3, <2>3, <2>4 DEF PathsTyped
  <2>6. MovesTyped'
    BY <1>2, <1>3, <1>7 DEF WalkTyped, MovesTyped
  <2> QED
    BY <1>4, <1>5, <2>5, <2>6 DEF WalkTyped
<1>8. CASE /\ StopUpdate \/ NextUpdate \/ SameUpdate
           /\ moves' \subseteq moves \/ moves' = Moves(Highest, NewGens(Highest))
           /\ ~Idle
  <2>1. t_path' \in Seq(tree.nodes) /\ c_path' \in Seq(tree.nodes)
    <3>1. Front(t_path) \in Seq(tree.nodes) /\ Front(c_path) \in Seq(tree.nodes)
      BY <1>2, FrontType DEF WalkTyped, PathsTyped
    <3>2. <<>> \in Seq(tree.nodes)
      OBVIOUS
    <3> QED
      BY <1>2, <1>8, <3>1, <3>2 DEF WalkTyped, PathsTyped, StopUpdate, NextUpdate, SameUpdate
  <2>2. moves' \subseteq Nat \X tree.nodes \X tree.nodes
    <3>1. CASE moves' \subseteq moves
      BY <1>2, <3>1 DEF WalkTyped, MovesTyped
    <3>2. CASE moves' = Moves(Highest, NewGens(Highest))
      <4>1. PICK h : h = Highest
        OBVIOUS
      <4>2. h \in tree.nodes
        BY <1>1, <1>8, <4>1, HighestAt
      <4>3. PICK new : new = NewGens(h)
        OBVIOUS
      <4>4. Len(new) \in Nat /\ \A i \in 1 .. Len(new) : i \in Nat /\ new[i] \in tree.auts
        BY <1>1, <4>2, <4>3, NewGensFix, LenNat DEF GensInv
      <4>5. \A c \in Children(h) : c \in tree.nodes
        BY <1>1, <4>2, ChildrenAreNodes
      <4>6. \A i \in 1 .. Len(new), c \in Children(h) : Image(new[i], c) \in tree.nodes
        BY <1>1, <4>4, <4>5, ImageFacts
      <4> QED
        BY <3>2, <4>1, <4>3, <4>4, <4>5, <4>6 DEF Moves
    <3> QED
      BY <1>8, <3>1, <3>2
  <2>3. PathsTyped'
    BY <1>3, <2>1 DEF PathsTyped
  <2>4. MovesTyped'
    BY <1>3, <2>2 DEF MovesTyped
  <2> QED
    BY <1>4, <1>5, <2>3, <2>4 DEF WalkTyped
<1> QED
  BY <1>2, <1>4, <1>6, <1>7, <1>8 DEF WalkStep

LEMMA StartsTyped ==
  ASSUME PrunerInit
  PROVE  ChainsTyped /\ WalkTyped
<1>2. /\ trans = [t \in tree.nodes |-> <<>>] /\ main_chain = {}
      /\ num_base_chain = [t \in tree.nodes |-> 0] /\ num_reported = [t \in tree.nodes |-> 0]
      /\ chain_child = [t \in tree.nodes |-> NoNode]
      /\ pruner \in tree.pruners /\ implicit \in BOOLEAN
      /\ t_path = <<>> /\ c_path = <<>> /\ moves = {} /\ told = FALSE
  BY DEF PrunerInit, SchreierInit
<1>3. ChainsTyped
  BY <1>2 DEF ChainsTyped
<1>4. WalkTyped
  <2>1. PathsTyped
    BY <1>2 DEF PathsTyped
  <2>2. MovesTyped
    BY <1>2 DEF MovesTyped
  <2>3. ToldTyped
    BY <1>2, Zenon DEF ToldTyped
  <2> QED
    BY <2>1, <2>2, <2>3 DEF WalkTyped
<1> QED
  BY <1>3, <1>4

-----------------------------------------------------------------------------
(* The candidate is alive, and not of a trace that has been replaced.      *)

CandLive ==
  canon_leaf # NoNode =>
    /\ status[canon_leaf] = "live"
    /\ (canon_leaf # Root => node_gen[canon_leaf] >= generations[Level(canon_leaf)])

LEMMA CandKept ==
  ASSUME CandLive, UNCHANGED <<tree, node_gen, generations>>, canon_leaf' \in {canon_leaf, NoNode},
         canon_leaf' # NoNode => status'[canon_leaf] = status[canon_leaf]
  PROVE  CandLive'
BY DEF CandLive, Level, Root

LEMMA CandSame ==
  ASSUME CandLive, UNCHANGED treeVars
  PROVE  CandLive'
BY DEF CandLive, Level, Root, treeVars, dataVars, coordVars, leafVars

LEMMA CandInConstruction ==
  ASSUME TreeInv, CandLive, Construct
  PROVE  CandLive'
<1>1. /\ tree' = tree /\ cur # NoNode /\ generations' = generations
      /\ canon_leaf' \in {canon_leaf, NoNode}
      /\ status' \in {status, [status EXCEPT ![cur] = "pruned"]}
      /\ canon_leaf' = NoNode \/ node_gen' = node_gen
  <2>1. ASSUME EmitBetterByVisitor \/ EmitBetterByValue
        PROVE  /\ tree' = tree /\ cur # NoNode /\ generations' = generations
               /\ canon_leaf' = NoNode /\ status' = status
    <3>1. PICK k, tr : Better(cur, k, tr)
      BY <2>1 DEF EmitBetterByVisitor, EmitBetterByValue
    <3>2. cur # NoNode
      BY <2>1 DEF EmitBetterByVisitor, EmitBetterByValue, SameVisitor, Emitting
    <3> QED
      BY <3>1, <3>2 DEF Better, PruneCanonLeaf
  <2>2. ASSUME EmitWorseVisitor \/ EmitWorseValue \/ CreateShort
        PROVE  /\ tree' = tree /\ cur # NoNode /\ generations' = generations
               /\ canon_leaf' = canon_leaf /\ status' = [status EXCEPT ![cur] = "pruned"]
               /\ node_gen' = node_gen
    <3>1. Discard(cur) /\ cur # NoNode
      BY <2>2 DEF EmitWorseVisitor, EmitWorseValue, CreateShort, SameVisitor, Emitting, Emitted
    <3> QED
      BY <3>1 DEF Discard, coordVars, leafVars
  <2>3. ASSUME EmitExtending \/ EmitSame
        PROVE  /\ tree' = tree /\ cur # NoNode /\ generations' = generations
               /\ canon_leaf' = canon_leaf /\ status' = status
               /\ node_gen' = node_gen
    BY <2>3 DEF EmitExtending, EmitSame, SameVisitor, Emitting, leafVars, coordVars
  <2> QED
    BY <2>1, <2>2, <2>3 DEF Construct
<1>2. cur \in tree.nodes /\ status[cur] = "constructing" /\ ControlTypeOK
  BY <1>1 DEF TreeInv, ControlTypeOK
<1>3. ASSUME canon_leaf' # NoNode
      PROVE  canon_leaf' = canon_leaf /\ node_gen' = node_gen /\ status'[canon_leaf] = status[canon_leaf]
  <2>1. canon_leaf' = canon_leaf /\ canon_leaf # NoNode /\ node_gen' = node_gen
    BY <1>1, <1>3
  <2>2. canon_leaf \in tree.nodes /\ canon_leaf # cur
    BY <1>2, <2>1 DEF CandLive, ControlTypeOK
  <2>3. status'[canon_leaf] = status[canon_leaf]
    BY <1>1, <1>2, <2>2 DEF ControlTypeOK
  <2> QED
    BY <2>1, <2>3
<1>4. CASE canon_leaf' = NoNode
  BY <1>4 DEF CandLive
<1>5. CASE canon_leaf' # NoNode
  <2>1. UNCHANGED <<tree, node_gen, generations>>
    BY <1>1, <1>3, <1>5
  <2> QED
    BY <1>3, <1>5, <2>1, CandKept
<1> QED
  BY <1>4, <1>5

LEMMA CandAtFinish ==
  ASSUME TreeInv, RecordInv, CandLive, CreateLive, GenerationFits
  PROVE  CandLive'
<1>1. /\ tree' = tree /\ cur # NoNode /\ status' = [status EXCEPT ![cur] = "live"]
      /\ generations' = [generations EXCEPT ![Level(cur)] = Narrow(LevelGeneration(cur))]
      /\ UNCHANGED <<node_gen, canon_leaf>>
  BY DEF CreateLive, Emitted, dataVars, leafVars
<1>2. cur \in tree.nodes /\ status[cur] = "constructing" /\ IsTree(tree) /\ ControlTypeOK
  BY <1>1 DEF TreeInv, Input, ControlTypeOK
<1>3. CASE canon_leaf = NoNode
  BY <1>1, <1>3 DEF CandLive
<1>4. CASE canon_leaf # NoNode
  <2>1. canon_leaf \in tree.nodes /\ canon_leaf # cur
    BY <1>2, <1>4 DEF CandLive, ControlTypeOK
  <2>2. ~IsExtending(cur) /\ cur # Root
    BY <1>1, <1>4, NoCandidateWhileExtending DEF IsExtending
  <2>3. /\ LevelGeneration(cur) = generations[Level(cur)] /\ Level(cur) \in Levels
        /\ generations[Level(cur)] \in Nat /\ generations[Level(cur)] <= generation
        /\ generation \in Nat
    <3>1. Level(cur) \in Levels
      BY <1>2, PathLength
    <3> QED
      BY <1>1, <1>2, <2>2, <3>1 DEF TreeInv, GenerationsBounded, LevelGeneration, ControlTypeOK
  <2>4. Narrow(LevelGeneration(cur)) = generations[Level(cur)]
    BY <2>3, SizeTypeAssumption DEF GenerationFits, Narrow
  <2>5. generations' = generations
    BY <1>1, <1>2, <2>3, <2>4 DEF ControlTypeOK
  <2>6. status'[canon_leaf] = status[canon_leaf]
    BY <1>1, <1>2, <2>1 DEF ControlTypeOK
  <2> QED
    BY <1>1, <2>5, <2>6, CandKept
<1> QED
  BY <1>3, <1>4

LEMMA CandAtBegin ==
  ASSUME TreeInv, CandLive, NEW c \in tree.nodes, status[c] = "absent", CreateBegin(c)
  PROVE  CandLive'
<1>1. /\ tree' = tree /\ status' = [status EXCEPT ![c] = "constructing"]
      /\ node_gen' = [node_gen EXCEPT ![c] = BeginGeneration(c)]
      /\ UNCHANGED <<generations, canon_leaf>> /\ ControlTypeOK
  BY DEF CreateBegin, coordVars, leafVars, TreeInv
<1>2. CASE canon_leaf = NoNode
  BY <1>1, <1>2 DEF CandLive
<1>3. CASE canon_leaf # NoNode
  <2>1. canon_leaf \in tree.nodes /\ canon_leaf # c
    BY <1>1, <1>3 DEF CandLive, ControlTypeOK
  <2>2. status'[canon_leaf] = status[canon_leaf] /\ node_gen'[canon_leaf] = node_gen[canon_leaf]
    BY <1>1, <2>1 DEF ControlTypeOK
  <2> QED
    BY <1>1, <1>3, <2>2 DEF CandLive, Level, Root
<1> QED
  BY <1>2, <1>3

(* It is given up with the subtree that is pruned, or it is not below.     *)
LEMMA CandVisited ==
  ASSUME TreeInv, CandLive, NEW t, BeforeDescend(t)
  PROVE  CandLive'
<1>1. CASE Outdated(t) /\ PruneSubtree(t, {}) /\ PruneCanonLeafBelow(t)
  <2>1. /\ \A s \in tree.nodes : ~Above(t, s) => status'[s] = status[s]
        /\ UNCHANGED <<tree, node_gen, generations>>
    BY <1>1, SubtreeSpares
  <2>2. canon_leaf' \in {canon_leaf, NoNode}
        /\ (canon_leaf' # NoNode => canon_leaf \notin tree.nodes \/ ~Above(t, canon_leaf))
    BY <1>1 DEF PruneCanonLeafBelow, PruneCanonLeaf
  <2>3. canon_leaf \in tree.nodes \cup {NoNode}
    BY DEF TreeInv, ControlTypeOK
  <2> QED
    BY <2>1, <2>2, <2>3, CandKept
<1>2. CASE UNCHANGED treeVars
  BY <1>2, CandSame
<1> QED
  BY <1>1, <1>2 DEF BeforeDescend

LEMMA CandReported ==
  ASSUME TreeInv, RecordInv, GensInv, CandLive, NEW t \in tree.nodes, UpToDate(t), IsLeaf(t),
         t # canon_leaf, cur = NoNode, NEW held, ReportVisited(t, held)
  PROVE  CandLive'
<1>0. IsTree(tree) /\ cur # Root /\ status[t] = "live"
  BY DEF TreeInv, Input, IsTree, UpToDate
<1>1. CASE FindsAutomorphism(t) /\ AutomorphismLeaf(t, held)
  <2>1. PICK a : a = BelowCommon(t) /\ PruneSubtree(a, {})
    BY <1>1 DEF AutomorphismLeaf
  <2>2. /\ canon_leaf \in tree.nodes /\ IsLeaf(canon_leaf) /\ Level(t) = Level(canon_leaf)
        /\ tree.cert[t] = tree.cert[canon_leaf] /\ tree.cert[t] \in Nat /\ canon_leaf # NoNode
    BY <1>0, <1>1, ExplicitIsReal DEF FindsAutomorphism
  <2>3. canon_leaf' = canon_leaf
    BY <2>2 DEF ReportVisited, ReportLeaf, Reference
  <2>4. ~Above(a, canon_leaf)
    BY <1>0, <2>1, <2>2, BelowCommonIs
  <2>5. status'[canon_leaf] = status[canon_leaf] /\ UNCHANGED <<tree, node_gen, generations>>
    BY <2>1, <2>2, <2>4, SubtreeSpares
  <2> QED
    BY <2>3, <2>5, CandKept
<1>2. CASE UNCHANGED <<tree, status, child_pruned, coordVars, dataVars, values,
                       q_max_level, cur, emitted, prunerVars>>
  <2>1. UNCHANGED <<tree, status, node_gen, generations>>
    BY <1>2 DEF coordVars, dataVars
  <2>2. CASE canon_leaf' = canon_leaf
    BY <2>1, <2>2, CandKept
  <2>3. CASE canon_leaf' = t
    <3>1. t # Root => node_gen[t] >= generations[Level(t)]
      BY UpToDateLevel
    <3> QED
      BY <1>0, <2>1, <2>3, <3>1 DEF CandLive, Level, Root
  <2> QED
    BY <2>2, <2>3 DEF ReportVisited, ReportLeaf
<1> QED
  BY <1>1, <1>2 DEF ReportVisited

LEMMA CandUpToDate ==
  ASSUME TreeInv, CandidateOnRecord, CandLive
  PROVE  CandidateIsRecorded
<1> SUFFICES ASSUME canon_leaf # NoNode
             PROVE  UpToDate(canon_leaf) /\ IsLeaf(canon_leaf) /\ max_level = Level(canon_leaf)
  BY DEF CandidateIsRecorded
<1>1. canon_leaf \in tree.nodes /\ ControlTypeOK /\ IsTree(tree)
  BY DEF TreeInv, ControlTypeOK, Input
<1>2. IsLeaf(canon_leaf) /\ max_level = Level(canon_leaf)
  BY DEF CandidateOnRecord
<1>3. /\ status[canon_leaf] = "live"
      /\ canon_leaf # Root => node_gen[canon_leaf] >= generations[Level(canon_leaf)]
  BY DEF CandLive
<1>4. /\ Level(canon_leaf) \in Levels /\ node_gen[canon_leaf] \in Nat
      /\ generations[Level(canon_leaf)] \in Nat
  BY <1>1, PathLength DEF ControlTypeOK
<1>5. UpToDate(canon_leaf)
  BY <1>2, <1>3, <1>4 DEF UpToDate, Outdated, Levels
<1> QED
  BY <1>2, <1>5

LEMMA DescentCanon ==
  ASSUME GensInv, canon_leaf \in tree.nodes \cup {NoNode}, Idle, NEW t \in tree.nodes, BeforeDescend(t)
  PROVE  CanonPath'
<1>1. CASE UNCHANGED t_path
  BY <1>1, IdleCanon DEF Idle
<1>2. CASE NeedUpdate(t) /\ Start(t) /\ UNCHANGED treeVars
  BY <1>2, StartCanon DEF treeVars, leafVars
<1> QED
  BY <1>1, <1>2 DEF BeforeDescend, prunerVars

-----------------------------------------------------------------------------
(* What is above a node that is up to date is up to date.                  *)

AncestorsCurrent ==
  \A t, a \in tree.nodes : UpToDate(t) /\ Above(a, t) => UpToDate(a)

LEMMA AboveLevel ==
  ASSUME IsTree(tree), NEW t \in tree.nodes, NEW a \in tree.nodes, Above(a, t)
  PROVE  /\ Level(a) \in Levels /\ Level(t) \in Levels /\ Level(a) <= Level(t)
         /\ a # t => t # Root /\ Above(a, Parent(t))
<1>1. /\ Len(a) <= Len(t) /\ Len(a) \in Nat /\ Len(t) \in Nat /\ a = Ancestor(t, Len(a))
  BY AboveFacts
<1>2. Level(a) = Len(a) /\ Level(t) = Len(t) /\ Level(a) \in Levels /\ Level(t) \in Levels
  BY PathLength
<1>3. ASSUME a # t PROVE t # Root /\ Above(a, Parent(t))
  <2>1. Above(t, t) /\ (Len(a) = Len(t) => a = t)
    BY AboveOn
  <2>2. Len(a) < Len(t)
    BY <1>1, <1>3, <2>1
  <2>3. t # Root
    BY <1>1, <1>2, <2>2, RootLevel
  <2> QED
    BY <1>3, <2>3, ChildAbove
<1> QED
  BY <1>1, <1>2, <1>3

(* Steps that record no deeper level.                                      *)
LEMMA AncestorsKept ==
  ASSUME TreeInv, AncestorsCurrent, Living', UNCHANGED <<tree, generations>>,
         max_level' \in Nat, max_level' <= max_level,
         \A t \in tree.nodes : status'[t] = "live" => status[t] = "live" /\ node_gen'[t] = node_gen[t]
  PROVE  AncestorsCurrent'
<1>0. IsTree(tree) /\ ControlTypeOK
  BY DEF TreeInv, Input
<1>1. ASSUME NEW t \in tree.nodes, UpToDate(t)'
      PROVE  /\ UpToDate(t) /\ \A a \in tree.nodes : Above(a, t) /\ a # t => status'[a] = "live"
             /\ t # Root => Level(t) <= max_level'
  <2>1. status'[t] = "live" /\ status[t] = "live" /\ node_gen'[t] = node_gen[t]
    BY <1>1 DEF UpToDate
  <2>2. t # Root => Level(t) <= max_level' /\ ~(node_gen[t] < generations[Level(t)])
    <3>1. Level(t) \in Nat
      BY <1>0, PathLength DEF Levels
    <3> QED
      BY <1>1, <2>1, <3>1 DEF UpToDate, Outdated, Level, Root
  <2>3. UpToDate(t)
    <3>1. Level(t) \in Nat /\ max_level \in Nat
      BY <1>0, PathLength DEF Levels, ControlTypeOK
    <3> QED
      BY <2>1, <2>2, <3>1 DEF UpToDate, Outdated
  <2>4. \A a \in tree.nodes : Above(a, t) /\ a # t => status'[a] = "live"
    BY <2>1 DEF Living, Above
  <2> QED
    BY <2>2, <2>3, <2>4
<1> SUFFICES ASSUME NEW t \in tree.nodes, NEW a \in tree.nodes, UpToDate(t)', Above(a, t)
             PROVE  UpToDate(a)'
  BY DEF AncestorsCurrent, Above
<1>2. CASE a = t
  BY <1>2
<1>3. CASE a # t
  <2>1. UpToDate(a) /\ status'[a] = "live" /\ t # Root /\ Level(t) <= max_level'
    BY <1>0, <1>1, <1>3, AboveLevel DEF AncestorsCurrent
  <2>2. Level(a) \in Nat /\ Level(t) \in Nat /\ Level(a) <= Level(t)
    BY <1>0, AboveLevel DEF Levels
  <2>3. node_gen'[a] = node_gen[a] /\ Level(a) <= max_level'
    BY <2>1, <2>2
  <2> QED
    BY <2>1, <2>2, <2>3 DEF UpToDate, Outdated, Level, Root
<1> QED
  BY <1>2, <1>3

LEMMA AncestorsInConstruction ==
  ASSUME TreeInv, AncestorsCurrent, Living', Construct
  PROVE  AncestorsCurrent'
<1>0. IsTree(tree) /\ ControlTypeOK /\ max_level \in Nat
  BY DEF TreeInv, Input, ControlTypeOK, Levels
<1>1. ASSUME EmitBetterByVisitor \/ EmitBetterByValue PROVE AncestorsCurrent'
  <2>1. /\ UNCHANGED <<tree, status, generations>> /\ max_level' = Level(cur) - 1
        /\ node_gen' = [node_gen EXCEPT ![cur] = generation']
        /\ cur # NoNode /\ ~IsExtending(cur)
    BY <1>1 DEF EmitBetterByVisitor, EmitBetterByValue, SameVisitor, Emitting, Better
  <2>2. cur \in tree.nodes /\ cur # Root /\ Level(cur) \in Nat /\ Level(cur) >= 1 /\ Level(cur) <= max_level
    <3>1. cur \in tree.nodes
      BY <1>0, <2>1 DEF ControlTypeOK
    <3>2. Level(cur) \in Levels /\ (cur # Root => Level(cur) >= 1)
      BY <1>0, <3>1, ParentFacts
    <3> QED
      BY <1>0, <2>1, <3>1, <3>2 DEF IsExtending, Levels
  <2>3. \A t \in tree.nodes : status'[t] = "live" => status[t] = "live" /\ node_gen'[t] = node_gen[t]
    BY <1>0, <2>1, <2>2 DEF TreeInv, ControlTypeOK
  <2>4. max_level' \in Nat /\ max_level' <= max_level
    BY <1>0, <2>1, <2>2
  <2> QED
    BY <2>1, <2>3, <2>4, AncestorsKept
<1>2. ASSUME ~(EmitBetterByVisitor \/ EmitBetterByValue) PROVE AncestorsCurrent'
  <2>1. /\ UNCHANGED <<tree, generations, max_level, node_gen>>
        /\ status' \in {status, [status EXCEPT ![cur] = "pruned"]} /\ cur # NoNode
    BY <1>2 DEF Construct, EmitExtending, EmitSame, EmitWorseVisitor, EmitWorseValue, CreateShort, SameVisitor,
       Emitting, Emitted, Discard, coordVars, dataVars
  <2>2. \A t \in tree.nodes : status'[t] = "live" => status[t] = "live"
    BY <1>0, <2>1 DEF ControlTypeOK
  <2> QED
    BY <1>0, <2>1, <2>2, AncestorsKept
<1> QED
  BY <1>1, <1>2

LEMMA AncestorsAtFinish ==
  ASSUME TreeInv, RecordInv, AncestorsCurrent, Living', CreateLive, GenerationFits
  PROVE  AncestorsCurrent'
<1>0. IsTree(tree) /\ ControlTypeOK /\ max_level \in Nat
  BY DEF TreeInv, Input, ControlTypeOK, Levels
<1>1. /\ tree' = tree /\ cur # NoNode /\ cur \in tree.nodes
      /\ status' = [status EXCEPT ![cur] = "live"] /\ node_gen' = node_gen
      /\ max_level' = IF cur # Root /\ Level(cur) > max_level THEN max_level + 1 ELSE max_level
  BY <1>0 DEF CreateLive, Emitted, dataVars, ControlTypeOK
<1>2. /\ generations' = [generations EXCEPT ![Level(cur)] = IF IsExtending(cur) THEN generation
                                                           ELSE generations[Level(cur)]]
      /\ \A t \in tree.nodes : UpToDate(t)' /\ t # cur => UpToDate(t)
  BY FinishGenerations DEF GenerationFits
<1>3. /\ cur # Root => UpToDate(Parent(cur)) /\ (IsExtending(cur) => Level(cur) = max_level + 1)
      /\ Level(cur) \in Levels
  BY <1>0, <1>1, ParentFacts DEF TreeInv, GenerationsAgree
<1> SUFFICES ASSUME NEW t \in tree.nodes, NEW a \in tree.nodes, UpToDate(t)', Above(a, t), a # t
             PROVE  UpToDate(a)'
  BY <1>1 DEF AncestorsCurrent, Above
<1>4. /\ Level(a) \in Levels /\ Level(t) \in Levels /\ Level(a) <= Level(t)
      /\ t # Root /\ Above(a, Parent(t)) /\ Parent(t) \in tree.nodes
  BY <1>0, AboveLevel, ParentFacts
<1>5. UpToDate(a)
  <2>1. CASE t = cur
    BY <1>3, <1>4, <2>1 DEF AncestorsCurrent
  <2>2. CASE t # cur
    BY <1>2, <2>2 DEF AncestorsCurrent
  <2> QED
    BY <2>1, <2>2
<1>6. /\ status[a] = "live" /\ a # cur /\ status'[a] = "live"
      /\ a # Root => Level(a) <= max_level /\ ~(node_gen[a] < generations[Level(a)])
  <2>1. status[a] = "live" /\ a # cur
    BY <1>1, <1>5 DEF UpToDate, TreeInv
  <2>2. status'[a] = "live"
    BY <1>0, <1>1, <2>1 DEF ControlTypeOK
  <2>3. a # Root => Level(a) <= max_level /\ ~(node_gen[a] < generations[Level(a)])
    <3>1. Level(a) \in Nat
      BY <1>4 DEF Levels
    <3> QED
      BY <1>0, <1>5, <2>1, <3>1 DEF UpToDate, Outdated
  <2> QED
    BY <2>1, <2>2, <2>3
<1>7. a # Root => generations'[Level(a)] = generations[Level(a)]
  <2> SUFFICES ASSUME a # Root PROVE generations'[Level(a)] = generations[Level(a)]
    OBVIOUS
  <2>1. generations \in [Levels -> Nat]
    BY <1>0 DEF ControlTypeOK
  <2>2. CASE ~IsExtending(cur)
    BY <1>2, <1>3, <1>4, <2>1, <2>2
  <2>3. CASE IsExtending(cur)
    <3>1. Level(a) # Level(cur)
      <4>1. CASE cur = Root
        <5>1. Level(a) >= 1 /\ Level(Root) = 0
          BY <1>0, ParentFacts, RootLevel
        <5> QED
          BY <4>1, <5>1
      <4>2. CASE cur # Root
        BY <1>0, <1>3, <1>4, <1>6, <2>3, <4>2 DEF Levels
      <4> QED
        BY <4>1, <4>2
    <3> QED
      BY <1>2, <1>4, <2>1, <3>1
  <2> QED
    BY <2>2, <2>3
<1>8. max_level' \in Nat /\ max_level <= max_level'
  BY <1>0, <1>1
<1>9. a # Root => ~(Level(a) > max_level')
  BY <1>0, <1>4, <1>6, <1>8 DEF Levels
<1> QED
  BY <1>1, <1>6, <1>7, <1>9 DEF UpToDate, Outdated, Level, Root

(* So the candidate is not given up for an outdated node above it.         *)
LEMMA CandidateNotBelow ==
  ASSUME TreeInv, AncestorsCurrent, CandidateIsRecorded, NEW t \in tree.nodes, BeforeDescend(t)
  PROVE  canon_leaf' = canon_leaf
<1>1. CASE UNCHANGED treeVars
  BY <1>1 DEF treeVars, leafVars
<1>2. CASE Outdated(t) /\ PruneCanonLeafBelow(t)
  <2>1. canon_leaf = NoNode \/ (canon_leaf \in tree.nodes /\ UpToDate(canon_leaf))
    BY DEF CandidateIsRecorded, TreeInv, ControlTypeOK
  <2>2. ASSUME NEW s \in tree.nodes, s = canon_leaf, Above(t, s) PROVE FALSE
    <3>1. UpToDate(s)
      BY <2>1, <2>2 DEF TreeInv, Input
    <3>2. UpToDate(t)
      BY <2>2, <3>1 DEF AncestorsCurrent
    <3> QED
      BY <1>2, <3>2 DEF UpToDate
  <2> QED
    BY <1>2, <2>2 DEF PruneCanonLeafBelow
<1> QED
  BY <1>1, <1>2 DEF BeforeDescend
=============================================================================
