--------------------------- MODULE BestLeaf_proofs ---------------------------
(***************************************************************************)
(* The promise of BestLeaf holds for every set of leaves and every ranking *)
(* of them, finite or not.                                                 *)
(***************************************************************************)
EXTENDS BestLeaf, TLAPS

IInv == TypeOK /\ Covered

(* The search starts with every leaf covered by itself.                    *)
LEMMA InitCovers == Init => IInv
<1> SUFFICES ASSUME Init PROVE IInv
  OBVIOUS
<1>1. TypeOK
  BY DEF Init, TypeOK
<1>2. \A l \in Leaves(input) : AtLeast(input, l, l)
  BY RankingAssumption DEF Init, IsRanking
<1>3. Covered
  BY <1>2 DEF Init, Covered, Remaining
<1> QED
  BY <1>1, <1>3 DEF IInv

(* Covering is transitive: if all that covered a leaf is given up, what it *)
(* was given up for covers the leaf.                                       *)
LEMMA CoverStep ==
  ASSUME TypeOK, Covered, input' = input, TypeOK',
         GivenUp(Remaining)
  PROVE  Covered'
<1> SUFFICES ASSUME NEW l \in Leaves(input)
             PROVE  \E m \in Remaining' : AtLeast(input, m, l)
  BY DEF Covered
<1>1. PICK k \in Remaining : AtLeast(input, k, l)
  BY DEF Covered
<1>2. CASE k \in Remaining'
  BY <1>1, <1>2
<1>3. CASE k \notin Remaining'
  <2>1. PICK m \in Remaining' : AtLeast(input, m, k)
    BY <1>3 DEF GivenUp
  <2>2. k \in Leaves(input) /\ m \in Leaves(input)
    BY DEF TypeOK, Remaining
  <2> QED
    BY <1>1, <2>1, <2>2, RankingAssumption DEF TypeOK, IsRanking
<1> QED
  BY <1>2, <1>3

LEMMA NextCovers == IInv /\ [Next]_vars => IInv'
<1> SUFFICES ASSUME TypeOK, Covered, [Next]_vars PROVE IInv'
  BY DEF IInv
<1>1. ASSUME NEW l \in open, Report(l) PROVE IInv'
  <2>1. TypeOK'
    BY <1>1 DEF Report, TypeOK
  <2>2. GivenUp(Remaining)
    <3> SUFFICES ASSUME NEW k \in Remaining, k \notin Remaining'
                 PROVE  \E m \in Remaining' : AtLeast(input, m, k)
      BY DEF GivenUp
    <3>1. k \in Leaves(input) /\ l \in Leaves(input) /\ l # NoLeaf
      BY NoLeafAssumption DEF TypeOK, Remaining
    <3>2. CASE k \in open \ {l}
      BY <1>1, <3>2 DEF Report, GivenUp
    <3>3. CASE k \notin open \ {l} /\ cand = NoLeaf
      <4>1. k = l /\ cand' = l
        BY <1>1, <3>3 DEF Report, Remaining
      <4> QED
        BY <3>1, <4>1, RankingAssumption DEF Remaining, TypeOK, IsRanking
    <3>4. CASE k \notin open \ {l} /\ cand # NoLeaf /\ ~AtLeast(input, cand, l)
      <4>1. k = cand /\ cand' = l /\ l \in Remaining'
        BY <1>1, <3>1, <3>4 DEF Report, Remaining
      <4> QED
        BY <3>1, <3>4, <4>1, RankingAssumption DEF TypeOK, IsRanking
    <3>5. CASE k \notin open \ {l} /\ cand # NoLeaf /\ AtLeast(input, cand, l)
      <4>1. k = l /\ cand' = cand /\ cand \in Remaining'
        BY <1>1, <3>5 DEF Report, Remaining
      <4> QED
        BY <3>5, <4>1
    <3> QED
      BY <3>2, <3>3, <3>4, <3>5
  <2> QED
    BY <1>1, <2>1, <2>2, CoverStep DEF IInv, Report
<1>2. CASE Dismiss
  <2>1. TypeOK'
    BY <1>2 DEF Dismiss, TypeOK
  <2> QED
    BY <1>2, <2>1, CoverStep DEF IInv, Dismiss
<1>3. CASE UNCHANGED vars
  BY <1>3 DEF vars, IInv, TypeOK, Covered, Remaining
<1> QED
  BY <1>1, <1>2, <1>3 DEF Next

(* No leaf is ever lost: report_leaf and every kind of pruning keep one at *)
(* least as good among the open leaves and the candidate.                  *)
THEOREM AlwaysCovered == Spec => []Covered
<1>1. IInv => Covered
  BY DEF IInv
<1> QED
  BY InitCovers, NextCovers, <1>1, PTL DEF Spec

(* What explore_tree promises: once no leaf is open, the permutation that  *)
(* canonicalizer::operator() returns is that of a best leaf.               *)
THEOREM FinalCandidateIsBest == Spec => []CandidateIsBest
<1>1. IInv => CandidateIsBest
  <2> SUFFICES ASSUME TypeOK, Covered, open = {}, Leaves(input) # {}
               PROVE  cand # NoLeaf /\ \A l \in Leaves(input) : AtLeast(input, cand, l)
    BY DEF IInv, CandidateIsBest
  <2> QED
    BY DEF Covered, Remaining
<1> QED
  BY InitCovers, NextCovers, <1>1, PTL DEF Spec
=============================================================================
