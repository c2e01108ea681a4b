------------------------------ MODULE BestLeaf ------------------------------
(***************************************************************************)
(* What a search for the canonical leaf promises, whatever order it visits *)
(* the search tree in and whatever it prunes.                              *)
(*                                                                         *)
(* The leaves of the search tree are ranked by a total preorder: first the *)
(* node invariants along the path to the leaf, then the permuted graph the *)
(* leaf represents.  At any time some leaves are still open, at most one   *)
(* leaf is the candidate, and every other leaf has been dealt with.  A     *)
(* leaf may only be dealt with while another one, still open or candidate, *)
(* is at least as good; so when nothing is open the candidate is a best    *)
(* leaf of the WHOLE tree, and the canonical form does not depend on the   *)
(* traversal.                                                              *)
(***************************************************************************)
EXTENDS Integers

CONSTANTS
  Inputs,            \* what a search may be given
  Leaves(_),         \* the leaves of an input
  AtLeast(_, _, _),  \* in an input, the first leaf is as good as the second
  NoLeaf             \* "there is no candidate" (a null canon_leaf)

IsRanking(i) ==
  /\ \A l, m \in Leaves(i) : AtLeast(i, l, m) \/ AtLeast(i, m, l)
  /\ \A k, l, m \in Leaves(i) : AtLeast(i, k, l) /\ AtLeast(i, l, m) => AtLeast(i, k, m)

ASSUME RankingAssumption == \A i \in Inputs : IsRanking(i)
ASSUME NoLeafAssumption == \A i \in Inputs : NoLeaf \notin Leaves(i)

VARIABLES
  input,     \* what is searched (never changes)
  open,      \* leaves not yet dealt with
  cand       \* the current candidate, or NoLeaf

vars == <<input, open, cand>>

(* The leaves some later report can still produce, and the candidate.      *)
Remaining == open \cup ({cand} \ {NoLeaf})

Init ==
  /\ input \in Inputs
  /\ open = Leaves(input)
  /\ cand = NoLeaf

(* Leaves are only given up for one that remains.                          *)
GivenUp(D) == \A l \in D \ Remaining' : \E m \in Remaining' : AtLeast(input, m, l)

(* canon_state::report_leaf: an open leaf becomes the candidate if there   *)
(* is none or if it is better, and is dealt with in any case.  When it is  *)
(* as good as the candidate, the automorphism this reveals may prune       *)
(* others.                                                                 *)
ReportLatest(l) ==
  /\ open' \in SUBSET (open \ {l})
  /\ cand' = l
  /\ GivenUp(open \ {l})
  /\ UNCHANGED input
Report(l) ==
  /\ open' \in SUBSET (open \ {l})
  /\ cand' = IF cand = NoLeaf \/ ~AtLeast(input, cand, l) THEN l ELSE cand
  /\ GivenUp(open \ {l})
  /\ UNCHANGED input

(* Pruning: open leaves, and possibly the candidate, are given up.         *)
DismissCandidate ==
  /\ open' \in SUBSET open
  /\ cand' \in {cand, NoLeaf}
  /\ GivenUp(open)
  /\ UNCHANGED input
Dismiss ==
  /\ open' \in SUBSET open
  /\ cand' \in {cand, NoLeaf}
  /\ GivenUp(Remaining)
  /\ UNCHANGED input

Next == (\E l \in open : Report(l)) \/ Dismiss

Spec == Init /\ [][Next]_vars

-----------------------------------------------------------------------------

TypeOK ==
  /\ input \in Inputs
  /\ open \subseteq Leaves(input)
  /\ cand \in Leaves(input) \cup {NoLeaf}

(* No leaf is ever lost for good: each has a remaining one that is at      *)
(* least as good.                                                          *)
Covered == \A l \in Leaves(input) : \E m \in Remaining : AtLeast(input, m, l)

(* When nothing is open the candidate is a best leaf of the whole tree     *)
(* (canonicalizer::operator() returns its permutation).                    *)
CandidateIsBest ==
  open = {} /\ Leaves(input) # {} =>
    cand # NoLeaf /\ \A l \in Leaves(input) : AtLeast(input, cand, l)

=============================================================================
