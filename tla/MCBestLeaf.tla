----------------------------- MODULE MCBestLeaf -----------------------------
(***************************************************************************)
(* Four possible leaves: every set of them, in every ranking.              *)
(***************************************************************************)
EXTENDS BestLeaf

CONSTANTS Leaf, Ranks

(* the better leaf has the smaller number, as the permuted graphs do       *)
Rankings == UNION {[S -> Ranks] : S \in SUBSET Leaf}
Ranked(i) == DOMAIN i
NotAfter(i, l, m) == i[l] <= i[m]
=============================================================================
