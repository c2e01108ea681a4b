---------------------- MODULE NodeConstruction_proofs ----------------------
(***************************************************************************)
(* The permutation that aut_implicit_size_2 shares between all nodes is    *)
(* left as the identity by each of them, for every graph, every order of   *)
(* the refiners and every selector, however often a node is aborted.       *)
(***************************************************************************)
EXTENDS NodeConstruction, TLAPS

(* Only a node that fits is told to change the permutation, and only while *)
(* it is refined.                                                          *)
AutInv ==
  /\ fits \in BOOLEAN
  /\ AutIsReset
  /\ pc # "begin" /\ ~fits => aut = Identity

LEMMA AutInit == Init => AutInv
  BY DEF Init, AutInv, AutIsReset

(* Telling of new cells leaves the permutation of a node that does not fit.*)
LEMMA ToldUnlessFits == ASSUME NEW p, ~fits PROVE Told(p) = aut
  BY DEF Told

LEMMA AutNext == AutInv /\ [Next]_vars => AutInv'
<1> SUFFICES ASSUME AutInv, [Next]_vars PROVE AutInv'
  OBVIOUS
<1> USE DEF AutInv, AutIsReset
<1>1. CASE Begin
  BY <1>1 DEF Begin, Root
<1>2. CASE RoundDone
  BY <1>2 DEF RoundDone
<1>3. CASE Custom
  BY <1>3 DEF Custom, Answer, Asking
<1>4. CASE EnterWL1
  BY <1>4 DEF EnterWL1, Asking
<1>5. CASE UseRefiner
  BY <1>5, ToldUnlessFits DEF UseRefiner
<1>6. CASE LeaveWL1
  BY <1>6 DEF LeaveWL1, Answer
<1>7. CASE RefineDegree1
  BY <1>7, ToldUnlessFits DEF RefineDegree1, Answer, Asking
<1>8. CASE Select
  BY <1>8 DEF Select
<1>9. CASE NodeEnd
  BY <1>9 DEF NodeEnd, Reset
<1>10. CASE CreateChild
  BY <1>10 DEF CreateChild
<1>11. CASE UNCHANGED vars
  BY <1>11 DEF vars, chosen
<1> QED
  BY <1>1, <1>2, <1>3, <1>4, <1>5, <1>6, <1>7, <1>8, <1>9, <1>10, <1>11 DEF Next, Stop

(* aut_implicit_size_2 starts each node with the identity: whatever a node *)
(* collected is gone when the next one begins.                             *)
THEOREM AutIsAlwaysReset == Spec => []AutIsReset
<1>1. AutInv => AutIsReset
  BY DEF AutInv
<1> QED
  BY <1>1, AutInit, AutNext, PTL DEF Spec
=============================================================================
