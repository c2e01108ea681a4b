---------------------------- MODULE BasicPruner ----------------------------
(***************************************************************************)
(* aut_pruner_basic: a node keeps those generators that its parent keeps   *)
(* and that fix the vertex individualised for the node.                    *)
(***************************************************************************)
EXTENDS SearchTree, SequencesExt

VARIABLES
  gens,             \* the generators found, but for the identity
  num_base_gens,    \* how many of them have been considered in a node
  num_parent_gens,  \* and how many of those of its parent
  stab              \* the generators of a node

nodeGens == <<num_base_gens, num_parent_gens, stab>>

Image(p, t) == [i \in 1 .. Len(t) |-> p[t[i]]]

BasicInit ==
  /\ gens = <<>>
  /\ num_base_gens = [t \in tree.nodes |-> 0]
  /\ num_parent_gens = [t \in tree.nodes |-> 0]
  /\ stab = [t \in tree.nodes |-> <<>>]

(* add_automorphism                                                        *)
BasicAdd(p) ==
  /\ gens' = IF p \in Range(gens) THEN gens ELSE Append(gens, p)
  /\ UNCHANGED nodeGens

(* A node is out of date when there are more generators than it has seen.  *)
NeedUpdate(t) == gens # <<>> /\ num_base_gens[t] # Len(gens)

(* the elements of s at the positions P, in order                          *)
Selected(s, P) ==
  [k \in 1 .. Cardinality(P) |->
     s[CHOOSE i \in P : Cardinality({j \in P : j <= i}) = k]]

(* update: which generators a node gets from its parent                    *)
ParentGens(t) == IF Level(t) = 1 THEN gens ELSE stab[Parent(t)]
AllNewGens(t) ==
  IF t = Root THEN SubSeq(gens, num_base_gens[t] + 1, Len(gens))
  ELSE SubSeq(ParentGens(t), num_parent_gens[t] + 1, Len(ParentGens(t)))
NewGens(t) ==
  IF t = Root THEN SubSeq(gens, num_base_gens[t] + 1, Len(gens))
  ELSE Selected(ParentGens(t), {i \in num_parent_gens[t] + 1 .. Len(ParentGens(t)) :
                                  ParentGens(t)[i][Last(t)] = Last(t)})

BasicUpdate(t) ==
  /\ num_base_gens' = [num_base_gens EXCEPT ![t] = Len(gens)]
  /\ IF t = Root THEN UNCHANGED <<num_parent_gens, stab>>
     ELSE /\ num_parent_gens' = [num_parent_gens EXCEPT ![t] = Len(ParentGens(t))]
          /\ stab' = [stab EXCEPT ![t] = @ \o NewGens(t)]
=============================================================================
