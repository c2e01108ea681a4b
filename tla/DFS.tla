-------------------------------- MODULE DFS --------------------------------
(***************************************************************************)
(* traversal_dfs over the search tree.                                     *)
(***************************************************************************)
EXTENDS TraverseDFS

vars == <<treeVars, prunerVars, chainVars, stack, at>>

Init == TreeInit /\ PrunerInit /\ stack = <<>> /\ at = NoNode

(* The nodes the traversal has pointers to.                                *)
Held == Working \cup {cur, Root}

(* The events during the construction of a node.                           *)
Refine == Constructing /\ UNCHANGED <<stack, at>>
Tell == AutomorphismImplicit(Held) /\ UNCHANGED <<stack, at>>

(* tree_before_descend goes on.                                            *)
Prune == (Update(Held) \/ Merge(Held)) /\ UNCHANGED <<stack, at>>

(* explore_tree has returned                                               *)
Finished == Traversed
Stop == Finished /\ UNCHANGED vars

Next == \/ Refine \/ Tell \/ Push \/ Pop \/ Prune
        \/ Skip \/ Descend(Held) \/ Leave(Held) \/ Report(Held) \/ Stop

Spec == Init /\ [][Next]_vars
FairSpec == Spec /\ WF_vars(Next)
-----------------------------------------------------------------------------
DfsTypeOK == TypeOK /\ PrunerTypeOK /\ StackOK

(* When the traversal is over the candidate is a best leaf of the WHOLE    *)
(* tree, although most of it may have been pruned: the canonical form does *)
(* not depend on the order the vertices were individualised in.            *)
CanonicalLeafFound ==
  Finished => /\ canon_leaf # NoNode
              /\ \A l \in LeavesOf(tree) : ~LeafBetter(tree, l, canon_leaf)

(* When a node gets generators from its ancestors that have not got all of *)
(* theirs, each chain they are passed down has a stabilizer in every node: *)
(* one that is made anew only covers the chain of the node itself, and a   *)
(* node without one would be asserted, or dereferenced, on the way.        *)
ChainsHaveStabilizers ==
  /\ pruner = "schreier" /\ ~Idle /\ moves = {}
  /\ status[Highest] # "pruned" /\ Highest # Root /\ num_base_chain[Highest] # Len(gens)
  => \E s0 \in {Groups(Redirected(Highest), Holders(Held))} :
       \E s \in {WithStabilizers(s0, Range(ChainFrom(s0, Highest)))} :
         \A t \in Range(Stale(Last(ChainFrom(s, Highest)))) :
           \A u \in Range(ChainFrom(s, t)) \ {Root} : s.trans[u] # <<>>

(* The traversal ends: the tree is finite and every node is left once.     *)
Terminates == <>Finished

(* A leaf is reported when it is taken from the stack.                     *)
OpenLeaves == OpenIn(Held, Working)

Promise == INSTANCE BestLeaf WITH
  Inputs <- Trees,
  Leaves <- LeavesOf,
  AtLeast <- LeafAtLeast,
  NoLeaf <- NoNode,
  input <- tree,
  open <- OpenLeaves,
  cand <- canon_leaf

(* Every step of the traversal keeps the promise of BestLeaf: leaves are   *)
(* reported, or given up for one that remains and is at least as good.     *)
KeepsPromise == Promise!Spec
=============================================================================
