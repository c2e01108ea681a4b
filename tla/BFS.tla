-------------------------------- MODULE BFS --------------------------------
(***************************************************************************)
(* traversal_bfs_exp_m over the search tree: level by level, but whenever a*)
(* node is created an experimental path is followed from it, to find a     *)
(* leaf early.  Nodes therefore wait in the list of the next level while   *)
(* others change the record, or reveal automorphisms that prune them.      *)
(*                                                                         *)
(* The nodes of a path would die before their level comes: each is kept    *)
(* alive by a pointer to itself, until it is taken from its list or pruned.*)
(*                                                                         *)
(* While as many nodes exist as fit in the memory, no path goes on: what is*)
(* below its last node is traversed depth first.  With a limit that is not *)
(* reached this is traversal_bfs_exp.                                      *)
(***************************************************************************)
EXTENDS TraverseDFS

(* The values of max_num_nodes a tree is to be searched with: initialize   *)
(* makes it at least 1.                                                    *)
ASSUME LimitsAssumption == \A T \in Trees : T.limits \subseteq Nat \ {0}

VARIABLES
  pc,          \* what the traversal does next
  head,        \* the first node of the level
  level_list,  \* nodeNext and the level_next pointers: what is left of it
  next_list,   \* headChildren and level_next: the nodes of the next level
  old_head,    \* what headChildren points to while next_list is empty
  node,        \* the one whose children are taken
  next_child,  \* next_child_index
  child,       \* of node, while a path is followed from it
  path,        \* the last node of the experimental path
  kept,        \* the nodes with a keep_alive pointer
  dfs_roots,   \* the nodes with is_dfs_root
  max_nodes,   \* max_num_nodes (never changes)
  use_dfs

loopVars == <<pc, head, level_list, next_list, old_head, node, next_child, child, path>>
bfsVars == <<loopVars, kept, dfs_roots>>
workVars == <<stack, at>>
nodeVars == <<treeVars, prunerVars, chainVars>>
vars == <<nodeVars, bfsVars, workVars, max_nodes, use_dfs>>

Init ==
  /\ TreeInit
  /\ PrunerInit
  /\ pc = "load"
  /\ head = Root
  /\ level_list = <<Root>>
  /\ next_list = <<>>
  /\ old_head = NoNode
  /\ node = NoNode
  /\ next_child = 0
  /\ child = NoNode
  /\ path = NoNode
  /\ kept = {}
  /\ dfs_roots = {}
  /\ stack = <<>>
  /\ at = NoNode
  /\ max_nodes \in tree.limits
  /\ use_dfs = (max_nodes = 1)

(* The nodes the traversal has pointers to.                                *)
Held ==
  (({cur, Root, head, node, child, path} \cup (IF next_list = <<>> THEN {old_head} ELSE {}))
     \ {NoNode})
    \cup Range(level_list) \cup Range(next_list) \cup kept \cup Working

Free == cur = NoNode /\ Idle

(* The nodes that exist are counted as they are created and destroyed, and *)
(* the traversal is switched when the count reaches or leaves the limit.   *)
Existing == UNION {PathOf(t) : t \in Holders(Held)}
SwitchedOffLate(most, num_nodes) == max_nodes \in num_nodes .. most - 1
SwitchedOff(most, num_nodes) == max_nodes \in num_nodes + 1 .. most
CountNodes ==
  /\ \E before \in {Existing}, after \in {Existing'} :
       \E most \in {Cardinality(before \cup after)} :
          use_dfs' = /\ use_dfs \/ (most = max_nodes /\ ~(after \subseteq before))
                     /\ ~SwitchedOff(most, Cardinality(after))
  /\ UNCHANGED max_nodes

(* tree_prune_node is called for each node that is pruned.                 *)
KeepPruned(K) == kept' = K
KeepAlive(K) == kept' = {t \in K : status'[t] # "pruned"}

First(C) == CHOOSE c \in C : \A d \in C : Last(c) <= Last(d)

(* The events during the construction of a node, and in tree_before_descend*)
Refine == Constructing /\ UNCHANGED <<bfsVars, workVars>> /\ CountNodes
Tell == AutomorphismImplicit(Held) /\ UNCHANGED <<bfsVars, workVars>> /\ CountNodes
Prune == /\ Update(Held) \/ Merge(Held)
         /\ KeepAlive(kept)
         /\ UNCHANGED <<loopVars, dfs_roots, workVars>>
         /\ CountNodes

-----------------------------------------------------------------------------
(* makeExperimentalPath                                                    *)

(* A node that is created goes on from the path, or starts a new one.      *)
Created ==
  /\ pc # "dfs"
  /\ NodeFinished
  /\ path' = cur
  /\ child' = IF path = NoNode /\ node # NoNode THEN cur ELSE child
  /\ kept' = IF path = NoNode THEN kept ELSE kept \cup {path}
  /\ pc' = "visit"
  /\ UNCHANGED <<head, level_list, next_list, old_head, node, next_child, dfs_roots, workVars>>
  /\ CountNodes

Visit ==
  /\ pc = "visit"
  /\ Free
  /\ ~use_dfs
  /\ BeforeDescend(path)
  /\ KeepAlive(kept)
  /\ pc' = "extend"
  /\ UNCHANGED <<head, level_list, next_list, old_head, node, next_child, child, path,
                 dfs_roots, workVars>>
  /\ CountNodes

(* not pruned, and not existing                                            *)
NewChildren == {c \in Children(path) : status[c] = "absent" /\ c \notin child_pruned}

Extend ==
  /\ pc = "extend"
  /\ Free
  /\ NewChildren # {}
  /\ CreateBegin(First(NewChildren))
  /\ CountChild(First(NewChildren))
  /\ UNCHANGED <<bfsVars, workVars>>
  /\ CountNodes

(* A child that has been traversed depth first is not put into the list.   *)
PutIntoList(list, c) == IF c \in dfs_roots THEN list ELSE Append(list, c)

(* Back in the loop over the children of the node, which may have been     *)
(* pruned by what the path led to.                                         *)
EndPath ==
  /\ path' = NoNode
  /\ child' = NoNode
  /\ \/ /\ node = NoNode
        /\ pc' = "load"
        /\ UNCHANGED <<node, next_list>>
     \/ /\ node # NoNode /\ status'[node] = "pruned"
        /\ pc' = "load"
        /\ node' = NoNode
        /\ UNCHANGED next_list
     \/ /\ node # NoNode /\ status'[node] # "pruned"
        /\ pc' = "loop"
        /\ next_list' = PutIntoList(next_list, child)
        /\ UNCHANGED node
  /\ KeepAlive(kept)
  /\ UNCHANGED <<head, level_list, old_head, next_child, dfs_roots, workVars>>
  /\ CountNodes

ReportPath ==
  /\ pc = "extend"
  /\ Free
  /\ IsLeaf(path)
  /\ ReportVisited(path, Held)
  /\ EndPath

(* There could be children, but they have all been pruned.                 *)
GiveUp ==
  /\ pc = "extend"
  /\ Free
  /\ ~IsLeaf(path)
  /\ NewChildren = {}
  /\ UNCHANGED nodeVars
  /\ EndPath

-----------------------------------------------------------------------------
(* the fallback to a depth first traversal, from the last node of the path *)

StartDFS ==
  /\ pc = "visit"
  /\ Free
  /\ use_dfs
  /\ stack' = <<Elem(path, 0)>>
  /\ dfs_roots' = dfs_roots \cup {path}
  /\ pc' = "dfs"
  /\ UNCHANGED <<nodeVars, head, level_list, next_list, old_head, node, next_child, child,
                 path, kept, at>>
  /\ CountNodes

StepDFS ==
  /\ pc = "dfs"
  /\ Push \/ Pop \/ Skip \/ Descend(Held) \/ Leave(Held) \/ Report(Held)
  /\ KeepAlive(kept)
  /\ UNCHANGED <<loopVars, dfs_roots>>
  /\ CountNodes

EndDFS ==
  /\ pc = "dfs"
  /\ Traversed
  /\ UNCHANGED nodeVars
  /\ EndPath

-----------------------------------------------------------------------------
(* the loop over a level                                                   *)

Load ==
  /\ pc = "load"
  /\ Free
  /\ level_list # <<>>
  /\ level_list' = Tail(level_list)
  /\ LET t == Head(level_list)
     IN /\ \/ /\ status[t] = "pruned"
              /\ UNCHANGED <<nodeVars, pc, node, next_child>>
           \/ /\ status[t] # "pruned"
              /\ BeforeDescend(t)
              /\ pc' = "enter"
              /\ node' = t
              /\ next_child' = 0
        /\ KeepAlive(kept \ {t})
  /\ UNCHANGED <<head, next_list, old_head, child, path, dfs_roots, workVars>>
  /\ CountNodes

NextLevel ==
  /\ pc = "load"
  /\ Free
  /\ level_list = <<>>
  /\ next_list # <<>>
  /\ head' = Head(next_list)
  /\ level_list' = next_list
  /\ next_list' = <<>>
  /\ old_head' = head
  /\ UNCHANGED <<nodeVars, pc, node, next_child, child, path, kept, dfs_roots, workVars>>
  /\ CountNodes

LeaveNode == /\ pc' = "load"
             /\ node' = NoNode
             /\ UNCHANGED <<nodeVars, head, level_list, next_list, old_head, next_child, child,
                            path, kept>>

Enter ==
  /\ pc = "enter"
  /\ Free
  /\ \/ (status[node] = "pruned" \/ IsLeaf(node)) /\ LeaveNode
     \/ /\ ~(status[node] = "pruned" \/ IsLeaf(node))
        /\ pc' = "loop"
        /\ UNCHANGED <<nodeVars, head, level_list, next_list, old_head, node, next_child,
                       child, path, kept>>
  /\ UNCHANGED <<dfs_roots, workVars>>
  /\ CountNodes

ToDo == {c \in Children(node) : Last(c) >= next_child}

Iterate ==
  /\ pc = "loop"
  /\ Free
  /\ \/ ToDo = {} /\ LeaveNode
     \/ /\ ToDo # {}
        /\ BeforeDescend(node)
        /\ KeepAlive(kept)
        /\ pc' = "choose"
        /\ UNCHANGED <<head, level_list, next_list, old_head, node, next_child, child, path>>
  /\ UNCHANGED <<dfs_roots, workVars>>
  /\ CountNodes

Choose ==
  /\ pc = "choose"
  /\ Free
  /\ \/ status[node] = "pruned" /\ LeaveNode
     \/ /\ status[node] # "pruned"
        /\ LET c == First(ToDo)
           IN /\ next_child' = Last(c) + 1
              /\ \/ /\ Flagged(c, Held)
                    /\ UNCHANGED <<nodeVars, next_list>>
                 \/ /\ ~Flagged(c, Held) /\ status[c] # "absent"
                    /\ next_list' = PutIntoList(next_list, c)
                    /\ UNCHANGED nodeVars
                 \/ /\ ~Flagged(c, Held) /\ status[c] = "absent"
                    /\ CreateBegin(c)
                    /\ CountChild(c)
                    /\ UNCHANGED next_list
        /\ pc' = "loop"
        /\ UNCHANGED <<head, level_list, old_head, node, child, path, kept>>
  /\ UNCHANGED <<dfs_roots, workVars>>
  /\ CountNodes

Finished == pc = "load" /\ Free /\ level_list = <<>> /\ next_list = <<>>
Stop == Finished /\ UNCHANGED vars

Next == \/ Refine \/ Tell \/ Prune
        \/ Created \/ Visit \/ Extend \/ ReportPath \/ GiveUp
        \/ StartDFS \/ StepDFS \/ EndDFS
        \/ Load \/ NextLevel \/ Enter \/ Iterate \/ Choose
        \/ Stop

Spec == Init /\ [][Next]_vars
FairSpec == Spec /\ WF_vars(Next)
-----------------------------------------------------------------------------
BfsTypeOK ==
  /\ TypeOK
  /\ PrunerTypeOK
  /\ StackOK
  /\ pc \in {"visit", "extend", "load", "enter", "loop", "choose", "dfs"}
  /\ level_list \in Seq(tree.nodes)
  /\ next_list \in Seq(tree.nodes)
  /\ {head, old_head, node, child, path} \subseteq tree.nodes \cup {NoNode}
  /\ next_child \in Nat
  /\ kept \subseteq tree.nodes
  /\ dfs_roots \subseteq tree.nodes
  /\ max_nodes \in tree.limits /\ use_dfs \in BOOLEAN

(* When the traversal is over the candidate is a best leaf of the whole    *)
(* tree, as for the depth first traversal.  It holds of trees of three     *)
(* levels, but not of LateTree of MCTrees: an automorphism that is found   *)
(* again before all of its nodes know of it prunes one of two equivalent   *)
(* nodes, and when they are merged the other.                              *)
CanonicalLeafFound ==
  Finished => /\ canon_leaf # NoNode
              /\ \A l \in LeavesOf(tree) : ~LeafBetter(tree, l, canon_leaf)

(* The assertion of makeExperimentalPath: the node it goes on from has not *)
(* been pruned.  Nothing has looked at it since it was created.            *)
PathNotPruned ==
  pc \in {"visit", "extend"} /\ path # NoNode =>
    /\ status[path] = "live"
    /\ ~Outdated(path)

(* A node that points to itself is never freed unless the pointer is reset:*)
(* when the traversal is over there is none.  Until then a kept node is    *)
(* one that is still to be taken from the list of its level.               *)
KeptAreReleased ==
  /\ \A t \in kept : \/ t \in Range(level_list) \cup Range(next_list) \cup {child}
                    \/ (t # Root /\ Parent(t) \in Held)
  /\ Finished => kept = {}

(* The limit is kept as far as the traversal can: it goes depth first if   *)
(* and only if as many nodes exist as it allows, and there are never more  *)
(* but for those on the way to the node in hand and to the leaves that are *)
(* kept for comparisons.                                                   *)
MemoryIsLimited ==
  /\ use_dfs <=> Cardinality(Existing) >= max_nodes
  /\ LET ways == {cur, path, canon_leaf, canon_graph, extra_graph} \cup Working
     IN Cardinality(Existing \ UNION {PathOf(t) : t \in ways}) <= max_nodes

(* The traversal ends.                                                     *)
Terminates == <>Finished

(* A leaf is reported at the end of the path it was created on, or taken   *)
(* from the stack.                                                         *)
OpenLeaves == OpenIn(Held, IF pc = "dfs" THEN Working \cup {cur} ELSE {path})

Promise == INSTANCE BestLeaf WITH
  Inputs <- Trees,
  Leaves <- LeavesOf,
  AtLeast <- LeafAtLeast,
  NoLeaf <- NoNode,
  input <- tree,
  open <- OpenLeaves,
  cand <- canon_leaf

(* Every step of the traversal keeps the promise of BestLeaf: leaves are   *)
(* reported, or given up for one that remains and is at least as good.     *)
KeepsPromise == Promise!Spec
=============================================================================
