----------------------------- MODULE TraverseDFS -----------------------------
(***************************************************************************)
(* traversal_dfs::traverse: a work stack of nodes, each with the offset of *)
(* the next child to create.  It is the loop of the depth first traversal, *)
(* and of the breadth first traversal when memory is short; "held" are the *)
(* nodes the traversal that runs it has pointers to.                       *)
(***************************************************************************)
EXTENDS AutPruner

VARIABLES
  stack,   \* work_stack, its back is the last element
  at       \* parent and next_child_index: the element that was popped

Elem(t, k) == [node |-> t, next_child |-> k]

(* What is popped is told from nothing.                                    *)
ASSUME NothingPoppedAssumption ==
  \A T \in Trees : NoNode \notin [node : T.nodes, next_child : Nat]

(* the nodes on the stack and the one that was popped                      *)
Working == {stack[i].node : i \in 1 .. Len(stack)}
             \cup (IF at = NoNode THEN {} ELSE {at.node})

(* A finished node that is not pruned is pushed: the first by the caller, a*)
(* child by the loop that created it.                                      *)
Push == /\ NodeFinished
        /\ stack' = Append(stack, Elem(cur, 0))
        /\ UNCHANGED at

Pop ==
  /\ cur = NoNode
  /\ at = NoNode
  /\ stack # <<>>
  /\ at' = stack[Len(stack)]
  /\ stack' = SubSeq(stack, 1, Len(stack) - 1)
  /\ BeforeDescend(at'.node)

Ready == at # NoNode /\ Idle

(* the children that are neither before next_child_index nor flagged       *)
Candidates(held) ==
  {c \in Children(at.node) : c[Len(c)] >= at.next_child /\ ~Flagged(c, held)}

Skip ==
  /\ Ready
  /\ status[at.node] = "pruned"
  /\ at' = NoNode
  /\ UNCHANGED <<treeVars, prunerVars, chainVars, stack>>

Go == Ready /\ status[at.node] # "pruned" /\ at' = NoNode

(* Put the node back, to go on after this child, and create the child.     *)
Resume(c) == Elem(at.node, c[Len(c)] + 1)

Descend(held) ==
  /\ Go
  /\ \E C \in {Candidates(held)} : \E c \in C :
       /\ \A d \in C : c[Len(c)] <= d[Len(d)]
       /\ stack' = Append(stack, Resume(c))
       /\ CreateBegin(c)
       /\ CountChild(c)

(* All children are done.                                                  *)
Leave(held) ==
  /\ Go
  /\ Candidates(held) = {}
  /\ ~IsLeaf(at.node)
  /\ UNCHANGED <<treeVars, prunerVars, chainVars, stack>>

(* No children, and none to come: a leaf.                                  *)
Report(held) ==
  /\ Go
  /\ IsLeaf(at.node)
  /\ ReportVisited(at.node, held)
  /\ UNCHANGED stack

(* traverse has returned                                                   *)
Traversed == cur = NoNode /\ at = NoNode /\ stack = <<>>

Elems == [node : tree.nodes, next_child : Nat]
StackOK == stack \in Seq(Elems) /\ at \in Elems \cup {NoNode}
=============================================================================
