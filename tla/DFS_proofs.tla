----------------------------- MODULE DFS_proofs -----------------------------
(***************************************************************************)
(* traversal_dfs explores a tree, for every search tree and every set of   *)
(* providers.  First what holds with either pruner: the assertions of      *)
(* invariant_coordinator, and that what is recorded is what the nodes on   *)
(* record have emitted.  Then aut_pruner_basic: which generators a node    *)
(* has, which children are merged, and that what is pruned for it never    *)
(* takes the candidate away.  Last, that the traversal finds a best leaf   *)
(* of the whole tree, whatever is pruned on the way.                       *)
(***************************************************************************)
EXTENDS DFS, Traversal_proofs

(* Exactly the node under construction has that status.  The stack holds   *)
(* finished nodes, one per level: the path to the node that was popped, or *)
(* to the one under construction.  A node that was popped is not outdated. *)
PathOK ==
  /\ \A i \in 1 .. Len(stack) : /\ status[stack[i].node] \in {"live", "pruned"}
                                /\ Level(stack[i].node) = i - 1
  /\ at # NoNode => /\ status[at.node] \in {"live", "pruned"}
                    /\ Level(at.node) = Len(stack)
                    /\ ~Outdated(at.node)
StatusOK ==
  /\ \A t \in tree.nodes : status[t] = "constructing" <=> t = cur
  /\ cur # NoNode => Level(cur) = Len(stack) /\ at = NoNode /\ Idle
  /\ PathOK

(* The providers' traces are not in it: how far a node may be cut in them  *)
(* depends on counting the elements of the record.                         *)
Typed == ControlTypeOK /\ StackOK

IInv == Input /\ Typed /\ StatusOK /\ GenerationsBounded /\ GenerationsAgree

LEMMA KnownOfTree == IInv => TreeInv
BY DEF IInv, TreeInv, Typed, StatusOK

LEMMA WithTree ==
  ASSUME TreeInv', StackOK', PathOK',
         (cur # NoNode => Level(cur) = Len(stack) /\ at = NoNode /\ Idle)'
  PROVE  IInv'
BY DEF IInv, TreeInv, Typed, StatusOK

LEMMA StackNode ==
  ASSUME StackOK, NEW i \in 1 .. Len(stack)
  PROVE  stack[i].node \in tree.nodes
<1>1. stack[i] \in Elems
  BY ElementOf DEF StackOK
<1> QED
  BY <1>1 DEF Elems

-----------------------------------------------------------------------------

LEMMA InitIInv == Init => IInv
<1> SUFFICES ASSUME Init PROVE IInv
  OBVIOUS
<1>1. TreeInv
  BY InitTree DEF Init
<1>2. StackOK /\ PathOK /\ Idle /\ at = NoNode /\ Level(cur) = Len(stack)
  BY DEF Init, TreeInit, StackOK, Elems, PathOK, Level, Root, PrunerInit, Idle
<1> QED
  BY <1>1, <1>2 DEF IInv, TreeInv, Typed, StatusOK

LEMMA PruneInput ==
  ASSUME Prune
  PROVE  tree' = tree
BY DEF Prune, Update, Merge, Absorb, PruneSubtree, treeVars

LEMMA ReportInput ==
  ASSUME NEW held, Report(held)
  PROVE  tree' = tree
BY DEF Report, ReportVisited, AutomorphismLeaf, PruneSubtree

LEMMA InputStep == Input /\ [Next]_vars => tree' = tree /\ Input'
<1>1. ASSUME Refine \/ Push \/ Descend(Held) PROVE tree' = tree
  BY <1>1, ConstructInput DEF Refine, Constructing, Push, NodeFinished, Descend
<1>2. ASSUME Tell \/ Skip \/ Leave(Held) \/ Stop \/ UNCHANGED vars PROVE tree' = tree
  BY <1>2 DEF Tell, AutomorphismImplicit, Skip, Leave, Stop, vars, treeVars
<1>3. ASSUME Pop PROVE tree' = tree
  BY <1>3 DEF Pop, BeforeDescend, PruneSubtree, treeVars
<1>4. [Next]_vars => tree' = tree
  BY <1>1, <1>2, <1>3, PruneInput, ReportInput DEF Next
<1> QED
  BY <1>4, SameInput

(* A node under construction.                                              *)
LEMMA CurFacts ==
  ASSUME IInv, cur # NoNode
  PROVE  /\ cur \in tree.nodes /\ status[cur] = "constructing"
         /\ Level(cur) \in Levels
         /\ cur # Root => /\ Parent(cur) \in tree.nodes
                          /\ Level(Parent(cur)) = Level(cur) - 1
                          /\ Level(cur) >= 1
                          /\ Parent(cur) # cur
<1>1. cur \in tree.nodes
  BY DEF IInv, Typed, ControlTypeOK
<1> QED
  BY <1>1, ParentFacts DEF IInv, Input, StatusOK

(* The node that was popped.                                               *)
LEMMA AtFacts ==
  ASSUME IInv, at # NoNode
  PROVE  /\ at.node \in tree.nodes /\ at.next_child \in Nat
         /\ status[at.node] \in {"live", "pruned"}
         /\ Level(at.node) = Len(stack) /\ ~Outdated(at.node)
         /\ cur = NoNode
<1>1. at \in Elems
  BY DEF IInv, Typed, StackOK
<1> QED
  BY <1>1 DEF Elems, IInv, StatusOK, PathOK

LEMMA RefineStep ==
  ASSUME IInv, Refine
  PROVE  IInv'
<1>1. Construct /\ UNCHANGED <<t_path, stack, at>>
  BY DEF Refine, Constructing, prunerVars
<1>2. TreeInv /\ TreeInv'
  BY <1>1, KnownOfTree, ConstructTree
<1>3. /\ cur # NoNode /\ cur \in tree.nodes /\ tree' = tree
      /\ \/ UNCHANGED <<status, cur>>
         \/ cur' = NoNode /\ status' = [status EXCEPT ![cur] = "pruned"]
  BY <1>1, <1>2, ConstructStatus
<1>4. Level(cur) = Len(stack) /\ at = NoNode /\ Idle /\ StackOK /\ PathOK
  BY <1>3 DEF IInv, StatusOK, Typed
<1>5. StackOK'
  BY <1>1, <1>3, <1>4 DEF StackOK, Elems
<1>6. PathOK'
  <2>1. ASSUME NEW i \in 1 .. Len(stack)
        PROVE  status'[stack[i].node] \in {"live", "pruned"} /\ Level(stack[i].node) = i - 1
    <3>1. stack[i].node \in tree.nodes /\ status[stack[i].node] \in {"live", "pruned"}
          /\ Level(stack[i].node) = i - 1
      BY <1>4, StackNode DEF PathOK
    <3>2. status \in [tree.nodes -> {"absent", "constructing", "live", "pruned"}]
      BY DEF IInv, Typed, ControlTypeOK
    <3> QED
      BY <1>3, <3>1, <3>2
  <2> QED
    BY <1>1, <1>4, <2>1 DEF PathOK, Level
<1>7. cur' # NoNode => Level(cur)' = Len(stack)' /\ at' = NoNode /\ Idle'
  BY <1>1, <1>3, <1>4 DEF Level, Idle
<1> QED
  BY <1>2, <1>5, <1>6, <1>7, WithTree

LEMMA PushStep ==
  ASSUME IInv, Push, GenerationFits
  PROVE  IInv'
<1>1. CreateLive /\ stack' = Append(stack, Elem(cur, 0)) /\ UNCHANGED at
  BY DEF Push, NodeFinished
<1>2. /\ TreeInv /\ TreeInv' /\ cur # NoNode /\ cur \in tree.nodes
      /\ tree' = tree /\ cur' = NoNode /\ status' = [status EXCEPT ![cur] = "live"]
  BY <1>1, KnownOfTree, CreateLiveTree
<1>3. /\ Len(stack) \in Nat /\ stack \in Seq(Elems)
      /\ Elem(cur, 0) \in Elems /\ Elems' = Elems
      /\ at = NoNode /\ at' = NoNode
      /\ Level(cur) = Len(stack)
  BY <1>1, <1>2, LenNat DEF IInv, Typed, StackOK, StatusOK, Elem, Elems
<1>4. StackOK'
  BY <1>1, <1>2, <1>3 DEF StackOK
<1>5. status \in [tree.nodes -> {"absent", "constructing", "live", "pruned"}]
  BY DEF IInv, Typed, ControlTypeOK
<1>6. ASSUME NEW i \in 1 .. Len(stack')
      PROVE  /\ status'[stack'[i].node] \in {"live", "pruned"}
             /\ Level(stack'[i].node) = i - 1
  <2>1. CASE i = Len(stack) + 1
    <3>1. stack'[i].node = cur
      BY <1>1, <1>3, <2>1 DEF Elem
    <3> QED
      BY <1>2, <1>3, <1>5, <2>1, <3>1
  <2>2. CASE i \in 1 .. Len(stack)
    <3>1. stack'[i] = stack[i]
      BY <1>1, <1>3, <2>2
    <3> QED
      BY <1>2, <1>5, <2>2, <3>1 DEF IInv, StatusOK, PathOK
  <2> QED
    BY <1>1, <1>3, <1>6, <2>1, <2>2
<1>7. PathOK'
  BY <1>3, <1>6 DEF PathOK, Level
<1> QED
  BY <1>2, <1>4, <1>7, WithTree

(* Steps that leave the stack alone, and may leave the node.               *)
LEMMA SameStack ==
  ASSUME IInv, OnlyPrunes, stack' = stack, at' \in {at, NoNode}
  PROVE  IInv'
<1>1. TreeInv /\ TreeInv' /\ tree' = tree /\ cur' = NoNode /\ cur = NoNode
  BY KnownOfTree, OnlyPrunesStep DEF OnlyPrunes
<1>2. StackOK'
  BY <1>1 DEF IInv, Typed, StackOK, Elems
<1>3. ASSUME NEW i \in 1 .. Len(stack)
      PROVE  /\ status'[stack[i].node] \in {"live", "pruned"}
             /\ Level(stack[i].node) = i - 1
  <2>1. stack[i].node \in tree.nodes
    BY StackNode DEF IInv, Typed
  <2> QED
    BY <1>1, <2>1, OnlyPrunesStep DEF IInv, StatusOK, PathOK
<1>4. ASSUME at' # NoNode
      PROVE  /\ status'[at'.node] \in {"live", "pruned"}
             /\ Level(at'.node) = Len(stack)
             /\ ~Outdated(at.node)'
             /\ at' = at
  BY <1>1, <1>4, AtFacts, OnlyPrunesStep
<1>5. PathOK'
  BY <1>3, <1>4 DEF PathOK, Level
<1> QED
  BY <1>1, <1>2, <1>5, WithTree

LEMMA PopStep ==
  ASSUME IInv, Pop
  PROVE  IInv' /\ (RecordInv => RecordInv')
<1> DEFINE n == Len(stack)
<1>0. PICK t : t = at'.node
  OBVIOUS
<1>1. TreeInv /\ cur = NoNode
  BY KnownOfTree DEF Pop
<1>2. /\ n \in Nat /\ n >= 1 /\ at' = stack[n]
      /\ stack' \in Seq(Elems) /\ Len(stack') = n - 1
      /\ \A i \in 1 .. Len(stack') : stack'[i] = stack[i]
      /\ at' \in Elems
  <2>1. stack \in Seq(Elems) /\ stack # <<>>
    BY DEF IInv, Typed, StackOK, Pop
  <2>2. n \in Nat /\ n >= 1 /\ n - 1 \in Nat
    BY <2>1
  <2>3. stack' = SubSeq(stack, 1, n - 1) /\ at' = stack[n]
    BY DEF Pop
  <2>4. stack' \in Seq(Elems) /\ Len(stack') = n - 1
    <3>1. n - 1 <= Len(stack)
      BY <2>2
    <3> HIDE DEF n
    <3>2. SubSeq(stack, 1, n - 1) \in Seq(Elems) /\ Len(SubSeq(stack, 1, n - 1)) = n - 1
      BY <2>1, <2>2, <3>1, Prefix
    <3> QED
      BY <2>3, <3>2
  <2>5. \A i \in 1 .. Len(stack') : stack'[i] = stack[i]
    BY <2>1, <2>2, <2>3, <2>4
  <2> QED
    BY <2>1, <2>2, <2>3, <2>4, <2>5, ElementOf
<1>3. t \in tree.nodes /\ status[t] \in {"live", "pruned"} /\ Level(t) = n - 1
  <2>1. n \in 1 .. n
    BY <1>2
  <2> QED
    BY <1>0, <1>2, <2>1, StackNode DEF IInv, Typed, StatusOK, PathOK
<1>4. OnlyPrunes /\ ~Outdated(t)' /\ (RecordInv => RecordInv')
  <2>1. BeforeDescend(t)
    BY <1>0 DEF Pop
  <2> QED
    BY <1>1, <1>3, <2>1, BeforeDescendTree
<1>5. /\ TreeInv' /\ tree' = tree /\ cur' = NoNode
      /\ \A s \in tree.nodes : status[s] \in {"live", "pruned"} => status'[s] \in {"live", "pruned"}
  BY <1>1, <1>4, OnlyPrunesStep
<1>6. ASSUME NEW i \in 1 .. Len(stack')
      PROVE  /\ status'[stack'[i].node] \in {"live", "pruned"}
             /\ Level(stack'[i].node) = i - 1
  <2>1. i \in 1 .. Len(stack) /\ stack'[i] = stack[i]
    BY <1>2
  <2>2. stack[i].node \in tree.nodes
    BY <2>1, StackNode DEF IInv, Typed
  <2> QED
    BY <1>5, <2>1, <2>2 DEF IInv, StatusOK, PathOK
<1>7. PathOK'
  BY <1>0, <1>2, <1>3, <1>4, <1>5, <1>6 DEF PathOK, Level, Outdated
<1>8. StackOK'
  BY <1>2, <1>5 DEF StackOK, Elems
<1> QED
  BY <1>4, <1>5, <1>7, <1>8, WithTree

(* One step of the pruner.                                                 *)
LEMMA PruneStep ==
  ASSUME IInv, Prune
  PROVE  IInv' /\ (RecordInv => RecordInv')
<1>1. TreeInv /\ cur = NoNode /\ UNCHANGED <<stack, at>> /\ (Update(Held) \/ Merge(Held))
  BY KnownOfTree DEF IInv, StatusOK, Prune, Update, Merge
<1>2. OnlyPrunes /\ (RecordInv => RecordInv')
  BY <1>1, UpdateOrMergeTree
<1> QED
  BY <1>1, <1>2, SameStack

LEMMA SkipOrLeaveStep ==
  ASSUME IInv, Skip \/ Leave(Held)
  PROVE  IInv'
<1>1. /\ UNCHANGED treeVars
      /\ at # NoNode /\ at' = NoNode /\ stack' = stack
  BY DEF Skip, Leave, Go, Ready, treeVars
<1>2. OnlyPrunes
  BY <1>1, KnownOfTree, AtFacts, NothingPruned
<1> QED
  BY <1>1, <1>2, SameStack

LEMMA ReportStep ==
  ASSUME IInv, Report(Held)
  PROVE  IInv' /\ (RecordInv => RecordInv')
<1>0. PICK t : t = at.node
  OBVIOUS
<1>1. /\ ReportVisited(t, Held) /\ IsLeaf(t)
      /\ at # NoNode /\ at' = NoNode /\ stack' = stack /\ status[t] # "pruned"
  BY <1>0 DEF Report, Go, Ready
<1>2. t \in tree.nodes /\ cur = NoNode /\ UpToDate(t)
  BY <1>0, <1>1, AtFacts DEF UpToDate
<1>3. OnlyPrunes /\ (RecordInv => RecordInv')
  BY <1>1, <1>2, KnownOfTree, ReportTree
<1> QED
  BY <1>1, <1>3, SameStack

LEMMA DescendStep ==
  ASSUME IInv, Descend(Held)
  PROVE  IInv' /\ (RecordInv => RecordInv')
<1>1. /\ TreeInv /\ at # NoNode /\ Idle /\ cur = NoNode /\ at' = NoNode
      /\ status[at.node] # "pruned" /\ IsTree(tree) /\ ControlTypeOK
  BY KnownOfTree, AtFacts DEF TreeInv, Input, Descend, Go, Ready
<1>2. PICK c \in Candidates(Held) :
        /\ stack' = Append(stack, Resume(c))
        /\ CreateBegin(c)
        /\ CountChild(c)
  BY DEF Descend
<1>3. /\ c \in tree.nodes /\ c # Root /\ Parent(c) = at.node /\ UpToDate(Parent(c))
      /\ Level(c) = Len(stack) + 1 /\ c[Len(c)] \in Nat
  <2>1. c \in tree.nodes /\ Parent(c) = at.node /\ c # Root
    BY <1>1, AtFacts DEF Candidates, Children, IsTree
  <2>2. Level(c) = Len(stack) + 1 /\ Level(c) >= 1
    <3>1. Level(at.node) = Level(c) - 1 /\ Level(c) >= 1 /\ Level(c) \in Levels
      BY <1>1, <2>1, ParentFacts
    <3> QED
      BY <1>1, <3>1, AtFacts DEF Levels
  <2>3. c \in Seq(Nat) /\ Len(c) \in 1 .. Len(c)
    BY <1>1, <2>1, <2>2 DEF IsTree, Level
  <2>4. c[Len(c)] \in Nat
    BY <2>3, ElementOf
  <2> QED
    BY <1>1, <2>1, <2>2, <2>4, AtFacts DEF UpToDate
<1>4. /\ TreeInv' /\ cur' = c /\ tree' = tree
      /\ status' = [status EXCEPT ![c] = "constructing"]
  BY <1>1, <1>2, <1>3, CreateBeginTree
<1>5. RecordInv => RecordInv'
  BY <1>1, <1>2, <1>3, CreateBeginRecord
<1>6. Idle'
  BY <1>1, <1>2 DEF CountChild, Idle
<1> DEFINE e == Elem(at.node, c[Len(c)] + 1)
<1>7. e \in Elems /\ e.node = at.node /\ stack' = Append(stack, e)
  BY <1>1, <1>2, <1>3, AtFacts DEF Elem, Elems, Resume
<1>8. stack \in Seq(Elems) /\ Len(stack) \in Nat
  BY LenNat DEF IInv, Typed, StackOK
<1> HIDE DEF e
<1>9. /\ stack' \in Seq(Elems) /\ Len(stack') = Len(stack) + 1
      /\ \A i \in 1 .. Len(stack) : stack'[i] = stack[i]
      /\ stack'[Len(stack) + 1] = e
  BY <1>7, <1>8
<1>10. StackOK'
  BY <1>1, <1>4, <1>9 DEF StackOK, Elems
<1>11. ASSUME NEW i \in 1 .. Len(stack')
       PROVE  /\ status'[stack'[i].node] \in {"live", "pruned"}
              /\ Level(stack'[i].node) = i - 1
  <2>1. CASE i = Len(stack) + 1
    <3>1. stack'[i].node = at.node /\ at.node \in tree.nodes
      BY <1>1, <1>7, <1>9, <2>1, AtFacts
    <3>2. Level(at.node) = Len(stack) /\ status[at.node] \in {"live", "pruned"}
      BY <1>1, AtFacts
    <3>3. at.node # c
      BY <1>3, <1>8, <3>2
    <3> QED
      BY <1>1, <1>4, <1>8, <2>1, <3>1, <3>2, <3>3 DEF ControlTypeOK
  <2>2. CASE i # Len(stack) + 1
    <3>1. i \in 1 .. Len(stack)
      BY <1>8, <1>9, <1>11, <2>2
    <3>2. stack[i].node \in tree.nodes /\ Level(stack[i].node) = i - 1
          /\ status[stack[i].node] \in {"live", "pruned"}
      BY <3>1, StackNode DEF IInv, Typed, StatusOK, PathOK
    <3>3. stack[i].node # c
      BY <1>3, <1>8, <3>1, <3>2
    <3> QED
      BY <1>1, <1>4, <1>9, <3>1, <3>2, <3>3 DEF ControlTypeOK
  <2> QED
    BY <2>1, <2>2
<1>12. PathOK'
  BY <1>1, <1>11 DEF PathOK, Level
<1>13. Level(cur') = Len(stack')
  BY <1>3, <1>4, <1>9
<1> QED
  BY <1>1, <1>4, <1>5, <1>6, <1>10, <1>12, <1>13, WithTree DEF Level

LEMMA StutterStep ==
  ASSUME IInv, UNCHANGED <<treeVars, stack, at, t_path>>
  PROVE  IInv'
<1>1. TreeInv /\ TreeInv'
  BY KnownOfTree, SameTree
<1>2. UNCHANGED <<tree, status, max_level, generations, node_gen, cur, stack, at, t_path>>
  BY DEF treeVars, coordVars, dataVars
<1>3. StackOK'
  BY <1>2 DEF IInv, Typed, StackOK, Elems
<1>4. PathOK'
  BY <1>2 DEF IInv, StatusOK, PathOK, Outdated, Level
<1>5. cur' # NoNode => Level(cur)' = Len(stack)' /\ at' = NoNode /\ Idle'
  BY <1>2 DEF IInv, StatusOK, Idle, Level
<1> QED
  BY <1>1, <1>3, <1>4, <1>5, WithTree

-----------------------------------------------------------------------------
(* The record.                                                             *)

RInv == IInv /\ RecordInv

LEMMA InitRInv == Init => RInv
BY InitIInv, InitRecord DEF RInv, Init, IInv

LEMMA NextRInv == RInv /\ GenerationFits /\ [Next]_vars => RInv'
<1> SUFFICES ASSUME RInv, GenerationFits, [Next]_vars PROVE RInv'
  OBVIOUS
<1>0. IInv /\ RecordInv /\ TreeInv
  BY KnownOfTree DEF RInv
<1>1. CASE Refine
  BY <1>0, <1>1, RefineStep, ConstructRecord DEF Refine, Constructing, RInv
<1>2. CASE Push
  BY <1>0, <1>2, PushStep, CreateLiveRecord DEF Push, NodeFinished, GenerationFits, RInv
<1>3. CASE Pop
  BY <1>0, <1>3, PopStep DEF RInv
<1>4. CASE Prune
  BY <1>0, <1>4, PruneStep DEF RInv
<1>5. CASE Descend(Held)
  BY <1>0, <1>5, DescendStep DEF RInv
<1>6. CASE Report(Held)
  BY <1>0, <1>6, ReportStep DEF RInv
<1>7. CASE Skip \/ Leave(Held)
  <2>1. UNCHANGED treeVars
    BY <1>7 DEF Skip, Leave
  <2> QED
    BY <1>0, <1>7, <2>1, SkipOrLeaveStep, SameTreeRecord DEF RInv
<1>8. CASE Tell \/ Stop \/ UNCHANGED vars
  <2>1. UNCHANGED <<treeVars, stack, at, t_path>>
    BY <1>8 DEF Tell, AutomorphismImplicit, AddAutomorphism, Stop, vars, prunerVars
  <2> QED
    BY <1>0, <2>1, StutterStep, SameTreeRecord DEF RInv
<1> QED
  BY <1>1, <1>2, <1>3, <1>4, <1>5, <1>6, <1>7, <1>8 DEF Next

LEMMA AlwaysRInv == Spec /\ []GenerationFits => []RInv
BY InitRInv, NextRInv, PTL DEF Spec

(* Only the construction of a node changes what is recorded.               *)
LEMMA NextImproves == RInv /\ [Next]_vars => [Improves]_<<trace, values>>
<1> SUFFICES ASSUME RInv, [Next]_vars PROVE Improves \/ UNCHANGED <<trace, values>>
  BY DEF Improves
<1>0. TreeInv /\ RecordInv
  BY KnownOfTree DEF RInv
<1>1. CASE Refine
  BY <1>0, <1>1, ConstructImproves DEF Refine, Constructing
<1>2. CASE Push
  BY <1>2 DEF Push, NodeFinished, CreateLive
<1>3. CASE Pop
  BY <1>3 DEF Pop, BeforeDescend, PruneSubtree, coordVars, treeVars
<1>4. CASE Prune
  BY <1>4 DEF Prune, Update, Merge, Absorb, PruneSubtree, coordVars, treeVars
<1>5. CASE Descend(Held)
  BY <1>5 DEF Descend, CreateBegin, coordVars
<1>6. CASE Report(Held)
  BY <1>6 DEF Report, ReportVisited, AutomorphismLeaf, PruneSubtree, coordVars
<1>7. CASE Tell \/ Skip \/ Leave(Held) \/ Stop \/ UNCHANGED vars
  BY <1>7 DEF Tell, AutomorphismImplicit, Skip, Leave, Stop, vars, treeVars, coordVars
<1> QED
  BY <1>1, <1>2, <1>3, <1>4, <1>5, <1>6, <1>7 DEF Next

-----------------------------------------------------------------------------

(* What invariant_coordinator asserts about levels and generations         *)
(* (tree_create_node_begin and end, tree_before_descend, better_invariant) *)
(* holds throughout every depth first search, of every tree, as long as    *)
(* the generation fits in the SizeType it is stored as.                    *)
THEOREM CoordinatorAssertionsHold ==
  Spec /\ [](generation < SizeTypeSize) => []GenerationsAgree
<1>1. RInv => GenerationsAgree
  BY DEF RInv, IInv
<1> QED
  BY <1>1, AlwaysRInv, PTL DEF GenerationFits

(* The work stack is the path to the node under construction, whatever is  *)
(* skipped or pruned: only nodes that were finished and not flagged get on *)
(* it, one per level, and max_level is never more than the tree has levels.*)
THEOREM StackIsPath ==
  Spec /\ [](generation < SizeTypeSize) =>
          [](/\ ControlTypeOK
             /\ StackOK
             /\ \A i \in 1 .. Len(stack) : Level(stack[i].node) = i - 1)
<1>1. RInv => /\ ControlTypeOK
              /\ StackOK
              /\ \A i \in 1 .. Len(stack) : Level(stack[i].node) = i - 1
  BY DEF RInv, IInv, Typed, StatusOK, PathOK
<1> QED
  BY <1>1, AlwaysRInv, PTL DEF GenerationFits

(* The invariant providers, each with a trace of its own, stay in step     *)
(* with the coordinator and with every node that still counts, whatever    *)
(* part of the record better nodes replace: extend_trace never overwrites  *)
(* or skips a value, better_invariant cuts every trace at the same place.  *)
THEOREM TracesAlwaysInStep == Spec /\ [](generation < SizeTypeSize) => []TracesInStep
<1>1. RInv => TracesInStep
  BY KnownOfTree, InStep DEF RInv
<1> QED
  BY <1>1, AlwaysRInv, PTL DEF GenerationFits

(* What add_invariant_element compares a node with is what the nodes that  *)
(* still count have emitted, on every level of their paths.                *)
THEOREM RecordAlwaysAgrees == Spec /\ [](generation < SizeTypeSize) => []RecordAgrees
<1>1. RInv => RecordAgrees
  BY Agrees DEF RInv
<1> QED
  BY <1>1, AlwaysRInv, PTL DEF GenerationFits

(* add_invariant_element and better_invariant only ever make the record    *)
(* longer or better, one level at a time, from the root down.              *)
THEOREM RecordAlwaysImproves == Spec /\ [](generation < SizeTypeSize) => RecordImproves
<1>1. Spec /\ []GenerationFits => [][Improves]_<<trace, values>>
  BY AlwaysRInv, NextImproves, PTL DEF Spec
<1> QED
  BY <1>1 DEF Improves, RecordImproves, GenerationFits

(* The candidate leaf (report_leaf, prune_canon_leaf) is never one of a    *)
(* replaced trace: it is a leaf, as deep as the record, and its path has   *)
(* emitted exactly what is recorded.                                       *)
THEOREM CandidateAlwaysOnRecord == Spec /\ [](generation < SizeTypeSize) => []CandidateOnRecord
<1>1. RInv => CandidateOnRecord
  BY DEF RInv, RecordInv
<1> QED
  BY <1>1, AlwaysRInv, PTL DEF GenerationFits

-----------------------------------------------------------------------------
(* What is updated is on the way to the node that was popped.              *)
UpdatePath ==
  /\ Idle => moves = {}
  /\ ~Idle => /\ at # NoNode /\ gens # <<>>
              /\ \E n \in 1 .. Len(at.node) + 1 : OnTheWay(at.node, n)

PrunerInv ==
  /\ UpdatePath
  /\ MovesReal
  /\ forest \in [tree.nodes -> tree.nodes]
  /\ \A c \in tree.nodes \ {Root} : SameBelow(c, forest[c])

LEMMA PrunerOfVisited ==
  ASSUME IInv, PrunerInv
  PROVE  PrunerAt(at.node) /\ (~Idle => at # NoNode)
<1>1. ~Idle => at # NoNode /\ at.node \in tree.nodes
  BY AtFacts DEF PrunerInv, UpdatePath
<1> QED
  BY <1>1 DEF PrunerInv, UpdatePath, PrunerAt, UpdatePathTo

LEMMA PrunerOfNode ==
  ASSUME NEW t, PrunerAt(t)', (~Idle => at # NoNode /\ at.node = t)'
  PROVE  PrunerInv'
<1>1. ASSUME ~Idle' PROVE (\E n \in 1 .. Len(at.node) + 1 : OnTheWay(at.node, n))'
  <2>1. PICK n \in 1 .. Len(t) + 1 : OnTheWay(t, n)'
    BY <1>1 DEF PrunerAt, UpdatePathTo
  <2>2. at'.node = t
    BY <1>1
  <2> QED
    BY <2>1, <2>2 DEF OnTheWay, UpPath, Seen, Ancestor
<1> QED
  BY <1>1 DEF PrunerInv, UpdatePath, PrunerAt, UpdatePathTo

LEMMA InitPruner == Init /\ pruner = "basic" => GensInv /\ PrunerInv
<1> SUFFICES ASSUME Init, pruner = "basic" PROVE GensInv /\ PrunerInv
  OBVIOUS
<1>1. GensInv /\ PrunerAt(Root) /\ Idle
  BY InitGens, InitPrunerAt DEF Init, PrunerInit, Idle
<1> QED
  BY <1>1 DEF PrunerInv, UpdatePath, PrunerAt, UpdatePathTo

(* Between updates.                                                        *)
LEMMA IdlePruner ==
  ASSUME IInv, PrunerInv, Idle, UNCHANGED <<tree, forest, t_path, moves>>
  PROVE  PrunerInv'
<1>1. PrunerAt(at.node)
  BY PrunerOfVisited
<1>2. PrunerAt(Root)' /\ Idle'
  BY <1>1, IdlePrunerAt DEF Idle
<1> QED
  BY <1>2, PrunerOfNode

LEMMA SamePruner ==
  ASSUME IInv, PrunerInv, UNCHANGED <<tree, gens, nodeGens, forest, t_path, moves, at>>
  PROVE  PrunerInv'
<1>1. PICK t : t = at.node
  OBVIOUS
<1>2. PrunerAt(t) /\ (~Idle => at # NoNode)
  BY <1>1, PrunerOfVisited
<1>3. PrunerAt(t)' /\ (Idle' <=> Idle)
  BY <1>2, SamePrunerAt DEF Idle
<1> QED
  BY <1>1, <1>2, <1>3, PrunerOfNode

(* An update starts.                                                       *)
LEMMA StartPruner ==
  ASSUME IInv, GensInv, PrunerInv, Idle, NEW t \in tree.nodes, at' # NoNode, at'.node = t,
         NeedUpdate(t), Start(t), tree' = tree
  PROVE  PrunerInv' /\ ~Idle'
<1>1. PrunerAt(at.node)
  BY PrunerOfVisited
<1>2. PrunerAt(t)' /\ ~Idle'
  BY <1>1, StartPrunerAt
<1> QED
  BY <1>2, PrunerOfNode

(* The highest node is updated.                                            *)
LEMMA HighestFacts ==
  ASSUME IInv, GensInv, UpdatePath, ~Idle
  PROVE  \E t \in tree.nodes : \E n \in 1 .. Len(t) + 1 :
           /\ t = at.node /\ at # NoNode /\ gens # <<>> /\ OnTheWay(t, n)
           /\ Highest \in tree.nodes /\ Highest = Ancestor(t, Len(t) + 1 - n)
           /\ Len(Highest) = Len(t) + 1 - n /\ Len(t) \in Nat
           /\ Highest # Root => Seen(Parent(Highest))
           /\ Seen(Highest) <=> moves # {}
<1>1. at # NoNode /\ at.node \in tree.nodes
  BY AtFacts DEF UpdatePath
<1>2. UpdatePathTo(at.node)
  BY <1>1 DEF UpdatePath, UpdatePathTo
<1> QED
  BY <1>1, <1>2, HighestAt

LEMMA UpdatePruner ==
  ASSUME IInv, GensInv, PrunerInv, Update(Held), at' = at
  PROVE  GensInv' /\ PrunerInv'
<1>1. PICK t : t = at.node
  OBVIOUS
<1>2. PrunerAt(t) /\ ~Idle /\ at # NoNode
  BY <1>1, PrunerOfVisited DEF Update
<1>3. GensInv' /\ PrunerAt(t)'
  BY <1>2, UpdatePrunerAt
<1> QED
  BY <1>1, <1>2, <1>3, PrunerOfNode

LEMMA MergePruner ==
  ASSUME IInv, GensInv, PrunerInv, Merge(Held), at' = at
  PROVE  GensInv' /\ PrunerInv'
<1>1. PICK t : t = at.node
  OBVIOUS
<1>2. PrunerAt(t) /\ ~Idle /\ at # NoNode
  BY <1>1, PrunerOfVisited DEF Merge
<1>3. GensInv' /\ PrunerAt(t)'
  BY <1>2, MergePrunerAt
<1> QED
  BY <1>1, <1>2, <1>3, PrunerOfNode

-----------------------------------------------------------------------------
(* What is pruned never takes the candidate away.                          *)

LEMMA CandidatePlaced ==
  ASSUME IInv, GensInv, PrunerInv
  PROVE  /\ canon_leaf \in tree.nodes \cup {NoNode} /\ NoNode \notin tree.nodes
         /\ \E u : UpdatePathTo(u)
<1>1. canon_leaf \in tree.nodes \cup {NoNode} /\ NoNode \notin tree.nodes
  BY NoNodeAssumption DEF IInv, Typed, ControlTypeOK, GensInv, Symmetric
<1>2. PICK u : u = at.node
  OBVIOUS
<1>3. UpdatePathTo(u)
  BY <1>2, PrunerOfVisited DEF PrunerAt
<1> QED
  BY <1>1, <1>3

(* The elements of the work stack and the one that was popped: none is of  *)
(* the candidate, which has been reported, and the children from its       *)
(* next_child on have not been created.                                    *)
Work == {stack[i] : i \in 1 .. Len(stack)} \cup (IF at = NoNode THEN {} ELSE {at})
NotYet(e) == \A c \in Children(e.node) : Last(c) >= e.next_child => status[c] = "absent"

WorkInv ==
  /\ \A t \in tree.nodes \ {Root} : status[t] # "absent" => status[Parent(t)] \in {"live", "pruned"}
  /\ \A e \in Work : NotYet(e) /\ e.node # canon_leaf
  /\ canon_leaf # NoNode => /\ status[canon_leaf] = "live"
                            /\ (canon_leaf # Root => node_gen[canon_leaf] >= generations[Level(canon_leaf)])

LEMMA WorkType == IInv => \A e \in Work : e \in Elems /\ e.node \in tree.nodes
<1>1. ASSUME IInv, NEW i \in 1 .. Len(stack) PROVE stack[i] \in Elems
  BY <1>1, ElementOf DEF IInv, Typed, StackOK
<1>2. IInv /\ at # NoNode => at \in Elems
  BY DEF IInv, Typed, StackOK
<1> QED
  BY <1>1, <1>2 DEF Work, Elems

LEMMA InitWork == Init => WorkInv
<1> SUFFICES ASSUME Init PROVE WorkInv
  OBVIOUS
<1>1. Work = {}
  BY DEF Work, Init
<1>2. canon_leaf = NoNode /\ \A t \in tree.nodes \ {Root} : status[t] = "absent"
  BY DEF Init, TreeInit
<1> QED
  BY <1>1, <1>2 DEF WorkInv

(* Finished nodes are pruned, but not the candidate.                       *)
LEMMA WorkKept ==
  ASSUME IInv, WorkInv, UNCHANGED <<tree, node_gen, generations>>, Work' \subseteq Work,
         canon_leaf' \in {canon_leaf, NoNode},
         \A s \in tree.nodes : \/ status'[s] = status[s]
                               \/ status[s] = "live" /\ status'[s] = "pruned",
         canon_leaf' # NoNode => status'[canon_leaf] = status[canon_leaf]
  PROVE  WorkInv'
<1>0. IsTree(tree)
  BY DEF IInv, Input
<1>1. ASSUME NEW t \in tree.nodes \ {Root}, status'[t] # "absent"
      PROVE  status'[Parent(t)] \in {"live", "pruned"}
  <2>1. Parent(t) \in tree.nodes
    BY <1>0, ParentFacts
  <2>2. status[t] # "absent"
    BY <1>1
  <2>3. status[Parent(t)] \in {"live", "pruned"}
    BY <2>2 DEF WorkInv
  <2> QED
    BY <2>1, <2>3
<1>2. ASSUME NEW e \in Work'
      PROVE  /\ \A c \in Children(e.node) : Last(c) >= e.next_child => status'[c] = "absent"
             /\ e.node # canon_leaf'
  <2>1. e \in Work /\ e.node \in tree.nodes
    BY <1>2, WorkType
  <2>2. NotYet(e) /\ e.node # canon_leaf
    BY <2>1 DEF WorkInv
  <2>3. e.node # NoNode
    BY <2>1 DEF IInv, Input
  <2>4. ASSUME NEW c \in Children(e.node), Last(c) >= e.next_child PROVE status'[c] = "absent"
    <3>1. c \in tree.nodes /\ status[c] = "absent"
      BY <1>0, <2>1, <2>2, <2>4, ChildrenAreNodes DEF NotYet
    <3> QED
      BY <3>1
  <2> QED
    BY <2>2, <2>3, <2>4
<1>3. canon_leaf' # NoNode => /\ status'[canon_leaf'] = "live"
                              /\ (canon_leaf' # Root => node_gen[canon_leaf'] >= generations[Level(canon_leaf')])
  BY DEF WorkInv
<1> QED
  BY <1>1, <1>2, <1>3 DEF WorkInv, NotYet, Children, Parent, Root, Level

(* An event in the construction of a node.                                 *)
LEMMA ConstructWork ==
  ASSUME IInv, WorkInv, Construct, UNCHANGED <<stack, at>>
  PROVE  WorkInv'
<1>1. /\ tree' = tree /\ cur # NoNode /\ generations' = generations
      /\ canon_leaf' \in {canon_leaf, NoNode}
      /\ status' \in {status, [status EXCEPT ![cur] = "pruned"]}
      /\ canon_leaf' = NoNode \/ node_gen' = node_gen
  <2>1. ASSUME EmitBetterByVisitor \/ EmitBetterByValue
        PROVE  /\ tree' = tree /\ cur # NoNode /\ generations' = generations
               /\ canon_leaf' = NoNode /\ status' = status
    <3>1. PICK k, tr : Better(cur, k, tr)
      BY <2>1 DEF EmitBetterByVisitor, EmitBetterByValue
    <3>2. cur # NoNode
      BY <2>1 DEF EmitBetterByVisitor, EmitBetterByValue, SameVisitor, Emitting
    <3> QED
      BY <3>1, <3>2 DEF Better, PruneCanonLeaf
  <2>2. ASSUME EmitWorseVisitor \/ EmitWorseValue \/ CreateShort
        PROVE  /\ tree' = tree /\ cur # NoNode /\ generations' = generations
               /\ canon_leaf' = canon_leaf /\ status' = [status EXCEPT ![cur] = "pruned"]
               /\ node_gen' = node_gen
    <3>1. Discard(cur) /\ cur # NoNode
      BY <2>2 DEF EmitWorseVisitor, EmitWorseValue, CreateShort, SameVisitor, Emitting, Emitted
    <3> QED
      BY <3>1 DEF Discard, coordVars, leafVars
  <2>3. ASSUME EmitExtending \/ EmitSame
        PROVE  /\ tree' = tree /\ cur # NoNode /\ generations' = generations
               /\ canon_leaf' = canon_leaf /\ status' = status
               /\ node_gen' = node_gen
    BY <2>3 DEF EmitExtending, EmitSame, SameVisitor, Emitting, leafVars, coordVars
  <2> QED
    BY <2>1, <2>2, <2>3 DEF Construct
<1>2. cur \in tree.nodes /\ status[cur] = "constructing" /\ IsTree(tree) /\ ControlTypeOK
  BY <1>1, CurFacts DEF IInv, Input, Typed
<1>3. \A s \in tree.nodes : status'[s] = status[s] \/ (s = cur /\ status'[s] = "pruned")
  <2>1. status \in [tree.nodes -> {"absent", "constructing", "live", "pruned"}]
    BY <1>2 DEF ControlTypeOK
  <2>2. CASE status' = status
    BY <2>2
  <2>3. CASE status' = [status EXCEPT ![cur] = "pruned"]
    BY <2>1, <2>3
  <2> QED
    BY <1>1, <2>2, <2>3
<1>4. ASSUME NEW t \in tree.nodes \ {Root}, status'[t] # "absent"
      PROVE  status'[Parent(t)] \in {"live", "pruned"}
  <2>1. Parent(t) \in tree.nodes
    BY <1>2, ParentFacts
  <2>2. status[t] # "absent"
    BY <1>2, <1>3, <1>4
  <2>3. status[Parent(t)] \in {"live", "pruned"}
    BY <2>2 DEF WorkInv
  <2> QED
    BY <1>3, <2>1, <2>3
<1>5. Work' = Work
  BY DEF Work
<1>6. ASSUME NEW e \in Work
      PROVE  /\ \A c \in Children(e.node) : Last(c) >= e.next_child => status'[c] = "absent"
             /\ e.node # canon_leaf'
  <2>1. e.node \in tree.nodes /\ e.node # NoNode
    BY <1>6, WorkType DEF IInv, Input
  <2>2. NotYet(e) /\ e.node # canon_leaf
    BY DEF WorkInv
  <2>3. ASSUME NEW c \in Children(e.node), Last(c) >= e.next_child PROVE status'[c] = "absent"
    <3>1. c \in tree.nodes /\ status[c] = "absent"
      BY <1>2, <2>1, <2>2, <2>3, ChildrenAreNodes DEF NotYet
    <3> QED
      BY <1>2, <1>3, <3>1
  <2> QED
    BY <1>1, <2>1, <2>2, <2>3
<1>7. canon_leaf' # NoNode => /\ status'[canon_leaf'] = "live"
                              /\ (canon_leaf' # Root => node_gen'[canon_leaf'] >= generations'[Level(canon_leaf')])
  <2> SUFFICES ASSUME canon_leaf' # NoNode
               PROVE  /\ status'[canon_leaf] = "live"
                      /\ (canon_leaf # Root => node_gen'[canon_leaf] >= generations'[Level(canon_leaf)])
    BY <1>1
  <2>1. canon_leaf \in tree.nodes /\ status[canon_leaf] = "live"
        /\ (canon_leaf # Root => node_gen[canon_leaf] >= generations[Level(canon_leaf)])
    BY <1>1, <1>2 DEF WorkInv, ControlTypeOK
  <2> QED
    BY <1>1, <1>2, <1>3, <2>1
<1> QED
  BY <1>1, <1>4, <1>5, <1>6, <1>7 DEF WorkInv, NotYet, Children, Parent, Root, Level

LEMMA PushWork ==
  ASSUME RInv, WorkInv, Push, GenerationFits
  PROVE  WorkInv'
<1>0. IInv /\ TreeInv /\ RecordInv
  BY KnownOfTree DEF RInv
<1>1. /\ tree' = tree /\ cur # NoNode /\ status' = [status EXCEPT ![cur] = "live"]
      /\ stack' = Append(stack, Elem(cur, 0)) /\ at' = at
      /\ generations' = [generations EXCEPT ![Level(cur)] = Narrow(LevelGeneration(cur))]
      /\ UNCHANGED <<node_gen, canon_leaf>>
  BY DEF Push, NodeFinished, CreateLive, Emitted, dataVars, leafVars
<1>2. cur \in tree.nodes /\ status[cur] = "constructing" /\ IsTree(tree) /\ ControlTypeOK
  BY <1>0, <1>1, CurFacts DEF IInv, Input, Typed
<1>3. /\ status'[cur] = "live"
      /\ \A s \in tree.nodes \ {cur} : status'[s] = status[s]
  BY <1>1, <1>2 DEF ControlTypeOK
<1>4. ASSUME NEW t \in tree.nodes \ {Root}, status'[t] # "absent"
      PROVE  status'[Parent(t)] \in {"live", "pruned"}
  <2>1. Parent(t) \in tree.nodes
    BY <1>2, ParentFacts
  <2>2. status[t] # "absent"
    BY <1>2, <1>3, <1>4
  <2>3. status[Parent(t)] \in {"live", "pruned"}
    BY <2>2 DEF WorkInv
  <2> QED
    BY <1>3, <2>1, <2>3
<1>5. ASSUME NEW e \in Work' PROVE e \in Work \/ e = Elem(cur, 0)
  <2>1. stack \in Seq(Elems) /\ Elem(cur, 0) \in Elems
    BY <1>0, <1>2 DEF IInv, Typed, StackOK, Elem, Elems
  <2>2. /\ Len(stack') = Len(stack) + 1 /\ Len(stack) \in Nat
        /\ \A i \in 1 .. Len(stack) : stack'[i] = stack[i]
        /\ stack'[Len(stack) + 1] = Elem(cur, 0)
    BY <1>1, <2>1, Appended, LenNat
  <2>3. CASE e \in {stack'[i] : i \in 1 .. Len(stack')}
    <3>1. PICK i \in 1 .. Len(stack') : e = stack'[i]
      BY <2>3
    <3>2. i \in 1 .. Len(stack) \/ i = Len(stack) + 1
      BY <2>2
    <3> QED
      BY <2>2, <3>1, <3>2 DEF Work
  <2>4. CASE e \in IF at' = NoNode THEN {} ELSE {at'}
    BY <1>1, <2>4 DEF Work
  <2> QED
    BY <1>5, <2>3, <2>4 DEF Work
<1>6. ASSUME NEW e \in Work'
      PROVE  /\ \A c \in Children(e.node) : Last(c) >= e.next_child => status'[c] = "absent"
             /\ e.node # canon_leaf
  <2>1. CASE e \in Work
    <3>1. e.node \in tree.nodes
      BY <1>0, <2>1, WorkType
    <3>2. NotYet(e) /\ e.node # canon_leaf
      BY <2>1 DEF WorkInv
    <3>3. ASSUME NEW c \in Children(e.node), Last(c) >= e.next_child PROVE status'[c] = "absent"
      <4>1. c \in tree.nodes /\ status[c] = "absent"
        BY <1>2, <3>1, <3>2, <3>3, ChildrenAreNodes DEF NotYet
      <4> QED
        BY <1>2, <1>3, <4>1
    <3> QED
      BY <3>2, <3>3
  <2>2. CASE e = Elem(cur, 0)
    <3>1. e.node = cur
      BY <2>2 DEF Elem
    <3>2. ASSUME NEW c \in Children(cur) PROVE status'[c] = "absent"
      <4>1. c \in tree.nodes \ {Root} /\ Parent(c) = cur /\ Parent(c) # c
        BY <1>2, ChildrenAreNodes, ParentFacts
      <4>2. status[c] = "absent"
        BY <1>2, <4>1 DEF WorkInv
      <4> QED
        BY <1>3, <4>1, <4>2
    <3>3. cur # canon_leaf
      BY <1>1, <1>2 DEF WorkInv
    <3> QED
      BY <3>1, <3>2, <3>3
  <2> QED
    BY <1>5, <1>6, <2>1, <2>2
<1>7. ASSUME canon_leaf # NoNode
      PROVE  /\ status'[canon_leaf] = "live"
             /\ (canon_leaf # Root => node_gen[canon_leaf] >= generations'[Level(canon_leaf)])
  <2>1. canon_leaf \in tree.nodes /\ status[canon_leaf] = "live"
        /\ (canon_leaf # Root => node_gen[canon_leaf] >= generations[Level(canon_leaf)])
    BY <1>2, <1>7 DEF WorkInv, ControlTypeOK
  <2>2. ~IsExtending(cur) /\ cur # Root
    BY <1>0, <1>1, <1>7, NoCandidateWhileExtending DEF IsExtending
  <2>3. /\ LevelGeneration(cur) = generations[Level(cur)] /\ Level(cur) \in Levels
        /\ generations[Level(cur)] \in Nat /\ generations[Level(cur)] <= generation
        /\ generation \in Nat
    BY <1>0, <1>1, <1>2, <2>2, CurFacts DEF IInv, GenerationsBounded, LevelGeneration, ControlTypeOK
  <2>4. Narrow(LevelGeneration(cur)) = generations[Level(cur)]
    BY <2>3, SizeTypeAssumption DEF GenerationFits, Narrow
  <2>5. generations' = generations
    BY <1>1, <1>2, <2>3, <2>4 DEF ControlTypeOK
  <2> QED
    BY <1>2, <1>3, <2>1, <2>5
<1> QED
  BY <1>1, <1>4, <1>6, <1>7 DEF WorkInv, NotYet, Children, Parent, Root, Level

LEMMA DescendWork ==
  ASSUME IInv, WorkInv, Descend(Held)
  PROVE  WorkInv'
<1>1. at # NoNode /\ at' = NoNode /\ cur = NoNode /\ status[at.node] # "pruned"
  BY AtFacts DEF Descend, Go, Ready
<1>2. PICK c \in Candidates(Held) :
        /\ \A d \in Candidates(Held) : c[Len(c)] <= d[Len(d)]
        /\ stack' = Append(stack, Resume(c))
        /\ CreateBegin(c)
  BY DEF Descend
<1>3. /\ at.node \in tree.nodes /\ at.next_child \in Nat
      /\ status[at.node] = "live" /\ Level(at.node) = Len(stack)
  BY <1>1, AtFacts
<1>4. c \in Children(at.node) /\ Last(c) >= at.next_child /\ IsTree(tree) /\ ControlTypeOK
  BY <1>2 DEF Candidates, Last, IInv, Input, Typed
<1>5. /\ c \in tree.nodes \ {Root} /\ Parent(c) = at.node /\ Level(c) = Level(at.node) + 1
      /\ Last(c) = c[Len(c)] /\ Last(c) \in Nat
  BY <1>3, <1>4, ChildrenAreNodes
<1>6. at \in Work /\ NotYet(at)
  BY <1>1 DEF Work, WorkInv
<1>7. status[c] = "absent"
  BY <1>4, <1>6 DEF NotYet
<1>8. /\ tree' = tree /\ status' = [status EXCEPT ![c] = "constructing"]
      /\ node_gen' = [node_gen EXCEPT ![c] = BeginGeneration(c)]
      /\ UNCHANGED <<generations, canon_leaf>>
  BY <1>2 DEF CreateBegin, coordVars, leafVars
<1>9. /\ status'[c] = "constructing"
      /\ \A s \in tree.nodes \ {c} : status'[s] = status[s] /\ node_gen'[s] = node_gen[s]
  BY <1>4, <1>5, <1>8 DEF ControlTypeOK
<1>10. ASSUME NEW t \in tree.nodes \ {Root}, status'[t] # "absent"
       PROVE  status'[Parent(t)] \in {"live", "pruned"}
  <2>1. Parent(t) \in tree.nodes
    BY <1>4, ParentFacts
  <2>2. status[Parent(t)] \in {"live", "pruned"}
    BY <1>3, <1>5, <1>9, <1>10 DEF WorkInv
  <2> QED
    BY <1>7, <1>9, <2>1, <2>2
<1>11. ASSUME NEW e \in Work' PROVE (e \in Work /\ e # at) \/ e = Resume(c)
  <2>1. stack \in Seq(Elems) /\ Resume(c) \in Elems
    BY <1>3, <1>5 DEF IInv, Typed, StackOK, Resume, Elem, Elems
  <2>2. /\ Len(stack') = Len(stack) + 1 /\ Len(stack) \in Nat
        /\ \A i \in 1 .. Len(stack) : stack'[i] = stack[i]
        /\ stack'[Len(stack) + 1] = Resume(c)
    BY <1>2, <2>1, Appended, LenNat
  <2>3. PICK i \in 1 .. Len(stack') : e = stack'[i]
    BY <1>1, <1>11 DEF Work
  <2>4. CASE i = Len(stack) + 1
    BY <2>2, <2>3, <2>4
  <2>5. CASE i \in 1 .. Len(stack)
    <3>1. e = stack[i] /\ e \in Work
      BY <2>2, <2>3, <2>5 DEF Work
    <3>2. Level(e.node) = i - 1
      BY <2>5, <3>1 DEF IInv, StatusOK, PathOK
    <3>3. e # at
      BY <1>3, <2>2, <2>5, <3>2
    <3> QED
      BY <3>1, <3>3
  <2> QED
    BY <2>2, <2>4, <2>5
<1>12. ASSUME NEW e \in Work'
       PROVE  /\ \A b \in Children(e.node) : Last(b) >= e.next_child => status'[b] = "absent"
              /\ e.node # canon_leaf
  <2>1. CASE e \in Work /\ e # at
    <3>1. e.node \in tree.nodes
      BY <2>1, WorkType
    <3>2. NotYet(e) /\ e.node # canon_leaf
      BY <2>1 DEF WorkInv
    <3>3. e.node # at.node
      <4>1. PICK i \in 1 .. Len(stack) : e = stack[i]
        BY <1>1, <2>1 DEF Work
      <4>2. Level(e.node) = i - 1 /\ Len(stack) \in Nat
        BY <4>1, LenNat DEF IInv, StatusOK, PathOK, Typed, StackOK
      <4> QED
        BY <1>3, <4>1, <4>2
    <3>4. ASSUME NEW b \in Children(e.node), Last(b) >= e.next_child PROVE status'[b] = "absent"
      <4>1. b \in tree.nodes /\ status[b] = "absent" /\ Parent(b) = e.node
        BY <1>4, <3>1, <3>2, <3>4, ChildrenAreNodes DEF NotYet
      <4>2. b # c
        BY <1>5, <3>3, <4>1
      <4> QED
        BY <1>9, <4>1, <4>2
    <3> QED
      BY <3>2, <3>4
  <2>2. CASE e = Resume(c)
    <3>1. e.node = at.node /\ e.next_child = Last(c) + 1
      BY <1>5, <2>2 DEF Resume, Elem
    <3>2. ASSUME NEW b \in Children(at.node), Last(b) >= Last(c) + 1 PROVE status'[b] = "absent"
      <4>1. b \in tree.nodes /\ Last(b) \in Nat
        BY <1>3, <1>4, ChildrenAreNodes
      <4>2. Last(b) >= at.next_child /\ Last(b) # Last(c)
        BY <1>3, <1>4, <1>5, <3>2, <4>1
      <4>3. status[b] = "absent" /\ b # c
        BY <1>6, <4>2 DEF NotYet
      <4> QED
        BY <1>9, <4>1, <4>3
    <3>3. at.node # canon_leaf
      BY <1>6 DEF WorkInv
    <3> QED
      BY <3>1, <3>2, <3>3
  <2> QED
    BY <1>11, <1>12, <2>1, <2>2
<1>13. ASSUME canon_leaf # NoNode
       PROVE  /\ status'[canon_leaf] = "live"
              /\ (canon_leaf # Root => node_gen'[canon_leaf] >= generations[Level(canon_leaf)])
  <2>1. canon_leaf \in tree.nodes /\ status[canon_leaf] = "live"
        /\ (canon_leaf # Root => node_gen[canon_leaf] >= generations[Level(canon_leaf)])
    BY <1>4, <1>13 DEF WorkInv, ControlTypeOK
  <2>2. canon_leaf # c
    BY <1>7, <2>1
  <2> QED
    BY <1>9, <2>1, <2>2
<1> QED
  BY <1>8, <1>10, <1>12, <1>13 DEF WorkInv, NotYet, Children, Parent, Root, Level

LEMMA ReportWork ==
  ASSUME RInv, GensInv, WorkInv, Report(Held)
  PROVE  WorkInv'
<1>0. IInv /\ TreeInv /\ RecordInv /\ IsTree(tree) /\ ControlTypeOK
  BY KnownOfTree DEF RInv, IInv, Input, Typed
<1>1. PICK t : t = at.node
  OBVIOUS
<1>2. /\ ReportVisited(t, Held) /\ IsLeaf(t) /\ status[t] # "pruned" /\ at # NoNode
      /\ at' = NoNode /\ stack' = stack
  BY <1>1 DEF Report, Go, Ready
<1>3. t \in tree.nodes /\ UpToDate(t) /\ cur # Root /\ status[t] = "live"
      /\ Level(t) = Len(stack)
  <2>1. /\ t \in tree.nodes /\ status[t] \in {"live", "pruned"} /\ ~Outdated(t) /\ cur = NoNode
        /\ Level(t) = Len(stack)
    BY <1>0, <1>1, <1>2, AtFacts
  <2>2. Root # NoNode
    BY <1>0 DEF TreeInv, Input, IsTree
  <2> QED
    BY <1>2, <2>1, <2>2 DEF UpToDate
<1>4. Work' \subseteq Work /\ \A e \in Work' : e.node # t
  <2>1. ASSUME NEW e \in Work' PROVE e \in Work /\ e.node # t
    <3>1. PICK i \in 1 .. Len(stack) : e = stack[i]
      BY <1>2 DEF Work
    <3>2. Level(e.node) = i - 1 /\ Len(stack) \in Nat
      BY <1>0, <3>1, LenNat DEF IInv, StatusOK, PathOK, Typed, StackOK
    <3> QED
      BY <1>3, <3>1, <3>2 DEF Work
  <2> QED
    BY <2>1
<1>5. CASE FindsAutomorphism(t) /\ AutomorphismLeaf(t, Held)
  <2>1. PICK a : a = BelowCommon(t) /\ PruneSubtree(a, {})
    BY <1>5 DEF AutomorphismLeaf
  <2>2. /\ canon_leaf \in tree.nodes /\ IsLeaf(canon_leaf) /\ Level(t) = Level(canon_leaf)
        /\ tree.cert[t] = tree.cert[canon_leaf] /\ tree.cert[t] \in Nat /\ canon_leaf # NoNode
    BY <1>2, <1>3, <1>5, KnownOfTree, ExplicitIsReal DEF RInv, FindsAutomorphism
  <2>3. canon_leaf' = canon_leaf
    BY <1>2, <2>2 DEF ReportVisited, ReportLeaf, Reference
  <2>4. t # canon_leaf
    BY <1>1, <1>2 DEF WorkInv, Work
  <2>5. ~Above(a, canon_leaf)
    BY <1>0, <1>3, <2>1, <2>2, <2>4, BelowCommonIs
  <2>6. /\ \A s \in tree.nodes : \/ status'[s] = status[s]
                                 \/ status[s] = "live" /\ status'[s] = "pruned"
        /\ status'[canon_leaf] = status[canon_leaf]
        /\ UNCHANGED <<tree, node_gen, generations>>
    BY <2>1, <2>2, <2>5, SubtreeSpares
  <2> QED
    BY <1>0, <1>4, <2>3, <2>6, WorkKept
<1>6. CASE UNCHANGED <<tree, status, child_pruned, coordVars, dataVars, values,
                       q_max_level, cur, emitted, prunerVars>>
  <2>1. UNCHANGED <<tree, status, node_gen, generations>>
    BY <1>6 DEF coordVars, dataVars
  <2>2. CASE canon_leaf' = canon_leaf
    BY <1>0, <1>4, <2>1, <2>2, WorkKept
  <2>3. CASE canon_leaf' = t
    <3>1. t # Root => node_gen[t] >= generations[Level(t)]
      BY <1>0, <1>3, UpToDateLevel
    <3>2. \A e \in Work' : NotYet(e) /\ e.node # t
      BY <1>4 DEF WorkInv
    <3> QED
      BY <1>3, <2>1, <2>3, <3>1, <3>2 DEF WorkInv, NotYet, Children, Parent, Root, Level
  <2> QED
    BY <1>2, <2>2, <2>3 DEF ReportVisited, ReportLeaf
<1> QED
  BY <1>2, <1>5, <1>6 DEF ReportVisited

LEMMA PopWork ==
  ASSUME IInv, WorkInv, Pop
  PROVE  WorkInv'
<1>0. IsTree(tree) /\ ControlTypeOK
  BY DEF IInv, Input, Typed
<1>1. Work' \subseteq Work
  <2> DEFINE n == Len(stack)
  <2>1. /\ n \in Nat /\ n >= 1 /\ at' = stack[n] /\ stack' = SubSeq(stack, 1, n - 1)
        /\ stack \in Seq(Elems)
    BY DEF IInv, Typed, StackOK, Pop
  <2>2. n - 1 \in Nat /\ n - 1 <= Len(stack) /\ n \in 1 .. Len(stack)
    BY <2>1
  <2> HIDE DEF n
  <2>3. /\ Len(stack') = n - 1
        /\ \A i \in 1 .. n - 1 : i \in 1 .. Len(stack) /\ stack'[i] = stack[i]
    <3>1. Len(stack') = n - 1
      BY <2>1, <2>2, Prefix
    <3>2. ASSUME NEW i \in 1 .. n - 1 PROVE i \in 1 .. Len(stack) /\ stack'[i] = stack[i]
      <4>1. i \in 1 .. Len(stack) /\ n - 1 \in 0 .. Len(stack)
        BY <2>1, <2>2
      <4>2. SubSeq(stack, 1, n - 1)[i] = stack[i]
        BY <2>1, <4>1, PrefixElements
      <4> QED
        BY <2>1, <4>1, <4>2
    <3> QED
      BY <3>1, <3>2
  <2>4. ASSUME NEW e \in Work' PROVE \E i \in 1 .. Len(stack) : e = stack[i]
    <3>1. CASE \E i \in 1 .. Len(stack') : e = stack'[i]
      BY <2>3, <3>1
    <3>2. CASE e = at'
      BY <2>1, <2>2, <3>2
    <3> QED
      BY <2>4, <3>1, <3>2 DEF Work
  <2> QED
    BY <2>4 DEF Work
<1>2. CASE PruneSubtree(at'.node, {}) /\ PruneCanonLeafBelow(at'.node)
  <2>1. PICK t : t = at'.node /\ PruneSubtree(t, {}) /\ PruneCanonLeafBelow(t)
    BY <1>2
  <2>2. /\ canon_leaf' \in {canon_leaf, NoNode}
        /\ canon_leaf' # NoNode => canon_leaf \in tree.nodes /\ ~Above(t, canon_leaf)
    BY <1>0, <2>1 DEF PruneCanonLeafBelow, PruneCanonLeaf, ControlTypeOK
  <2>3. /\ \A s \in tree.nodes : \/ status'[s] = status[s]
                                 \/ status[s] = "live" /\ status'[s] = "pruned"
        /\ canon_leaf' # NoNode => status'[canon_leaf] = status[canon_leaf]
        /\ UNCHANGED <<tree, node_gen, generations>>
    BY <2>1, <2>2, SubtreeSpares
  <2> QED
    BY <1>1, <2>2, <2>3, WorkKept
<1>3. CASE UNCHANGED treeVars
  <2>1. UNCHANGED <<tree, status, node_gen, generations, canon_leaf>>
    BY <1>3 DEF treeVars, dataVars, coordVars, leafVars
  <2> QED
    BY <1>1, <2>1, WorkKept
<1> QED
  BY <1>2, <1>3 DEF Pop, BeforeDescend

(* Steps of the pruner.                                                    *)
LEMMA SameWork ==
  ASSUME IInv, WorkInv, UNCHANGED treeVars, Work' \subseteq Work
  PROVE  WorkInv'
<1>1. UNCHANGED <<tree, status, node_gen, generations, canon_leaf>>
  BY DEF treeVars, dataVars, coordVars, leafVars
<1> QED
  BY <1>1, WorkKept

LEMMA MergeWork ==
  ASSUME IInv, GensInv, PrunerInv, CanonPath, WorkInv, Merge(Held), UNCHANGED <<stack, at>>
  PROVE  WorkInv'
<1>0. Work' \subseteq Work /\ IsTree(tree) /\ ControlTypeOK /\ Symmetric
  BY DEF Work, IInv, Input, Typed, GensInv
<1>1. PICK m \in moves :
        LET r == forest[m[2]]
            s == forest[m[3]]
        IN \/ r = s /\ UNCHANGED <<treeVars, forest, gens, nodeGens, chainVars>>
           \/ r # s /\ \E keep \in {Keep(r, s, Held)} :
                          \E other \in {r, s} \ {keep} : Absorb(keep, other)
  BY DEF Merge
<1>2. CASE UNCHANGED <<treeVars, forest, gens, nodeGens, chainVars>>
  <2>1. UNCHANGED treeVars
    BY <1>2
  <2> QED
    BY <1>0, <2>1, SameWork
<1>3. ASSUME NEW keep, keep = Keep(forest[m[2]], forest[m[3]], Held),
             NEW other \in {forest[m[2]], forest[m[3]]} \ {keep}, Absorb(keep, other)
      PROVE  WorkInv'
  <2>1. PICK c, d : c = m[2] /\ d = m[3]
    OBVIOUS
  <2>2. c \in tree.nodes \ {Root} /\ Parent(c) = Highest /\ SameBelow(c, d)
    BY <2>1 DEF PrunerInv, MovesReal
  <2>3. d \in tree.nodes \ {Root} /\ Parent(d) = Parent(c)
    BY <1>0, <2>2, SameBelowSiblings DEF Siblings
  <2>4. PICK r, s : r = forest[c] /\ s = forest[d]
    OBVIOUS
  <2>5. SameBelow(c, r) /\ SameBelow(d, s)
    BY <2>2, <2>3, <2>4 DEF PrunerInv
  <2>6. r \in tree.nodes \ {Root} /\ Parent(r) = Highest
    BY <1>0, <2>2, <2>5, SameBelowSiblings DEF Siblings
  <2>7. s \in tree.nodes \ {Root} /\ Parent(s) = Highest
    BY <1>0, <2>2, <2>3, <2>5, SameBelowSiblings DEF Siblings
  <2>8. keep = Keep(r, s, Held) /\ other \in {r, s} \ {keep} /\ ~Idle
    BY <1>3, <2>1, <2>4 DEF Merge
  <2>9. canon_leaf # NoNode => canon_leaf \in tree.nodes /\ ~Above(other, canon_leaf)
    BY <1>0, <2>6, <2>7, <2>8, CandidatePlaced, OtherIsNotAbove
  <2>10. PruneSubtree(other, {other}) /\ canon_leaf' = canon_leaf
    BY <1>3 DEF Absorb, leafVars
  <2>11. /\ \A b \in tree.nodes : \/ status'[b] = status[b]
                                  \/ status[b] = "live" /\ status'[b] = "pruned"
         /\ canon_leaf' # NoNode => status'[canon_leaf] = status[canon_leaf]
         /\ UNCHANGED <<tree, node_gen, generations>>
    BY <2>9, <2>10, SubtreeSpares
  <2> QED
    BY <1>0, <2>10, <2>11, WorkKept
<1> QED
  BY <1>1, <1>2, <1>3

-----------------------------------------------------------------------------
(* Everything together.                                                    *)

AllInv == RInv /\ GensInv /\ PrunerInv /\ CanonPath /\ WorkInv

LEMMA InitAll == Init /\ pruner = "basic" => AllInv
<1> SUFFICES ASSUME Init, pruner = "basic" PROVE AllInv
  OBVIOUS
<1>1. Idle
  BY DEF Init, PrunerInit, Idle
<1>2. CanonPath
  BY <1>1 DEF CanonPath
<1> QED
  BY <1>2, InitRInv, InitPruner, InitWork DEF AllInv

LEMMA NextAll == AllInv /\ GenerationFits /\ [Next]_vars => AllInv'
<1> SUFFICES ASSUME AllInv, GenerationFits, [Next]_vars PROVE AllInv'
  OBVIOUS
<1>0. /\ IInv /\ RInv /\ GensInv /\ PrunerInv /\ CanonPath /\ WorkInv /\ pruner = "basic"
      /\ RInv'
  BY NextRInv DEF AllInv, RInv, GensInv
<1> SUFFICES GensInv' /\ PrunerInv' /\ CanonPath' /\ WorkInv'
  BY <1>0 DEF AllInv
(* An idle pruner stays as it is.                                          *)
<1>1. ASSUME Idle, UNCHANGED <<tree, pruner, forest, t_path, moves>>
      PROVE  PrunerInv' /\ CanonPath'
  <2>1. Idle'
    BY <1>1 DEF Idle
  <2> QED
    BY <1>0, <1>1, <2>1, IdlePruner, IdleCanon
<1>2. CASE Refine
  <2>1. /\ UNCHANGED <<tree, pruner, gens, nodeGens, forest, t_path, moves, stack, at>>
        /\ Construct
    BY <1>2, InputStep, <1>0 DEF Refine, Constructing, prunerVars, setup, IInv, Next
  <2>2. cur # NoNode
    BY <2>1 DEF Construct, EmitExtending, EmitBetterByVisitor, EmitBetterByValue, EmitSame,
       EmitWorseVisitor, EmitWorseValue, CreateShort, SameVisitor, Emitting, Emitted
  <2>3. Idle
    BY <1>0, <2>2 DEF IInv, StatusOK
  <2> QED
    BY <1>0, <1>1, <2>1, <2>3, SameGens, ConstructWork
<1>3. CASE Push
  <2>1. /\ UNCHANGED <<tree, pruner, gens, nodeGens, forest, t_path, moves>>
        /\ cur # NoNode
    BY <1>3 DEF Push, NodeFinished, CreateLive, Emitted, prunerVars, setup
  <2>2. Idle
    BY <1>0, <2>1 DEF IInv, StatusOK
  <2> QED
    BY <1>0, <1>1, <1>3, <2>1, <2>2, SameGens, PushWork
<1>4. CASE Tell
  <2>1. /\ UNCHANGED treeVars /\ cur # NoNode /\ UNCHANGED <<stack, at>>
        /\ \E p \in tree.auts : AddAutomorphism(p, Holders(Held))
    BY <1>4 DEF Tell, AutomorphismImplicit, MustTell, Emitted
  <2>2. PICK p \in tree.auts : AddAutomorphism(p, Holders(Held))
    BY <2>1
  <2>3. /\ BasicAdd(p) /\ UNCHANGED <<tree, pruner, forest, t_path, moves>>
    BY <1>0, <2>1, <2>2 DEF AddAutomorphism, chainVars, setup, treeVars
  <2>4. Idle
    BY <1>0, <2>1 DEF IInv, StatusOK
  <2>5. Work' \subseteq Work
    BY <2>1 DEF Work
  <2> QED
    BY <1>0, <1>1, <2>1, <2>3, <2>4, <2>5, AddGens, SameWork
<1>5. CASE Skip \/ Leave(Held)
  <2>1. /\ UNCHANGED <<tree, pruner, gens, nodeGens, forest, t_path, moves, stack>>
        /\ UNCHANGED treeVars /\ at' = NoNode /\ Idle
    BY <1>5 DEF Skip, Leave, Go, Ready, prunerVars, chainVars, setup, treeVars
  <2>2. Work' \subseteq Work
    BY <2>1 DEF Work
  <2> QED
    BY <1>0, <1>1, <2>1, <2>2, SameGens, SameWork
<1>6. CASE Descend(Held)
  <2>1. /\ UNCHANGED <<tree, pruner, gens, nodeGens, forest, t_path, moves>> /\ Idle
    BY <1>6 DEF Descend, CreateBegin, CountChild, Go, Ready, chainVars, setup
  <2> QED
    BY <1>0, <1>1, <1>6, <2>1, SameGens, DescendWork
<1>7. CASE Report(Held)
  <2>1. PICK t : t = at.node
    OBVIOUS
  <2>2. ReportVisited(t, Held) /\ Idle /\ IsLeaf(t) /\ status[t] # "pruned" /\ at # NoNode
    BY <1>7, <2>1 DEF Report, Go, Ready
  <2>3. CASE FindsAutomorphism(t) /\ AutomorphismLeaf(t, Held)
    <3>1. /\ AddAutomorphism(ExplicitAutomorphism(t),
                             Held \cup {canon_leaf, canon_graph', extra_graph'})
          /\ UNCHANGED tree
      BY <2>3 DEF AutomorphismLeaf, PruneSubtree
    <3>2. BasicAdd(ExplicitAutomorphism(t)) /\ UNCHANGED <<pruner, forest, t_path, moves>>
      BY <1>0, <3>1 DEF AddAutomorphism, chainVars, setup
    <3>3. t \in tree.nodes /\ UpToDate(t) /\ cur # Root
      <4>1. /\ t \in tree.nodes /\ status[t] \in {"live", "pruned"} /\ ~Outdated(t)
            /\ cur = NoNode
        BY <1>0, <2>1, <2>2, AtFacts
      <4>2. Root # NoNode
        BY <1>0 DEF IInv, Input, IsTree
      <4> QED
        BY <2>2, <4>1, <4>2 DEF UpToDate
    <3>4. ExplicitAutomorphism(t) \in tree.auts
      BY <1>0, <2>2, <2>3, <3>3, KnownOfTree, ExplicitIsReal DEF RInv
    <3> QED
      BY <1>0, <1>1, <1>7, <2>2, <3>1, <3>2, <3>4, AddGens, ReportWork
  <2>4. CASE UNCHANGED <<tree, status, child_pruned, coordVars, dataVars, values,
                         q_max_level, cur, emitted, prunerVars>>
             /\ UNCHANGED chainVars
    <3>1. UNCHANGED <<tree, pruner, gens, nodeGens, forest, t_path, moves>>
      BY <2>4 DEF prunerVars, chainVars, setup
    <3> QED
      BY <1>0, <1>1, <1>7, <2>2, <3>1, SameGens, ReportWork
  <2> QED
    BY <1>0, <2>2, <2>3, <2>4 DEF ReportVisited
<1>8. CASE Pop
  <2>1. PICK t : t = at'.node
    OBVIOUS
  <2>2. at = NoNode /\ BeforeDescend(t)
    BY <1>8, <2>1 DEF Pop
  <2>3. Idle
    BY <1>0, <2>2 DEF PrunerInv, UpdatePath
  <2>4. CASE UNCHANGED <<tree, pruner, gens, nodeGens, forest, t_path, moves>>
    BY <1>0, <1>1, <1>8, <2>3, <2>4, SameGens, PopWork
  <2>5. CASE UNCHANGED treeVars /\ Start(t) /\ NeedUpdate(t)
    <3>1. /\ UNCHANGED <<tree, pruner, gens, nodeGens>> /\ canon_leaf' = canon_leaf
      BY <2>5 DEF Start, chainVars, setup, treeVars, leafVars
    <3>2. t \in tree.nodes /\ at' # NoNode
      <4>1. IInv' /\ at' \in Elems'
        <5>1. IInv'
          BY <1>0 DEF RInv
        <5>2. stack \in Seq(Elems) /\ stack # <<>> /\ at' = stack[Len(stack)]
          BY <1>0, <1>8 DEF Pop, IInv, Typed, StackOK
        <5>3. at' \in Elems
          BY <5>2, ElementOf
        <5> QED
          BY <3>1, <5>1, <5>3 DEF Elems
      <4>2. t \in tree.nodes
        BY <2>1, <3>1, <4>1 DEF Elems
      <4>3. at' # NoNode
        BY <1>0, <3>1, <4>1, NothingPoppedAssumption DEF Elems, GensInv, Symmetric
      <4> QED
        BY <4>2, <4>3
    <3>3. PrunerInv' /\ CanonPath'
      <4>1. PrunerInv'
        BY <1>0, <2>1, <2>3, <2>5, <3>1, <3>2, StartPruner
      <4>2. CanonPath'
        BY <1>0, <2>3, <2>5, <3>1, <3>2, CandidatePlaced, StartCanon
      <4> QED
        BY <4>1, <4>2
    <3> QED
      BY <1>0, <1>8, <3>1, <3>3, SameGens, PopWork
  <2> QED
    <3>1. \/ UNCHANGED <<tree, pruner, gens, nodeGens, forest, t_path, moves>>
          \/ UNCHANGED treeVars /\ Start(t) /\ NeedUpdate(t)
      BY <1>0, <2>2 DEF BeforeDescend, PruneSubtree, PruneVisited, prunerVars, chainVars, setup,
         treeVars
    <3> QED
      BY <2>4, <2>5, <3>1
<1>9. CASE Prune
  <2>1. UNCHANGED <<stack, at>> /\ ~Idle /\ canon_leaf' = canon_leaf
    BY <1>9 DEF Prune, Update, Merge, Absorb, treeVars, leafVars
  <2>2. CASE Update(Held)
    <3>1. GensInv' /\ PrunerInv'
      BY <1>0, <2>1, <2>2, UpdatePruner
    <3>2. UNCHANGED treeVars /\ Work' \subseteq Work
      BY <2>1, <2>2 DEF Update, Work
    <3>3. StopUpdate \/ NextUpdate \/ SameUpdate
      BY <2>2 DEF Update
    <3>4. CanonPath'
      BY <1>0, <2>1, <3>3, CandidatePlaced, UpdateCanon
    <3> QED
      BY <1>0, <3>1, <3>2, <3>4, SameWork
  <2>3. CASE Merge(Held)
    <3>1. GensInv' /\ PrunerInv'
      BY <1>0, <2>1, <2>3, MergePruner
    <3>2. NextUpdate \/ SameUpdate
      BY <2>3 DEF Merge
    <3>3. CanonPath'
      BY <1>0, <2>1, <3>2, CandidatePlaced, UpdateCanon
    <3> QED
      BY <1>0, <2>1, <2>3, <3>1, <3>3, MergeWork
  <2> QED
    BY <1>9, <2>2, <2>3 DEF Prune
<1>10. CASE Stop \/ UNCHANGED vars
  <2>1. UNCHANGED vars
    BY <1>10 DEF Stop
  <2>2. /\ UNCHANGED <<tree, gens, nodeGens, pruner, forest, t_path, c_path, moves, at, canon_leaf>>
        /\ UNCHANGED treeVars /\ Work' \subseteq Work
    BY <2>1 DEF vars, treeVars, prunerVars, chainVars, setup, leafVars, Work
  <2>3. CanonPath'
    BY <1>0, <2>2 DEF CanonPath, Idle, Highest, UpPath, Above, Ancestor
  <2> QED
    BY <1>0, <2>2, <2>3, SameGens, SamePruner, SameWork
<1> QED
  BY <1>2, <1>3, <1>4, <1>5, <1>6, <1>7, <1>8, <1>9, <1>10 DEF Next

LEMMA AlwaysAll == Spec /\ []GenerationFits /\ pruner = "basic" => []AllInv
BY InitAll, NextAll, PTL DEF Spec

-----------------------------------------------------------------------------

(* The invariant of aut_pruner_basic::tree_data, whenever automorphisms are*)
(* found and however far updates of an ancestry have got (need_update,     *)
(* update, tree_before_descend): a node that has seen all generators has an*)
(* ancestry that has, and was given what its parent has.                   *)
THEOREM GeneratorsAlwaysPassedDown ==
  Spec /\ [](generation < SizeTypeSize) /\ pruner = "basic" => []GeneratorsPassedDown
<1>1. AllInv => GeneratorsPassedDown
  <2> SUFFICES ASSUME AllInv PROVE GeneratorsPassedDown
    OBVIOUS
  <2>1. GensSeen
    BY DEF AllInv, GensInv
  <2> QED
    BY <2>1 DEF GensSeen, Seen, GeneratorsPassedDown
<1> QED
  BY <1>1, AlwaysAll, PTL DEF GenerationFits

(* Children that tree_before_descend puts in one set have subtrees that    *)
(* look the same: a product of generators that fix the path to the parent  *)
(* maps one to the other, although the generators were found elsewhere,    *)
(* passed down the tree and filtered on the way.                           *)
THEOREM SetsAlwaysOrbits ==
  Spec /\ [](generation < SizeTypeSize) /\ pruner = "basic" => []SetsAreOrbits
<1>1. AllInv => SetsAreOrbits
  BY DEF AllInv, PrunerInv, SameBelow, SetsAreOrbits
<1> QED
  BY <1>1, AlwaysAll, PTL DEF GenerationFits

(* However subtrees are pruned (automorphism_leaf, the sets of equivalent  *)
(* children, nodes of a replaced trace), the candidate leaf is never among *)
(* them: it counts until it is given up or a better leaf takes its place.  *)
THEOREM CandidateAlwaysRecorded ==
  Spec /\ [](generation < SizeTypeSize) /\ pruner = "basic" => []CandidateIsRecorded
<1>1. AllInv => CandidateIsRecorded
  <2> SUFFICES ASSUME AllInv, canon_leaf # NoNode
               PROVE  UpToDate(canon_leaf) /\ IsLeaf(canon_leaf) /\ max_level = Level(canon_leaf)
    BY DEF CandidateIsRecorded
  <2>1. /\ IInv /\ CandidateOnRecord /\ canon_leaf \in tree.nodes /\ ControlTypeOK
        /\ IsTree(tree)
    BY DEF AllInv, RInv, RecordInv, IInv, Input, Typed, ControlTypeOK
  <2>2. IsLeaf(canon_leaf) /\ max_level = Level(canon_leaf)
    BY <2>1 DEF CandidateOnRecord
  <2>3. /\ status[canon_leaf] = "live"
        /\ canon_leaf # Root => node_gen[canon_leaf] >= generations[Level(canon_leaf)]
    BY DEF AllInv, WorkInv
  <2>4. /\ Level(canon_leaf) \in Levels /\ node_gen[canon_leaf] \in Nat
        /\ generations[Level(canon_leaf)] \in Nat
    BY <2>1, PathLength DEF ControlTypeOK
  <2>5. UpToDate(canon_leaf)
    BY <2>2, <2>3, <2>4 DEF UpToDate, Outdated, Levels
  <2> QED
    BY <2>2, <2>5
<1> QED
  BY <1>1, AlwaysAll, PTL DEF GenerationFits

-----------------------------------------------------------------------------
(* The traversal: what it has still to do, and on which path it is.        *)

(* The nodes on the work stack, the one popped and the one constructed.    *)
Engaged == Working \cup ({cur} \ {NoNode})

(* A child yet to be created is one that the loop over the children of a   *)
(* node has not got to.                                                    *)
StillToDo ==
  \A w \in tree.nodes : status[w] = "live" =>
    \A c \in Children(w) : status[c] = "absent" /\ c \notin child_pruned =>
      \E e \in Work : e.node = w /\ Last(c) >= e.next_child

(* Nothing the traversal works on is outdated: tree_before_descend of the  *)
(* coordinator never prunes a node of a depth first traversal.             *)
StackCurrent ==
  \A e \in Work : e.node # Root =>
    Level(e.node) <= max_level /\ node_gen[e.node] >= generations[Level(e.node)]

OnePath == \A v, w \in Engaged : Len(v) <= Len(w) => Above(v, w)

(* The children merged are those of an ancestor of the candidate, or the   *)
(* pruner is not told of the candidate.                                    *)
CanonUp ==
  ~Idle /\ c_path # <<>> =>
    canon_leaf # NoNode /\ \E n \in 1 .. Len(canon_leaf) + 1 : c_path = UpPath(canon_leaf, n)

ChildrenCounted ==
  /\ child_count \in [tree.nodes -> {0, 1}]
  /\ \A t \in tree.nodes : status[t] \in {"absent", "constructing"} => child_count[t] = 0

StackInv == StillToDo /\ StackCurrent /\ OnePath /\ CanonUp /\ ChildrenCounted

LEMMA WorkFacts ==
  ASSUME IInv
  PROVE  /\ \A e \in Work : /\ e.node \in tree.nodes /\ e.next_child \in Nat
                            /\ status[e.node] \in {"live", "pruned"} /\ e.node # cur
                            /\ cur # NoNode => Level(e.node) < Level(cur)
                            /\ at # NoNode /\ e # at => Level(e.node) < Level(at.node)
         /\ Working = {e.node : e \in Work}
         /\ Engaged \subseteq tree.nodes
<1>1. /\ StackOK /\ PathOK /\ ControlTypeOK /\ IsTree(tree)
      /\ \A t \in tree.nodes : status[t] = "constructing" <=> t = cur
      /\ cur # NoNode => Level(cur) = Len(stack) /\ at = NoNode
  BY DEF IInv, Typed, StatusOK, Input
<1>2. Working = {e.node : e \in Work}
  BY DEF Working, Work
<1>3. ASSUME NEW e \in Work
      PROVE  /\ e.node \in tree.nodes /\ e.next_child \in Nat
             /\ status[e.node] \in {"live", "pruned"} /\ e.node # cur
             /\ cur # NoNode => Level(e.node) < Level(cur)
             /\ at # NoNode /\ e # at => Level(e.node) < Level(at.node)
  <2>1. e \in Elems
    BY <1>3, WorkType
  <2>2. e.node \in tree.nodes /\ e.next_child \in Nat
    BY <2>1 DEF Elems
  <2>3. CASE \E i \in 1 .. Len(stack) : e = stack[i]
    <3>1. PICK i \in 1 .. Len(stack) : e = stack[i]
      BY <2>3
    <3>2. status[e.node] \in {"live", "pruned"} /\ Level(e.node) = i - 1 /\ Len(stack) \in Nat
      BY <1>1, <3>1, LenNat DEF PathOK, StackOK
    <3>3. at # NoNode => Level(at.node) = Len(stack)
      BY <1>1 DEF PathOK
    <3> QED
      BY <1>1, <2>2, <3>2, <3>3
  <2>4. CASE at # NoNode /\ e = at
    BY <1>1, <2>2, <2>4 DEF PathOK
  <2> QED
    BY <1>3, <2>3, <2>4 DEF Work
<1>4. Engaged \subseteq tree.nodes
  BY <1>1, <1>2, <1>3 DEF Engaged, ControlTypeOK
<1> QED
  BY <1>2, <1>3, <1>4

-----------------------------------------------------------------------------
(* The leaves that can still be reported.                                  *)

(* Neither u nor anything above it has been pruned or flagged.             *)
Uncut(u) == \A a \in tree.nodes \ {Root} : Above(a, u) => status[a] # "pruned" /\ a \notin child_pruned

(* What can be reached from the root is cut, and what has been reported is *)
(* not held by the traversal.                                              *)
Reach == {l \in LeavesOf(tree) : Uncut(l) /\ (status[l] = "live" => l \in Working)}

LEMMA NothingBelow ==
  ASSUME ShapeInv, NEW c \in tree.nodes, status[c] \notin {"live", "pruned"},
         NEW t \in tree.nodes, Above(c, t), c # t
  PROVE  status[t] = "absent" /\ t \notin child_pruned
BY DEF ShapeInv, FinishedAbove

(* Below a finished node that the traversal has left nothing is open.      *)
LEMMA NothingLeft ==
  ASSUME IInv, ShapeInv, StackInv, NEW w \in tree.nodes, status[w] = "live",
         \A v \in Engaged : ~Above(w, v), NEW m \in Reach, Above(w, m)
  PROVE  FALSE
<1>1. IsTree(tree) /\ ControlTypeOK /\ m \in tree.nodes /\ m \in LeavesOf(tree)
      /\ Uncut(m) /\ (status[m] = "live" => m \in Working)
      /\ \A t \in tree.nodes : status[t] = "constructing" <=> t = cur
  BY DEF IInv, Input, Typed, Reach, LeavesOf, StatusOK
<1>2. \A v \in tree.nodes : Len(v) \in Nat
  BY <1>1, PathLength
<1>3. PICK S : S = {k \in Nat : \E v \in tree.nodes : /\ Above(w, v) /\ Above(v, m)
                                                      /\ status[v] # "absent"
                                                      /\ k = Len(m) - Len(v)}
  OBVIOUS
<1>4. S \in SUBSET Nat /\ S # {}
  <2>1. Len(w) <= Len(m) /\ Above(w, w) /\ status[w] # "absent"
    BY <1>1, AboveFacts, AboveOn
  <2>2. Len(m) - Len(w) \in Nat
    BY <1>1, <1>2, <2>1
  <2> QED
    BY <1>3, <2>1, <2>2
<1>5. PICK k \in S : \A j \in S : k <= j
  BY <1>4, LeastNatural
<1>6. PICK v \in tree.nodes : /\ Above(w, v) /\ Above(v, m) /\ status[v] # "absent"
                              /\ k = Len(m) - Len(v)
  BY <1>3
<1>7. v \notin Engaged
  BY <1>6
<1>8. status[v] = "live" /\ v \notin Working
  <2>1. status[v] # "pruned"
    BY <1>1, <1>6 DEF ShapeInv, RootLives, Uncut
  <2>2. v # cur
    <3>1. v # NoNode
      BY DEF IInv, Input
    <3> QED
      BY <1>7, <3>1 DEF Engaged
  <2>3. status[v] \in {"absent", "constructing", "live", "pruned"}
    BY <1>1 DEF ControlTypeOK
  <2> QED
    BY <1>1, <1>6, <1>7, <2>1, <2>2, <2>3 DEF Engaged
<1>9. v # m
  BY <1>1, <1>8
<1>10. PICK c \in Children(v) : c \in tree.nodes \ {Root} /\ Above(c, m) /\ Parent(c) = v
  BY <1>1, <1>6, <1>9, ChildTowards
<1>11. CASE status[c] = "absent"
  <2>1. c \notin child_pruned
    BY <1>1, <1>10 DEF Uncut
  <2>2. PICK e \in Work : e.node = v
    BY <1>8, <1>10, <1>11, <2>1 DEF StackInv, StillToDo
  <2> QED
    BY <1>8, <2>2, WorkFacts
<1>12. CASE status[c] # "absent"
  <2>1. Above(v, c) /\ Len(c) = Len(v) + 1
    BY <1>1, <1>10, ChildAbove
  <2>2. Above(w, c)
    BY <1>1, <1>6, <1>10, <2>1, AboveOn
  <2>3. Len(c) <= Len(m)
    BY <1>1, <1>10, AboveFacts
  <2>4. Len(m) - Len(c) \in S
    <3>1. Len(m) - Len(c) \in Nat
      BY <1>1, <1>2, <1>10, <2>3
    <3> QED
      BY <1>3, <1>10, <1>12, <2>2, <3>1
  <2>5. k <= Len(m) - Len(c)
    BY <1>5, <2>4
  <2> QED
    BY <1>1, <1>2, <1>6, <1>10, <2>1, <2>5
<1> QED
  BY <1>11, <1>12

(* They are the leaves that are open in the abstract specification: a node *)
(* whose smart pointers are gone has nothing open below it.                *)
LEMMA ReachIsOpen ==
  ASSUME IInv, ShapeInv, StackInv
  PROVE  Reach = OpenLeaves
<1>1. IsTree(tree) /\ NoNode \notin tree.nodes /\ ControlTypeOK
      /\ \A t \in tree.nodes : status[t] = "constructing" <=> t = cur
  BY DEF IInv, Input, Typed, StatusOK
<1>2. ASSUME NEW l \in OpenLeaves PROVE l \in Reach
  <2>1. l \in LeavesOf(tree) /\ l \in tree.nodes /\ (status[l] = "live" => l \in Working)
        /\ \A i \in 1 .. Len(l) : status[Ancestor(l, i)] # "pruned" /\ ~Flagged(Ancestor(l, i), Held)
    BY <1>2 DEF OpenLeaves, OpenIn, LeavesOf
  <2>2. ASSUME NEW a \in tree.nodes \ {Root}, Above(a, l)
        PROVE  status[a] # "pruned" /\ a \notin child_pruned
    <3>1. Len(a) \in 1 .. Len(l) /\ a = Ancestor(l, Len(a))
      BY <1>1, <2>1, <2>2, AboveFacts, ParentFacts DEF Level
    <3> QED
      BY <2>1, <3>1 DEF Flagged
  <2> QED
    BY <2>1, <2>2 DEF Reach, Uncut
<1>3. ASSUME NEW l \in Reach PROVE l \in OpenLeaves
  <2>1. l \in LeavesOf(tree) /\ l \in tree.nodes /\ (status[l] = "live" => l \in Working) /\ Uncut(l)
    BY <1>3 DEF Reach, LeavesOf
  <2>2. ASSUME NEW i \in 1 .. Len(l)
        PROVE  status[Ancestor(l, i)] # "pruned" /\ ~Flagged(Ancestor(l, i), Held)
    <3>1. PICK a : a = Ancestor(l, i)
      OBVIOUS
    <3>2. a \in tree.nodes \ {Root} /\ Above(a, l)
      BY <1>1, <2>1, <3>1, AncestorsAbove
    <3>3. status[a] # "pruned" /\ a \notin child_pruned
      BY <2>1, <3>2 DEF Uncut
    <3>4. ASSUME status[a] = "live", ~Exists(a, Held) PROVE FALSE
      <4>1. \A v \in Engaged : v \in Held /\ v # NoNode
        BY <1>1, WorkFacts DEF Engaged, Held
      <4>2. \A v \in Engaged : ~Above(a, v)
        BY <3>4, <4>1 DEF Exists, ExistsAmong, Holders
      <4> QED
        BY <1>3, <3>2, <3>4, <4>2, NothingLeft
    <3> QED
      BY <3>1, <3>3, <3>4 DEF Flagged
  <2> QED
    BY <2>1, <2>2 DEF OpenLeaves, OpenIn
<1> QED
  BY <1>2, <1>3

-----------------------------------------------------------------------------
(* Which leaves are dealt with.                                            *)

(* A node stands for all that have been cut off for it: it has not been    *)
(* merged into another set, and is not the child of a pair that is cut.    *)
InScope(u) == \A a \in tree.nodes \ {Root} :
                Above(a, u) => forest[a] = a /\ a \notin OneOfPair(Parent(a))
Scope == {u \in tree.nodes : InScope(u)}

(* The node constructed last, while there is no candidate.                 *)
Foremost == IF at # NoNode THEN at ELSE stack[Len(stack)]
Newest == IF cur # NoNode THEN cur ELSE Foremost.node

(* Without a candidate the traversal goes straight down to the first leaf. *)
Fresh ==
  canon_leaf = NoNode =>
    /\ Idle
    /\ \/ cur # NoNode /\ IsExtending(cur)
       \/ /\ cur = NoNode
          /\ Foremost \in Work /\ Foremost.next_child = 0 /\ status[Newest] = "live"
          /\ Level(Newest) = max_level /\ child_count[Newest] = 0
          /\ Children(Newest) \cap child_pruned \subseteq OneOfPair(Newest)

(* Leaves that the candidate is as good as; without a candidate, those that*)
(* whatever will be the next candidate is as good as.                      *)
BeatenBy(b, n) ==
  {l \in LeavesOf(tree) : IF b # NoNode THEN AsGood(b, l)
                          ELSE \A m \in LeavesOf(tree) : Above(n, m) => AsGood(m, l)}
Beaten == BeatenBy(canon_leaf, Newest)

(* In the nodes S: leaves are beaten, or one that is as good can be reached*)
(* in the same subtree.                                                    *)
ServedBy(S, R, B) ==
  \A u \in S : \A l \in LeavesOf(tree) :
    Above(u, l) => l \in B \/ \E m \in R : Above(u, m) /\ AsGood(m, l)
Served == ServedBy(Scope, Reach, Beaten)

(* Leaves may be lost that are beaten or can be replaced.                  *)
LEMMA ServedStep ==
  ASSUME IsTree(tree), NEW S \in SUBSET tree.nodes, NEW R \in SUBSET LeavesOf(tree), NEW B,
         ServedBy(S, R, B), NEW S2 \in SUBSET S, NEW R2 \in SUBSET LeavesOf(tree), NEW B2,
         B \subseteq B2,
         \A m \in B2 : m \in LeavesOf(tree),
         \A m \in B2, l \in LeavesOf(tree) : AsGood(m, l) => l \in B2,
         \A m \in R \ R2, u \in S2 : Above(u, m) =>
           m \in B2 \/ \E m2 \in R2 : Above(u, m2) /\ AsGood(m2, m)
  PROVE  ServedBy(S2, R2, B2)
<1>1. \A m \in LeavesOf(tree) : m \in tree.nodes
  BY DEF LeavesOf
<1> SUFFICES ASSUME NEW u \in S2, NEW l \in LeavesOf(tree), Above(u, l), l \notin B2
             PROVE  \E m \in R2 : Above(u, m) /\ AsGood(m, l)
  BY DEF ServedBy
<1>2. PICK m \in R : Above(u, m) /\ AsGood(m, l)
  BY DEF ServedBy
<1>3. CASE m \in R2
  BY <1>2, <1>3
<1>4. CASE m \notin R2
  <2>1. m \notin B2
    BY <1>2
  <2>2. PICK m2 \in R2 : Above(u, m2) /\ AsGood(m2, m)
    BY <1>2, <1>4, <2>1
  <2>3. AsGood(m2, l)
    BY <1>1, <1>2, <2>2, AsGoodOn
  <2> QED
    BY <2>2, <2>3
<1> QED
  BY <1>3, <1>4

LEMMA BeatenOn ==
  ASSUME IsTree(tree), NEW b \in tree.nodes \cup {NoNode}, NEW n,
         NEW m \in BeatenBy(b, n), NEW l \in LeavesOf(tree), AsGood(m, l)
  PROVE  l \in BeatenBy(b, n)
<1>1. \A k \in LeavesOf(tree) : k \in tree.nodes
  BY DEF LeavesOf
<1>2. m \in LeavesOf(tree)
  BY DEF BeatenBy
<1>3. CASE b # NoNode
  <2>1. AsGood(b, m)
    BY <1>3 DEF BeatenBy
  <2>2. AsGood(b, l)
    BY <1>1, <1>2, <1>3, <2>1, AsGoodOn
  <2> QED
    BY <1>3, <2>2 DEF BeatenBy
<1>4. CASE b = NoNode
  <2>1. ASSUME NEW k \in LeavesOf(tree), Above(n, k) PROVE AsGood(k, l)
    <3>1. AsGood(k, m)
      BY <1>4, <2>1 DEF BeatenBy
    <3> QED
      BY <1>1, <1>2, <3>1, AsGoodOn
  <2> QED
    BY <1>4, <2>1 DEF BeatenBy
<1> QED
  BY <1>3, <1>4

(* What is alive stands for itself.                                        *)
LEMMA LiveInScope ==
  ASSUME IsTree(tree), ShapeInv, NEW t \in tree.nodes, status[t] \in {"live", "constructing"}
  PROVE  t \in Scope /\ Uncut(t)
<1>1. ASSUME NEW a \in tree.nodes \ {Root}, Above(a, t)
      PROVE  /\ status[a] \in {"live", "constructing"} /\ a \notin child_pruned
             /\ forest[a] = a /\ a \notin OneOfPair(Parent(a))
  <2>1. status[a] \in {"live", "constructing"}
    BY <1>1 DEF ShapeInv, Living
  <2>2. a \notin child_pruned
    BY <2>1 DEF ShapeInv, Living
  <2>3. forest[a] = a
    BY <2>2 DEF ShapeInv, SetsCut
  <2>4. a \notin OneOfPair(Parent(a))
    <3>1. Parent(a) \in tree.nodes
      BY ParentFacts
    <3> QED
      BY <2>1, <3>1 DEF ShapeInv, PairsCut
  <2> QED
    BY <2>1, <2>2, <2>3, <2>4
<1> QED
  BY <1>1 DEF Scope, InScope, Uncut

(* Leaves below a node that has not been created, and has not been cut.    *)
LEMMA ReachBelow ==
  ASSUME IInv, ShapeInv, NEW c \in tree.nodes, status[c] \in {"absent", "constructing"}, Uncut(c),
         NEW l \in LeavesOf(tree), Above(c, l)
  PROVE  l \in Reach
<1>1. IsTree(tree) /\ l \in tree.nodes
  BY DEF IInv, Input, LeavesOf
<1>2. status[l] # "live"
  BY <1>1, NothingBelow
<1>3. ASSUME NEW a \in tree.nodes \ {Root}, Above(a, l)
      PROVE  status[a] # "pruned" /\ a \notin child_pruned
  <2>1. CASE Above(a, c)
    BY <1>3, <2>1 DEF Uncut
  <2>2. CASE ~Above(a, c)
    <3>1. Len(a) \in Nat /\ Len(c) \in Nat
      BY <1>1, PathLength
    <3>2. Above(c, a) /\ c # a
      BY <1>1, <1>3, <2>2, <3>1, AboveOn
    <3> QED
      BY <3>2, NothingBelow
  <2> QED
    BY <2>1, <2>2
<1> QED
  BY <1>2, <1>3 DEF Reach, Uncut

(* Of two children the one with the smaller vertex is never cut as one of  *)
(* a pair, and an automorphism maps the other to it.                       *)
LEMMA PairOther ==
  ASSUME Symmetric, NEW t \in tree.nodes
  PROVE  /\ \A d \in OneOfPair(t) : \E c \in Children(t) \ OneOfPair(t) : \E p \in tree.auts :
              Image(p, t) = t /\ Image(p, d) = c
         /\ \A r, s \in Children(t) : r # s /\ Last(r) <= Last(s) => r \notin OneOfPair(t)
<1>1. IsTree(tree) /\ HasPairs(tree)
  BY SymmetricTree, SymmetryAssumption DEF Symmetric
<1>2. ASSUME NEW d \in OneOfPair(t)
      PROVE  \E c \in Children(t) : /\ Children(t) = {c, d} /\ Last(c) < Last(d)
                                    /\ \E p \in tree.auts : Image(p, t) = t /\ Image(p, d) = c
  <2>1. t \in tree.fits /\ d \in Children(t)
    BY <1>2 DEF OneOfPair, Fits
  <2>2. PICK c \in Children(t) : Last(c) < Last(d)
    BY <1>2, <2>1 DEF OneOfPair
  <2>3. Last(c) \in Nat /\ Last(d) \in Nat
    BY <1>1, <2>1, <2>2, ChildrenAreNodes
  <2>4. c # d
    BY <2>2, <2>3
  <2>5. \E p \in tree.auts : Image(p, t) = t /\ Image(p, d) = c
    BY <1>1, <2>1, <2>2 DEF HasPairs, Children
  <2>6. \E e \in Children(t) \ {d} : Children(t) = {d, e}
    BY <1>1, <2>1 DEF HasPairs, Children
  <2>7. Children(t) = {c, d}
    BY <2>2, <2>4, <2>6
  <2> QED
    BY <2>2, <2>5, <2>7
<1>3. \A c \in Children(t) : Last(c) \in Nat
  BY <1>1, ChildrenAreNodes
<1>4. ASSUME NEW d \in OneOfPair(t)
      PROVE  \E c \in Children(t) \ OneOfPair(t) : \E p \in tree.auts :
               Image(p, t) = t /\ Image(p, d) = c
  <2>1. PICK c \in Children(t) : /\ Children(t) = {c, d} /\ Last(c) < Last(d)
                                 /\ \E p \in tree.auts : Image(p, t) = t /\ Image(p, d) = c
    BY <1>2, <1>4
  <2>2. c \notin OneOfPair(t)
    <3> SUFFICES ASSUME c \in OneOfPair(t) PROVE FALSE
      OBVIOUS
    <3>1. PICK e \in Children(t) : Last(e) < Last(c)
      BY <1>2
    <3>2. e \in {c, d}
      BY <2>1, <3>1
    <3> QED
      BY <1>3, <2>1, <3>1, <3>2
  <2> QED
    BY <2>1, <2>2
<1>5. ASSUME NEW r \in Children(t), NEW s \in Children(t), r # s, Last(r) <= Last(s),
             r \in OneOfPair(t)
      PROVE  FALSE
  <2>1. PICK c \in Children(t) : Children(t) = {c, r} /\ Last(c) < Last(r)
    BY <1>2, <1>5
  <2>2. s = c
    BY <1>5, <2>1
  <2> QED
    BY <1>3, <1>5, <2>1, <2>2
<1> QED
  BY <1>4, <1>5

(* Without a candidate there is a leaf to come below the newest node.      *)
LEMMA LeafToCome ==
  ASSUME Symmetric, IInv, ShapeInv, WorkInv, Fresh, canon_leaf = NoNode
  PROVE  \E l \in Reach : Above(Newest, l)
<1>1. IsTree(tree) /\ NoNode \notin tree.nodes
  BY DEF IInv, Input
<1>2. CASE cur # NoNode
  <2>1. Newest = cur /\ cur \in tree.nodes /\ status[cur] = "constructing"
    BY <1>2, CurFacts DEF Newest
  <2>2. PICK l \in LeavesOf(tree) : Above(cur, l)
    BY <1>1, <2>1, LeafBelow
  <2>3. Uncut(cur)
    BY <1>1, <2>1, LiveInScope
  <2>4. l \in Reach
    BY <2>1, <2>2, <2>3, ReachBelow
  <2> QED
    BY <2>1, <2>2, <2>4
<1>3. CASE cur = NoNode
  <2>1. PICK e : e = Foremost
    OBVIOUS
  <2>2. PICK t : t = Newest
    OBVIOUS
  <2>3. /\ e \in Work /\ t = e.node /\ e.next_child = 0 /\ status[t] = "live"
        /\ Children(t) \cap child_pruned \subseteq OneOfPair(t)
    BY <1>3, <2>1, <2>2 DEF Fresh, Newest
  <2>4. t \in tree.nodes /\ t \in Working
    BY <2>3, WorkFacts
  <2>5. Uncut(t)
    BY <1>1, <2>3, <2>4, LiveInScope
  <2>6. CASE IsLeaf(t)
    <3>1. t \in LeavesOf(tree)
      BY <2>4, <2>6 DEF IsLeaf, LeavesOf, Children
    <3>2. t \in Reach /\ Above(t, t)
      BY <1>1, <2>4, <2>5, <3>1, AboveOn DEF Reach
    <3> QED
      BY <2>2, <3>2
  <2>7. CASE ~IsLeaf(t)
    <3>1. PICK c0 \in Children(t) : TRUE
      BY <2>7 DEF IsLeaf
    <3>2. PICK c \in Children(t) : c \notin OneOfPair(t)
      BY <2>4, <3>1, PairOther
    <3>3. c \in tree.nodes \ {Root} /\ Parent(c) = t /\ Last(c) \in Nat
      BY <1>1, <2>4, <3>2, ChildrenAreNodes
    <3>4. status[c] = "absent"
      <4>1. NotYet(e)
        BY <2>3 DEF WorkInv
      <4> QED
        BY <2>3, <3>2, <3>3, <4>1 DEF NotYet
    <3>5. Uncut(c)
      <4>1. c \notin child_pruned
        BY <2>3, <3>2
      <4>2. \A a \in tree.nodes : Above(a, c) /\ a # c => Above(a, t)
        BY <1>1, <3>3, ChildAbove
      <4> QED
        BY <2>5, <3>4, <4>1, <4>2 DEF Uncut
    <3>6. PICK l \in LeavesOf(tree) : Above(c, l)
      BY <1>1, <3>3, LeafBelow
    <3>7. l \in Reach
      BY <3>3, <3>4, <3>5, <3>6, ReachBelow
    <3>8. Above(t, l)
      BY <1>1, <2>4, <3>3, <3>6, ChildAbove, AboveOn DEF LeavesOf
    <3> QED
      BY <2>2, <3>7, <3>8
  <2> QED
    BY <2>6, <2>7
<1> QED
  BY <1>2, <1>3

Promised == ShapeInv /\ StackInv /\ Fresh /\ Served
PInv == AllInv /\ Promised

LEMMA ServedKept ==
  ASSUME IsTree(tree), UNCHANGED <<tree, implicit>>, Served,
         NEW S, S = Scope', S \subseteq Scope,
         NEW R, R = Reach', NEW n, n = Newest', canon_leaf' \in tree.nodes \cup {NoNode},
         Beaten \subseteq BeatenBy(canon_leaf', n),
         \A m \in Reach \ R, u \in S : Above(u, m) =>
           m \in BeatenBy(canon_leaf', n) \/ \E m2 \in R : Above(u, m2) /\ AsGood(m2, m)
  PROVE  Served'
<1>1. Scope \subseteq tree.nodes /\ Reach \subseteq LeavesOf(tree)
  BY DEF Scope, Reach
<1>2. R \subseteq LeavesOf(tree)
  BY SameTreeTerms DEF Reach
<1>3. PICK B : B = BeatenBy(canon_leaf', n)
  OBVIOUS
<1>4. \A m \in B : m \in LeavesOf(tree)
  BY <1>3 DEF BeatenBy
<1>5. \A m \in B, l \in LeavesOf(tree) : AsGood(m, l) => l \in B
  BY <1>3, BeatenOn
<1>6. ServedBy(Scope, Reach, Beaten)
  BY DEF Served
<1>7. Beaten \subseteq B
  BY <1>3
<1>8. \A m \in Reach \ R, u \in S : Above(u, m) => m \in B \/ \E m2 \in R : Above(u, m2) /\ AsGood(m2, m)
  BY <1>3
<1>9. ServedBy(S, R, B)
  <2>1. S \in SUBSET Scope /\ Scope \in SUBSET tree.nodes /\ R \in SUBSET LeavesOf(tree)
        /\ Reach \in SUBSET LeavesOf(tree)
    BY <1>1, <1>2
  <2> QED
    BY <1>4, <1>5, <1>6, <1>7, <1>8, <2>1, ServedStep
<1>10. Beaten' = B
  BY <1>3, SameTreeTerms DEF Beaten, BeatenBy
<1> QED
  BY <1>9, <1>10, SameTreeTerms DEF Served, ServedBy

LEMMA ScopeKept ==
  ASSUME UNCHANGED <<tree, implicit, forest>>
  PROVE  Scope' = Scope
BY SameTreeTerms DEF Scope, InScope, Parent

LEMMA ReachKept ==
  ASSUME UNCHANGED <<tree, implicit, status, child_pruned>>, Working' = Working
  PROVE  Reach' = Reach
BY SameTreeTerms DEF Reach, Uncut

(* Every leaf is covered by one that remains.                              *)
LEMMA LeavesCovered ==
  ASSUME PInv, NEW l \in LeavesOf(tree)
  PROVE  \E m \in OpenLeaves \cup ({canon_leaf} \ {NoNode}) : LeafAtLeast(tree, m, l)
<1>1. /\ IInv /\ ShapeInv /\ StackInv /\ Fresh /\ Served /\ WorkInv /\ Symmetric /\ IsTree(tree)
      /\ \A k \in LeavesOf(tree) : k \in tree.nodes
      /\ canon_leaf \in tree.nodes \cup {NoNode}
  BY DEF PInv, Promised, AllInv, RInv, GensInv, IInv, Input, Typed, ControlTypeOK, LeavesOf
<1>2. OpenLeaves = Reach /\ Reach \subseteq LeavesOf(tree)
  BY <1>1, ReachIsOpen DEF Reach
<1>3. \E m \in Reach \cup ({canon_leaf} \ {NoNode}) : m \in tree.nodes /\ AsGood(m, l)
  <2>1. Root \in Scope /\ Above(Root, l)
    BY <1>1, LiveInScope, AncestorsAbove DEF ShapeInv, RootLives
  <2>2. l \in Beaten \/ \E m \in Reach : AsGood(m, l)
    BY <1>1, <2>1 DEF Served, ServedBy
  <2>3. CASE \E m \in Reach : AsGood(m, l)
    BY <1>1, <1>2, <2>3
  <2>4. CASE l \in Beaten /\ canon_leaf # NoNode
    BY <1>1, <2>4 DEF Beaten, BeatenBy
  <2>5. CASE l \in Beaten /\ canon_leaf = NoNode
    <3>1. PICK m \in Reach : Above(Newest, m)
      BY <1>1, <2>5, LeafToCome
    <3>2. AsGood(m, l)
      BY <1>2, <2>5, <3>1 DEF Beaten, BeatenBy
    <3> QED
      BY <1>1, <1>2, <3>1, <3>2
  <2> QED
    BY <2>2, <2>3, <2>4, <2>5
<1> QED
  BY <1>1, <1>2, <1>3, AsGoodRanks

(* When the traversal is over nothing can be reached.                      *)
LEMMA FoundAtTheEnd == PInv => CanonicalLeafFound
<1> SUFFICES ASSUME PInv, Finished
             PROVE  canon_leaf # NoNode /\ \A l \in LeavesOf(tree) : ~LeafBetter(tree, l, canon_leaf)
  BY DEF CanonicalLeafFound
<1>1. /\ IInv /\ ShapeInv /\ StackInv /\ Fresh /\ IsTree(tree) /\ NoNode \notin tree.nodes
      /\ \A t \in tree.nodes : status[t] = "constructing" <=> t = cur
  BY DEF PInv, Promised, AllInv, RInv, IInv, Input, StatusOK
<1>2. cur = NoNode /\ at = NoNode /\ stack = <<>>
  BY DEF Finished, Traversed
<1>3. Work = {} /\ Engaged = {}
  BY <1>2 DEF Work, Engaged, Working
<1>4. canon_leaf # NoNode
  BY <1>1, <1>2, <1>3 DEF Fresh
<1>5. Root \in tree.nodes /\ status[Root] = "live"
  BY <1>1, <1>2 DEF IsTree, ShapeInv, RootLives
<1>6. OpenLeaves = {}
  <2>1. \A m \in LeavesOf(tree) : Above(Root, m)
    BY <1>1, AncestorsAbove DEF LeavesOf
  <2>2. \A m \in Reach : FALSE
    <3> SUFFICES ASSUME NEW m \in Reach PROVE FALSE
      OBVIOUS
    <3>1. Above(Root, m)
      BY <2>1 DEF Reach
    <3> QED
      BY <1>1, <1>3, <1>5, <3>1, NothingLeft
  <2> QED
    BY <1>1, <2>2, ReachIsOpen
<1>7. \A l \in LeavesOf(tree) : LeafAtLeast(tree, canon_leaf, l)
  BY <1>6, LeavesCovered
<1> QED
  BY <1>4, <1>7 DEF LeafAtLeast

-----------------------------------------------------------------------------
(* Steps that leave the invariants of the traversal alone.                 *)

LEMMA StillToDoKept ==
  ASSUME StillToDo, tree' = tree,
         \A w \in tree.nodes : status'[w] = "live" => status[w] = "live",
         \A c \in tree.nodes : status'[c] = "absent" => status[c] = "absent",
         IsTree(tree), child_pruned \subseteq child_pruned',
         \A e \in Work \ Work' : \A c \in Children(e.node) :
           status'[e.node] = "live" /\ status'[c] = "absent" /\ c \notin child_pruned'
           /\ Last(c) >= e.next_child =>
             \E f \in Work' : f.node = e.node /\ Last(c) >= f.next_child
  PROVE  StillToDo'
<1>0. \A w : Children(w)' = Children(w)
  BY DEF Children
<1> SUFFICES ASSUME NEW w \in tree.nodes, status'[w] = "live", NEW c \in Children(w),
                    status'[c] = "absent", c \notin child_pruned'
             PROVE  \E f \in Work' : f.node = w /\ Last(c) >= f.next_child
  BY <1>0 DEF StillToDo
<1>1. c \in tree.nodes
  BY ChildrenAreNodes
<1>2. PICK e \in Work : e.node = w /\ Last(c) >= e.next_child
  BY <1>1 DEF StillToDo
<1> QED
  BY <1>2

LEMMA OnePathKept ==
  ASSUME OnePath, tree' = tree, Engaged' \subseteq Engaged
  PROVE  OnePath'
BY DEF OnePath, Above

LEMMA StackCurrentKept ==
  ASSUME StackCurrent, UNCHANGED <<max_level, node_gen, generations>>, Work' \subseteq Work
  PROVE  StackCurrent'
BY DEF StackCurrent, Level

LEMMA ChildrenCountedKept ==
  ASSUME ChildrenCounted, UNCHANGED <<tree, child_count>>,
         \A t \in tree.nodes : status'[t] \in {"absent", "constructing"} =>
                                 status[t] \in {"absent", "constructing"}
  PROVE  ChildrenCounted'
BY DEF ChildrenCounted

LEMMA CanonUpIdle == Idle' => CanonUp'
BY DEF CanonUp, Idle

(* The traversal has the same work, popped or not.                         *)
LEMMA StackSame ==
  ASSUME IInv, StackInv, UNCHANGED <<tree, status, child_pruned, child_count, cur>>,
         Work' = Work, Working' = Working
  PROVE  /\ StillToDo' /\ OnePath' /\ ChildrenCounted'
         /\ UNCHANGED <<max_level, node_gen, generations>> => StackCurrent'
<1>1. Engaged' = Engaged
  BY DEF Engaged
<1>2. IsTree(tree)
  BY DEF IInv, Input
<1> QED
  BY <1>1, <1>2, StillToDoKept, OnePathKept, StackCurrentKept, ChildrenCountedKept DEF StackInv

LEMMA StackKept ==
  ASSUME IInv, StackInv, UNCHANGED <<tree, status, child_pruned, child_count, stack, at, cur>>
  PROVE  /\ StillToDo' /\ OnePath' /\ ChildrenCounted'
         /\ UNCHANGED <<max_level, node_gen, generations>> => StackCurrent'
         /\ Work' = Work /\ Working' = Working /\ Foremost' = Foremost /\ Newest' = Newest
<1>1. Work' = Work /\ Working' = Working
  BY DEF Work, Working
<1>2. Foremost' = Foremost /\ Newest' = Newest
  BY DEF Foremost, Newest
<1> QED
  BY <1>1, <1>2, StackSame

(* Events that change neither the tree nor the candidate.                  *)
LEMMA MoveKeeps ==
  ASSUME PInv, UNCHANGED <<tree, implicit, status, child_pruned, child_count, cur,
                           forest, max_level, node_gen, generations, canon_leaf>>,
         Work' = Work, Working' = Working, Foremost' = Foremost,
         CanonUp', canon_leaf = NoNode => Idle'
  PROVE  Promised' /\ Reach' = Reach
<1>1. /\ IInv /\ ShapeInv /\ StackInv /\ Fresh /\ Served /\ IsTree(tree)
      /\ canon_leaf \in tree.nodes \cup {NoNode}
  BY DEF PInv, Promised, AllInv, RInv, IInv, Input, Typed, ControlTypeOK
<1>2. StackInv' /\ Newest' = Newest
  BY <1>1, StackSame DEF StackInv, Newest
<1>3. ShapeInv'
  BY <1>1, ShapeKept
<1>4. Fresh'
  <2>1. Children(Newest)' = Children(Newest) /\ OneOfPair(Newest)' = OneOfPair(Newest)
    BY <1>2, SameTreeTerms DEF Children, OneOfPair, Fits
  <2> QED
    BY <1>1, <1>2, <2>1 DEF Fresh, IsExtending, Level
<1>5. Scope' = Scope /\ Reach' = Reach
  BY <1>2, ScopeKept, ReachKept
<1>6. Served'
  <2>1. PICK S : S = Scope'
    OBVIOUS
  <2>2. PICK R : R = Reach'
    OBVIOUS
  <2>3. PICK n : n = Newest'
    OBVIOUS
  <2>4. Beaten \subseteq BeatenBy(canon_leaf', n)
    BY <1>2, <2>3 DEF Beaten
  <2> QED
    BY <1>1, <1>5, <2>1, <2>2, <2>3, <2>4, ServedKept
<1> QED
  BY <1>2, <1>3, <1>4, <1>5, <1>6 DEF Promised

LEMMA StayKeeps ==
  ASSUME PInv, UNCHANGED <<tree, implicit, status, child_pruned, child_count, stack, at, cur,
                           forest, max_level, node_gen, generations, canon_leaf>>,
         CanonUp', canon_leaf = NoNode => Idle'
  PROVE  Promised' /\ Reach' = Reach
BY StackKept, MoveKeeps DEF PInv, Promised, AllInv, RInv

-----------------------------------------------------------------------------
(* The construction of a node.                                             *)

(* What decides between a leaf below the node under construction and the   *)
(* candidate is what the node emits and what is recorded of its level.     *)
LEMMA AgainstCandidate ==
  ASSUME TreeInv, RecordInv, cur # NoNode, ~IsExtending(cur), canon_leaf # NoNode,
         NEW m \in tree.nodes, Above(cur, m),
         NEW rec, rec = RecordOf(trace, values, Level(cur)), NEW own, own = tree.elems[cur]
  PROVE  /\ canon_leaf \in tree.nodes /\ rec \in Seq(Elements) /\ own \in Seq(Elements)
         /\ Len(rec) = Len(trace[Level(cur)])
         /\ \A i \in 1 .. emitted : rec[i] = own[i]
         /\ emitted = end_index[cur] /\ emitted \in 0 .. Len(rec) /\ emitted <= Len(own)
         /\ (\E i \in Nat : DecidedAt(own, rec, i)) => AsGood(m, canon_leaf)
         /\ (\E i \in Nat : DecidedAt(rec, own, i)) => AsGood(canon_leaf, m)
<1>1. /\ IsTree(tree) /\ ControlTypeOK /\ canon_leaf \in tree.nodes
      /\ Level(canon_leaf) = max_level /\ PathRecorded(canon_leaf, max_level)
  BY DEF TreeInv, Input, RecordInv, CandidateOnRecord, ControlTypeOK
<1>2. PICK l : l = Level(cur)
  OBVIOUS
<1>3. /\ cur \in tree.nodes /\ cur # Root /\ l \in Levels /\ l <= max_level /\ l >= 1
      /\ Parent(cur) \in tree.nodes /\ UpToDate(Parent(cur)) /\ Level(Parent(cur)) = l - 1
      /\ max_level \in Levels
  BY <1>2, UnderConstruction
<1>4. /\ trace \in Traces /\ values \in AllValues /\ Lengths(trace, values)
      /\ Passed \in 0 .. Len(trace[l]) /\ Passed = emitted /\ emitted <= Len(tree.elems[cur])
      /\ own \in Seq(Elements)
  BY <1>2, PassedType
<1>5. rec \in Seq(Elements) /\ Len(rec) = Len(trace[l])
  BY <1>2, <1>3, <1>4, RecordEntries
<1>6. emitted = end_index[cur] /\ \A i \in 1 .. emitted : rec[i] = own[i]
  BY <1>2, <1>4 DEF RecordInv, CurFollows, Passed
<1>7. l \in Nat /\ max_level \in Nat /\ Len(m) \in Nat /\ l <= Len(m) /\ cur = Ancestor(m, l)
      /\ Len(canon_leaf) = max_level /\ l = Len(cur)
  BY <1>1, <1>2, <1>3, AboveFacts DEF Levels, Level
<1>8. PathElements(tree, m, l) = own
  BY <1>7 DEF PathElements
<1>9. PathElements(tree, canon_leaf, l) = rec
  BY <1>1, <1>2, <1>3, <1>7 DEF PathRecorded, OnPath
<1>10. ASSUME NEW k \in 1 .. l - 1
       PROVE  PathElements(tree, m, k) = PathElements(tree, canon_leaf, k)
  <2>1. k \in 0 .. l /\ k \in 0 .. l - 1 /\ k \in 0 .. max_level /\ l \in 0 .. Level(m)
    BY <1>3, <1>7 DEF Level
  <2>2. PathElements(tree, m, k) = PathElements(tree, cur, k)
    BY <1>1, <1>7, <2>1, PathToAncestor
  <2>3. PathElements(tree, Parent(cur), k) = PathElements(tree, cur, k)
    BY <1>1, <1>2, <1>3, <2>1, ParentIsAncestor
  <2>4. RecordOf(trace, values, k) = PathElements(tree, Parent(cur), k)
    BY <1>3, <2>1 DEF RecordInv, Followed, PathRecorded, OnPath
  <2>5. RecordOf(trace, values, k) = PathElements(tree, canon_leaf, k)
    BY <1>1, <2>1 DEF PathRecorded, OnPath
  <2> QED
    BY <2>2, <2>3, <2>4, <2>5
<1>11. l \in 1 .. Len(m) /\ l \in 1 .. Len(canon_leaf)
  BY <1>3, <1>7
<1>12. ASSUME \E i \in Nat : DecidedAt(own, rec, i) PROVE AsGood(m, canon_leaf)
  <2>1. ElementsBetter(own, rec)
    BY <1>4, <1>5, <1>12, DecidedSomewhere
  <2>2. BetterAt(m, canon_leaf, l)
    BY <1>8, <1>9, <1>10, <1>11, <2>1 DEF BetterAt
  <2> QED
    BY <1>1, <1>7, <2>2, BetterSomewhere DEF AsGood
<1>13. ASSUME \E i \in Nat : DecidedAt(rec, own, i) PROVE AsGood(canon_leaf, m)
  <2>1. ElementsBetter(rec, own)
    BY <1>4, <1>5, <1>13, DecidedSomewhere
  <2>2. BetterAt(canon_leaf, m, l)
    BY <1>8, <1>9, <1>10, <1>11, <2>1 DEF BetterAt
  <2> QED
    BY <1>1, <1>7, <2>2, BetterSomewhere DEF AsGood
<1> QED
  BY <1>1, <1>2, <1>4, <1>5, <1>6, <1>12, <1>13

LEMMA BelowIsBetter ==
  ASSUME TreeInv, RecordInv, EmitBetterByVisitor \/ EmitBetterByValue, canon_leaf # NoNode,
         NEW m \in tree.nodes, Above(cur, m)
  PROVE  AsGood(m, canon_leaf)
<1>1. Emitting /\ cur # NoNode /\ ~IsExtending(cur)
  BY DEF EmitBetterByVisitor, EmitBetterByValue, SameVisitor, Emitting
<1>2. PICK rec : rec = RecordOf(trace, values, Level(cur))
  OBVIOUS
<1>3. PICK own : own = tree.elems[cur]
  OBVIOUS
<1>4. /\ rec \in Seq(Elements) /\ own \in Seq(Elements)
      /\ \A i \in 1 .. emitted : rec[i] = own[i]
      /\ emitted \in 0 .. Len(rec)
      /\ (\E i \in Nat : DecidedAt(own, rec, i)) => AsGood(m, canon_leaf)
  BY <1>1, <1>2, <1>3, AgainstCandidate
<1>5. emitted + 1 <= Len(own) /\ own[emitted + 1] = NextElement
  BY <1>1, <1>3, ElementToEmit
<1>6. emitted < Len(rec) => ElementBetter(own[emitted + 1], rec[emitted + 1])
  BY <1>2, <1>5, RecordedIsBetter
<1>7. Len(rec) \in Nat /\ Len(own) \in Nat
  BY <1>4, LenNat
<1>8. DecidedAt(own, rec, emitted + 1) /\ emitted + 1 \in Nat
  BY <1>4, <1>5, <1>6, <1>7 DEF DecidedAt
<1> QED
  BY <1>4, <1>8

LEMMA BelowIsWorse ==
  ASSUME TreeInv, RecordInv, EmitWorseVisitor \/ EmitWorseValue \/ CreateShort,
         canon_leaf # NoNode, NEW m \in tree.nodes, Above(cur, m)
  PROVE  AsGood(canon_leaf, m)
<1>1. cur # NoNode /\ ~IsExtending(cur) /\ end_index[cur] < Len(trace[Level(cur)])
  BY DEF EmitWorseVisitor, EmitWorseValue, CreateShort, SameVisitor, Emitting, Emitted
<1>2. PICK rec : rec = RecordOf(trace, values, Level(cur))
  OBVIOUS
<1>3. PICK own : own = tree.elems[cur]
  OBVIOUS
<1>4. /\ rec \in Seq(Elements) /\ own \in Seq(Elements) /\ Len(rec) = Len(trace[Level(cur)])
      /\ \A i \in 1 .. emitted : rec[i] = own[i]
      /\ emitted = end_index[cur] /\ emitted \in 0 .. Len(rec) /\ emitted <= Len(own)
      /\ (\E i \in Nat : DecidedAt(rec, own, i)) => AsGood(canon_leaf, m)
  BY <1>1, <1>2, <1>3, AgainstCandidate
<1>5. rec[emitted + 1] = <<RecordedVisitor(cur), RecordedValue(cur, RecordedVisitor(cur))>>
  BY <1>1, <1>2, <1>4, ElementRecorded
<1>6. Len(rec) \in Nat /\ Len(own) \in Nat
  BY <1>4, LenNat
<1>7. emitted + 1 <= Len(own) => ElementBetter(rec[emitted + 1], own[emitted + 1])
  <2> SUFFICES ASSUME emitted + 1 <= Len(own)
               PROVE  ElementBetter(rec[emitted + 1], own[emitted + 1])
    OBVIOUS
  <2>1. ~Emitted
    BY <1>3, <1>4, <1>6 DEF Emitted
  <2>2. own[emitted + 1] = NextElement
    BY <1>3 DEF NextElement
  <2>3. \/ NextElement[1] > RecordedVisitor(cur)
        \/ /\ NextElement[1] = RecordedVisitor(cur)
           /\ NextElement[2] > RecordedValue(cur, NextElement[1])
    BY <2>1 DEF EmitWorseVisitor, EmitWorseValue, CreateShort, SameVisitor
  <2> QED
    BY <1>5, <2>2, <2>3 DEF ElementBetter
<1>8. DecidedAt(rec, own, emitted + 1) /\ emitted + 1 \in Nat
  BY <1>1, <1>4, <1>6, <1>7 DEF DecidedAt
<1> QED
  BY <1>4, <1>8

Dismisses == Reach' \subseteq Reach /\ canon_leaf' \in {canon_leaf, NoNode}

(* Leaves only stop being open, because they are cut or reported.          *)
LEMMA ReachShrinks ==
  ASSUME IsTree(tree), UNCHANGED <<tree, implicit>>, child_pruned \subseteq child_pruned',
         \A t \in tree.nodes : status[t] = "pruned" => status'[t] = "pruned",
         \A t \in tree.nodes : status[t] = "live" => status'[t] = "live" \/ (t # Root /\ status'[t] = "pruned"),
         \A t \in Working' : t \in Working \/ status[t] # "live"
  PROVE  /\ Reach' \subseteq Reach
         /\ \A m \in Reach : m \in Reach' \/ (status'[m] = "live" /\ m \notin Working')
              \/ \E a \in tree.nodes \ {Root} : /\ Above(a, m)
                                                /\ status'[a] = "pruned" \/ a \in child_pruned'
<1>1. ASSUME NEW m \in Reach' PROVE m \in Reach
  <2>1. /\ m \in LeavesOf(tree) /\ m \in tree.nodes /\ (status'[m] = "live" => m \in Working')
        /\ \A a \in tree.nodes \ {Root} : Above(a, m) => status'[a] # "pruned" /\ a \notin child_pruned'
    BY <1>1, SameTreeTerms DEF Reach, Uncut, LeavesOf
  <2>2. Uncut(m)
    BY <2>1 DEF Uncut
  <2>3. ASSUME status[m] = "live" PROVE m \in Working
    <3>1. Above(m, m)
      BY <2>1, AboveOn
    <3> QED
      BY <2>1, <2>3, <3>1
  <2> QED
    BY <2>1, <2>2, <2>3 DEF Reach
<1>2. ASSUME NEW m \in Reach
      PROVE  m \in Reach' \/ (status'[m] = "live" /\ m \notin Working')
             \/ \E a \in tree.nodes \ {Root} : /\ Above(a, m)
                                               /\ status'[a] = "pruned" \/ a \in child_pruned'
  BY <1>2, SameTreeTerms DEF Reach, Uncut
<1> QED
  BY <1>1, <1>2

LEMMA BetterKeeps ==
  ASSUME PInv, Emitting, ~IsExtending(cur), EmitBetterByVisitor \/ EmitBetterByValue,
         UNCHANGED <<prunerVars, setup, stack, at>>
  PROVE  Promised' /\ Dismisses
<1>1. /\ IInv /\ ShapeInv /\ StackInv /\ Fresh /\ Served /\ IsTree(tree) /\ ControlTypeOK
      /\ canon_leaf \in tree.nodes \cup {NoNode} /\ TreeInv /\ RecordInv
      /\ cur # NoNode /\ cur \in tree.nodes /\ Idle
  BY CurFacts, KnownOfTree
  DEF PInv, Promised, AllInv, RInv, IInv, Input, Typed, ControlTypeOK, StatusOK, Emitting
<1>2. /\ UNCHANGED <<tree, implicit, status, child_pruned, child_count, forest, t_path, stack, at,
                     cur, generations>>
      /\ max_level' = Level(cur) - 1 /\ canon_leaf' = NoNode
      /\ node_gen' = [node_gen EXCEPT ![cur] = generation']
  BY DEF EmitBetterByVisitor, EmitBetterByValue, Better, PruneCanonLeaf, prunerVars, setup
<1>3. /\ StillToDo' /\ OnePath' /\ ChildrenCounted' /\ Work' = Work /\ Working' = Working
      /\ Newest' = Newest
  BY <1>1, <1>2, StackKept
<1>4. Idle' /\ CanonUp'
  BY <1>1, <1>2, CanonUpIdle DEF Idle
<1>5. StackCurrent'
  <2>1. ASSUME NEW e \in Work, e.node # Root
        PROVE  Level(e.node) <= max_level' /\ node_gen'[e.node] >= generations'[Level(e.node)]
    <3>1. e.node \in tree.nodes /\ e.node # cur /\ Level(e.node) < Level(cur)
      BY <1>1, <2>1, WorkFacts
    <3>2. Level(e.node) \in Nat /\ Level(cur) \in Nat
      BY <1>1, <3>1, PathLength
    <3>3. node_gen'[e.node] = node_gen[e.node]
      BY <1>1, <1>2, <3>1 DEF ControlTypeOK
    <3> QED
      BY <1>1, <1>2, <2>1, <3>1, <3>2, <3>3 DEF StackInv, StackCurrent
  <2> QED
    BY <1>3, <2>1 DEF StackCurrent, Level
<1>6. Fresh'
  <2>1. Level(cur) \in Nat
    BY <1>1, PathLength
  <2>2. IsExtending(cur)'
    BY <1>2, <2>1 DEF IsExtending, Level
  <2> QED
    BY <1>1, <1>2, <1>4, <2>2 DEF Fresh
<1>7. Scope' = Scope /\ Reach' = Reach
  BY <1>2, <1>3, ScopeKept, ReachKept
<1>8. Beaten \subseteq BeatenBy(NoNode, cur)
  <2>1. CASE canon_leaf = NoNode
    BY <1>1, <2>1 DEF Beaten, Newest
  <2>2. CASE canon_leaf # NoNode
    <3> SUFFICES ASSUME NEW l \in Beaten, NEW m \in LeavesOf(tree), Above(cur, m)
                 PROVE  AsGood(m, l)
      BY DEF BeatenBy, Beaten
    <3>1. AsGood(canon_leaf, l) /\ l \in tree.nodes /\ m \in tree.nodes
      BY <2>2 DEF Beaten, BeatenBy, LeavesOf
    <3>2. AsGood(m, canon_leaf)
      BY <1>1, <2>2, <3>1, BelowIsBetter
    <3> QED
      BY <1>1, <2>2, <3>1, <3>2, AsGoodOn
  <2> QED
    BY <2>1, <2>2
<1>9. Served'
  <2>1. PICK S : S = Scope'
    OBVIOUS
  <2>2. PICK R : R = Reach'
    OBVIOUS
  <2>3. PICK n : n = Newest'
    OBVIOUS
  <2>4. Beaten \subseteq BeatenBy(canon_leaf', n)
    BY <1>1, <1>2, <1>3, <1>8, <2>3 DEF Newest
  <2>5. canon_leaf' \in tree.nodes \cup {NoNode}
    BY <1>2
  <2> QED
    BY <1>1, <1>2, <1>7, <2>1, <2>2, <2>3, <2>4, <2>5, ServedKept
<1> QED
  BY <1>1, <1>2, <1>3, <1>4, <1>5, <1>6, <1>7, <1>9, ShapeKept DEF Promised, StackInv, Dismisses

LEMMA DiscardKeeps ==
  ASSUME PInv, EmitWorseVisitor \/ EmitWorseValue \/ CreateShort,
         UNCHANGED <<prunerVars, setup, stack, at>>
  PROVE  Promised' /\ Dismisses
<1>1. cur # NoNode /\ ~IsExtending(cur) /\ Discard(cur)
  BY DEF EmitWorseVisitor, EmitWorseValue, CreateShort, SameVisitor, Emitting, Emitted
<1>2. /\ IInv /\ ShapeInv /\ StackInv /\ Fresh /\ Served /\ IsTree(tree) /\ ControlTypeOK
      /\ canon_leaf \in tree.nodes \cup {NoNode} /\ TreeInv /\ RecordInv
      /\ cur \in tree.nodes /\ status[cur] = "constructing" /\ Idle /\ cur # Root
  BY <1>1, CurFacts, KnownOfTree
  DEF PInv, Promised, AllInv, RInv, IInv, Input, Typed, ControlTypeOK, StatusOK, IsExtending
<1>3. /\ UNCHANGED <<tree, implicit, child_count, forest, t_path, stack, at, canon_leaf,
                     max_level, node_gen, generations>>
      /\ status' = [status EXCEPT ![cur] = "pruned"] /\ child_pruned' = child_pruned \cup {cur}
      /\ cur' = NoNode
  BY <1>1 DEF Discard, coordVars, leafVars, prunerVars, setup
<1>4. canon_leaf # NoNode
  BY <1>1, <1>2 DEF Fresh
<1>5. status'[cur] = "pruned" /\ \A t \in tree.nodes \ {cur} : status'[t] = status[t]
  BY <1>2, <1>3 DEF ControlTypeOK
<1>6. ShapeInv'
  BY <1>1, <1>2, <1>3, KnownOfTree, ShapeDiscard
<1>7. Work' = Work /\ Working' = Working
  BY <1>3 DEF Work, Working
<1>8. StackInv'
  <2>1. Engaged' \subseteq Engaged
    BY <1>3, <1>7 DEF Engaged
  <2>2. OnePath' /\ StackCurrent'
    BY <1>2, <1>3, <1>7, <2>1, OnePathKept, StackCurrentKept DEF StackInv
  <2>3. ChildrenCounted'
    BY <1>2, <1>3, <1>5, ChildrenCountedKept DEF StackInv
  <2>4. CanonUp'
    BY <1>2, <1>3, CanonUpIdle DEF Idle
  <2>5. StillToDo'
    BY <1>2, <1>3, <1>5, <1>7, StillToDoKept DEF StackInv
  <2> QED
    BY <2>2, <2>3, <2>4, <2>5 DEF StackInv
<1>9. Fresh'
  BY <1>3, <1>4 DEF Fresh
<1>10. Scope' = Scope
  BY <1>3, ScopeKept
<1>11. /\ Reach' \subseteq Reach
       /\ \A m \in Reach : m \in Reach' \/ Above(cur, m)
  <2>1. /\ Reach' \subseteq Reach
        /\ \A m \in Reach : m \in Reach' \/ (status'[m] = "live" /\ m \notin Working')
              \/ \E a \in tree.nodes \ {Root} : /\ Above(a, m)
                                                /\ status'[a] = "pruned" \/ a \in child_pruned'
    BY <1>2, <1>3, <1>5, <1>7, ReachShrinks
  <2>2. ASSUME NEW m \in Reach, m \notin Reach', ~Above(cur, m) PROVE FALSE
    <3>1. m \in tree.nodes /\ Uncut(m) /\ (status[m] = "live" => m \in Working)
      BY <2>2 DEF Reach, LeavesOf
    <3>2. ~(status'[m] = "live" /\ m \notin Working')
      BY <1>5, <1>7, <3>1
    <3>3. PICK a \in tree.nodes \ {Root} : Above(a, m) /\ (status'[a] = "pruned" \/ a \in child_pruned')
      BY <2>1, <2>2, <3>2
    <3>4. a # cur
      BY <2>2, <3>3
    <3> QED
      BY <1>3, <1>5, <3>1, <3>3, <3>4 DEF Uncut
  <2> QED
    BY <2>1, <2>2
<1>12. Served'
  <2>1. PICK S : S = Scope'
    OBVIOUS
  <2>2. PICK R : R = Reach'
    OBVIOUS
  <2>3. PICK n : n = Newest'
    OBVIOUS
  <2>4. Beaten \subseteq BeatenBy(canon_leaf', n)
    BY <1>3, <1>4 DEF Beaten, BeatenBy
  <2>5. ASSUME NEW m \in Reach \ R PROVE m \in BeatenBy(canon_leaf', n)
    <3>1. m \in LeavesOf(tree) /\ m \in tree.nodes /\ Above(cur, m)
      BY <1>11, <2>2, <2>5 DEF Reach, LeavesOf
    <3>2. AsGood(canon_leaf, m)
      BY <1>2, <1>4, <3>1, BelowIsWorse
    <3> QED
      BY <1>3, <1>4, <3>1, <3>2 DEF BeatenBy
  <2>6. canon_leaf' \in tree.nodes \cup {NoNode}
    BY <1>2, <1>3
  <2> QED
    BY <1>2, <1>3, <1>10, <2>1, <2>2, <2>3, <2>4, <2>5, <2>6, ServedKept
<1> QED
  BY <1>3, <1>6, <1>8, <1>9, <1>11, <1>12 DEF Promised, Dismisses

LEMMA RefineKeeps ==
  ASSUME PInv, Refine
  PROVE  Promised' /\ Dismisses
<1>1. Construct /\ UNCHANGED <<prunerVars, setup, stack, at>>
  BY DEF Refine, Constructing
<1>2. CASE EmitExtending \/ EmitSame
  <2>1. /\ UNCHANGED <<tree, implicit, status, child_pruned, child_count, stack, at, cur, t_path,
                       forest, max_level, node_gen, generations, canon_leaf>>
        /\ cur # NoNode
    BY <1>1, <1>2 DEF EmitExtending, EmitSame, SameVisitor, Emitting, coordVars, leafVars,
       prunerVars, setup
  <2>2. Idle
    BY <2>1 DEF PInv, AllInv, RInv, IInv, StatusOK
  <2>3. Idle' /\ CanonUp'
    BY <2>1, <2>2, CanonUpIdle DEF Idle
  <2> QED
    BY <2>1, <2>3, StayKeeps DEF Dismisses
<1>3. CASE EmitBetterByVisitor \/ EmitBetterByValue
  <2>1. Emitting /\ ~IsExtending(cur)
    BY <1>3 DEF EmitBetterByVisitor, EmitBetterByValue, SameVisitor
  <2> QED
    BY <1>1, <1>3, <2>1, BetterKeeps
<1>4. CASE EmitWorseVisitor \/ EmitWorseValue \/ CreateShort
  BY <1>1, <1>4, DiscardKeeps
<1> QED
  BY <1>1, <1>2, <1>3, <1>4 DEF Construct

LEMMA TellKeeps ==
  ASSUME PInv, Tell
  PROVE  Promised' /\ Dismisses
<1>1. /\ UNCHANGED treeVars /\ cur # NoNode /\ UNCHANGED <<stack, at>>
      /\ \E p \in tree.auts : AddAutomorphism(p, Holders(Held))
  BY DEF Tell, AutomorphismImplicit, MustTell, Emitted
<1>2. PICK p \in tree.auts : AddAutomorphism(p, Holders(Held))
  BY <1>1
<1>3. pruner = "basic"
  BY DEF PInv, AllInv, GensInv
<1>4. UNCHANGED <<implicit, child_count, forest, t_path>>
  BY <1>2, <1>3 DEF AddAutomorphism, chainVars, setup
<1>5. UNCHANGED <<tree, status, child_pruned, cur, max_level, node_gen, generations, canon_leaf>>
  BY <1>1 DEF treeVars, coordVars, dataVars, leafVars
<1>6. Idle
  BY <1>1 DEF PInv, AllInv, RInv, IInv, StatusOK
<1>7. Idle' /\ CanonUp'
  BY <1>4, <1>6, CanonUpIdle DEF Idle
<1> QED
  BY <1>1, <1>4, <1>5, <1>7, StayKeeps DEF Dismisses

-----------------------------------------------------------------------------
(* A finished node is pushed, and one of a pair of children is cut.        *)

LEMMA PushFacts ==
  ASSUME PInv, Push
  PROVE  /\ IInv /\ ShapeInv /\ StackInv /\ Fresh /\ Served /\ IsTree(tree) /\ ControlTypeOK
         /\ canon_leaf \in tree.nodes \cup {NoNode} /\ TreeInv /\ RecordInv /\ Symmetric
         /\ cur # NoNode /\ cur \in tree.nodes /\ status[cur] = "constructing" /\ Idle
         /\ UNCHANGED <<tree, implicit, child_count, forest, t_path, at, canon_leaf, node_gen>>
         /\ status' = [status EXCEPT ![cur] = "live"]
         /\ status'[cur] = "live" /\ \A t \in tree.nodes \ {cur} : status'[t] = status[t]
         /\ child_pruned' = child_pruned \cup OneOfPair(cur)
         /\ cur' = NoNode /\ Foremost' = Elem(cur, 0) /\ Newest' = cur
         /\ Work' = Work \cup {Elem(cur, 0)} /\ Working' = Working \cup {cur}
         /\ \A c \in Children(cur) : c \in tree.nodes \ {Root} /\ c \notin child_pruned /\ status[c] = "absent"
<1>1. cur # NoNode
  BY DEF Push, NodeFinished, CreateLive, Emitted
<1>2. /\ IInv /\ ShapeInv /\ StackInv /\ Fresh /\ Served /\ IsTree(tree) /\ ControlTypeOK
      /\ canon_leaf \in tree.nodes \cup {NoNode} /\ TreeInv /\ RecordInv /\ Symmetric
      /\ cur \in tree.nodes /\ status[cur] = "constructing" /\ Idle /\ at = NoNode
      /\ stack \in Seq(Elems)
  BY <1>1, CurFacts, KnownOfTree
  DEF PInv, Promised, AllInv, RInv, GensInv, IInv, Input, Typed, ControlTypeOK, StatusOK, StackOK
<1>3. /\ UNCHANGED <<tree, implicit, child_count, forest, t_path, at, canon_leaf, node_gen>>
      /\ status' = [status EXCEPT ![cur] = "live"]
      /\ child_pruned' = child_pruned \cup OneOfPair(cur)
      /\ cur' = NoNode
      /\ stack' = Append(stack, Elem(cur, 0))
  BY DEF Push, NodeFinished, CreateLive, dataVars, leafVars, prunerVars, setup
<1>4. status'[cur] = "live" /\ \A t \in tree.nodes \ {cur} : status'[t] = status[t]
  BY <1>2, <1>3 DEF ControlTypeOK
<1>5. Elem(cur, 0) \in Elems
  BY <1>2 DEF Elem, Elems
<1>6. /\ Len(stack') = Len(stack) + 1 /\ Len(stack) \in Nat
      /\ \A i \in 1 .. Len(stack) : stack'[i] = stack[i]
      /\ stack'[Len(stack) + 1] = Elem(cur, 0)
  BY <1>2, <1>3, <1>5, Appended, LenNat
<1>7. \A i \in 1 .. Len(stack') : i \in 1 .. Len(stack) \/ i = Len(stack) + 1
  BY <1>6
<1>8. \A i \in 1 .. Len(stack) : i \in 1 .. Len(stack')
  BY <1>6
<1>9. Len(stack) + 1 \in 1 .. Len(stack')
  BY <1>6
<1>10. Work' = Work \cup {Elem(cur, 0)}
  <2>1. Work = {stack[i] : i \in 1 .. Len(stack)}
    BY <1>2 DEF Work
  <2>2. Work' = {stack'[i] : i \in 1 .. Len(stack')}
    BY <1>2, <1>3 DEF Work
  <2> QED
    BY <1>6, <1>7, <1>8, <1>9, <2>1, <2>2
<1>11. Working' = Working \cup {cur}
  <2>1. Working = {stack[i].node : i \in 1 .. Len(stack)}
    BY <1>2 DEF Working
  <2>2. Working' = {stack'[i].node : i \in 1 .. Len(stack')}
    BY <1>2, <1>3 DEF Working
  <2>3. Elem(cur, 0).node = cur
    BY DEF Elem
  <2> QED
    BY <1>6, <1>7, <1>8, <1>9, <2>1, <2>2, <2>3
<1>12. Foremost' = Elem(cur, 0) /\ Newest' = cur
  BY <1>2, <1>3, <1>6 DEF Foremost, Newest, Elem
<1>13. \A c \in Children(cur) : c \in tree.nodes \ {Root} /\ c \notin child_pruned /\ status[c] = "absent"
  <2> SUFFICES ASSUME NEW c \in Children(cur)
               PROVE  c \in tree.nodes \ {Root} /\ c \notin child_pruned /\ status[c] = "absent"
    OBVIOUS
  <2>1. c \in tree.nodes \ {Root} /\ Parent(c) = cur
    BY <1>2, ChildrenAreNodes
  <2>2. Above(cur, c) /\ cur # c
    BY <1>2, <2>1, ChildAbove
  <2> QED
    BY <1>2, <2>1, <2>2, NothingBelow
<1> QED
  BY <1>1, <1>2, <1>3, <1>4, <1>10, <1>11, <1>12, <1>13

LEMMA PushStack ==
  ASSUME PInv, Push, GenerationFits
  PROVE  StackInv' /\ (canon_leaf = NoNode => Level(cur) = max_level')
<1>1. /\ IInv /\ StackInv /\ Fresh /\ IsTree(tree) /\ ControlTypeOK
      /\ TreeInv /\ RecordInv
      /\ cur # NoNode /\ cur \in tree.nodes /\ status[cur] = "constructing" /\ Idle
      /\ UNCHANGED <<tree, implicit, child_count, forest, t_path, at, canon_leaf, node_gen>>
      /\ status'[cur] = "live" /\ \A t \in tree.nodes \ {cur} : status'[t] = status[t]
      /\ child_pruned \subseteq child_pruned'
      /\ cur' = NoNode
      /\ Work' = Work \cup {Elem(cur, 0)} /\ Working' = Working \cup {cur}
  BY PushFacts
<1>2. PICK l : l = Level(cur)
  OBVIOUS
<1>3. /\ l \in Levels /\ l \in Nat /\ max_level \in Nat
      /\ generation \in Nat /\ generations \in [Levels -> Nat] /\ node_gen \in [tree.nodes -> Nat]
      /\ cur # Root /\ IsExtending(cur) => l = max_level + 1 /\ node_gen[cur] = generation
      /\ ~IsExtending(cur) => l <= max_level /\ cur # Root
      /\ node_gen[cur] <= generation
      /\ cur = Root => l = 0 /\ max_level = 0
  BY <1>1, <1>2, UnderConstruction, RootIsFirst
  DEF ControlTypeOK, Levels, TreeInv, GenerationsAgree, GenerationsBounded, IsExtending
<1>4. /\ max_level' = IF cur # Root /\ l > max_level THEN max_level + 1 ELSE max_level
      /\ generations' = [generations EXCEPT ![l] = Narrow(LevelGeneration(cur))]
  BY <1>2 DEF Push, NodeFinished, CreateLive
<1>5. Narrow(LevelGeneration(cur)) = LevelGeneration(cur)
  <2>1. LevelGeneration(cur) \in Nat /\ LevelGeneration(cur) <= generation
    BY <1>1, <1>3 DEF LevelGeneration
  <2>2. LevelGeneration(cur) < SizeTypeSize
    BY <1>3, <2>1, SizeTypeAssumption DEF GenerationFits
  <2> QED
    BY <2>2 DEF Narrow
<1>6. /\ generations'[l] = LevelGeneration(cur)
      /\ \A k \in Levels : k # l => generations'[k] = generations[k]
  BY <1>3, <1>4, <1>5
<1>7. /\ max_level' >= max_level
      /\ cur # Root => l <= max_level' /\ node_gen[cur] >= generations'[l]
  <2>1. CASE cur # Root /\ IsExtending(cur)
    BY <1>3, <1>4, <1>6, <2>1 DEF LevelGeneration
  <2>2. CASE ~IsExtending(cur)
    <3>1. node_gen[cur] \in Nat /\ l <= max_level
      BY <1>1, <1>3, <2>2
    <3>2. max_level' = max_level /\ generations'[l] = node_gen[cur]
      BY <1>3, <1>4, <1>6, <2>2, <3>1 DEF LevelGeneration
    <3> QED
      BY <1>3, <3>1, <3>2
  <2>3. CASE cur = Root
    BY <1>3, <1>4, <2>3
  <2> QED
    BY <2>1, <2>2, <2>3
<1>8. canon_leaf = NoNode => l = max_level'
  <2> SUFFICES ASSUME canon_leaf = NoNode PROVE l = max_level'
    OBVIOUS
  <2>1. IsExtending(cur)
    BY <1>1 DEF Fresh
  <2> QED
    BY <1>3, <1>4, <2>1
<1>9. StackCurrent'
  <2>1. ASSUME NEW e \in Work', e.node # Root
        PROVE  Level(e.node) <= max_level' /\ node_gen[e.node] >= generations'[Level(e.node)]
    <3>1. CASE e = Elem(cur, 0)
      <4>1. e.node = cur
        BY <3>1 DEF Elem
      <4> QED
        BY <1>2, <1>7, <2>1, <4>1
    <3>2. CASE e \in Work
      <4>1. e.node \in tree.nodes /\ Level(e.node) < l
        BY <1>1, <1>2, <3>2, WorkFacts
      <4>2. Level(e.node) \in Levels /\ Level(e.node) \in Nat
        BY <1>1, <4>1, PathLength DEF Levels
      <4>3. Level(e.node) <= max_level /\ node_gen[e.node] >= generations[Level(e.node)]
        BY <1>1, <2>1, <3>2 DEF StackInv, StackCurrent
      <4>4. Level(e.node) # l
        BY <1>3, <4>1, <4>2
      <4>5. max_level' \in Nat
        BY <1>3, <1>4
      <4> QED
        BY <1>3, <1>6, <1>7, <4>2, <4>3, <4>4, <4>5
    <3> QED
      BY <1>1, <2>1, <3>1, <3>2
  <2> QED
    BY <1>1, <2>1 DEF StackCurrent, Level
<1>10. OnePath'
  <2>1. Engaged' = Engaged
    BY <1>1 DEF Engaged
  <2> QED
    BY <1>1, <2>1, OnePathKept DEF StackInv
<1>11. ChildrenCounted'
  BY <1>1, ChildrenCountedKept DEF StackInv
<1>12. CanonUp'
  BY <1>1, CanonUpIdle DEF Idle
<1>13. StillToDo'
  <2> SUFFICES ASSUME NEW w \in tree.nodes, status'[w] = "live", NEW c \in Children(w),
                      status'[c] = "absent", c \notin child_pruned'
               PROVE  \E f \in Work' : f.node = w /\ Last(c) >= f.next_child
    BY <1>1 DEF StillToDo, Children
  <2>1. c \in tree.nodes /\ Last(c) \in Nat
    BY <1>1, ChildrenAreNodes
  <2>2. CASE w = cur
    <3>1. Elem(cur, 0).node = w /\ Elem(cur, 0).next_child = 0
      BY <2>2 DEF Elem
    <3> QED
      BY <1>1, <2>1, <3>1
  <2>3. CASE w # cur
    <3>1. status[w] = "live" /\ status[c] = "absent" /\ c \notin child_pruned
      BY <1>1, <2>1, <2>3
    <3> QED
      BY <1>1, <3>1 DEF StackInv, StillToDo
  <2> QED
    BY <2>2, <2>3
<1> QED
  BY <1>2, <1>8, <1>9, <1>10, <1>11, <1>12, <1>13 DEF StackInv

(* The child of a pair that is cut has an image in the other.              *)
LEMMA PushKeeps ==
  ASSUME PInv, Push, GenerationFits
  PROVE  Promised' /\ Dismisses
<1>1. /\ IInv /\ ShapeInv /\ StackInv /\ Fresh /\ Served /\ IsTree(tree) /\ ControlTypeOK
      /\ canon_leaf \in tree.nodes \cup {NoNode} /\ Symmetric
      /\ cur # NoNode /\ cur \in tree.nodes /\ status[cur] = "constructing" /\ Idle
      /\ UNCHANGED <<tree, implicit, child_count, forest, t_path, canon_leaf>>
      /\ status' = [status EXCEPT ![cur] = "live"]
      /\ status'[cur] = "live" /\ \A t \in tree.nodes \ {cur} : status'[t] = status[t]
      /\ child_pruned' = child_pruned \cup OneOfPair(cur)
      /\ cur' = NoNode /\ Foremost' = Elem(cur, 0) /\ Newest' = cur
      /\ Work' = Work \cup {Elem(cur, 0)} /\ Working' = Working \cup {cur}
      /\ \A c \in Children(cur) : c \in tree.nodes \ {Root} /\ c \notin child_pruned /\ status[c] = "absent"
  BY PushFacts
<1>2. StackInv' /\ (canon_leaf = NoNode => Level(cur) = max_level')
  BY PushStack
<1>3. ShapeInv'
  BY <1>1, KnownOfTree, ShapeFinished
<1>4. Fresh'
  <2>0. PICK t : t = cur
    OBVIOUS
  <2> SUFFICES ASSUME canon_leaf = NoNode
               PROVE  /\ Idle' /\ cur' = NoNode /\ Foremost' \in Work' /\ Foremost'.next_child = 0
                      /\ status'[t] = "live" /\ Level(t) = max_level' /\ child_count'[t] = 0
                      /\ Children(t)' \cap child_pruned' \subseteq OneOfPair(t)'
    <3>1. /\ Newest' = t /\ Level(Newest)' = Level(t) /\ Children(Newest)' = Children(t)'
          /\ OneOfPair(Newest)' = OneOfPair(t)'
      BY <1>1, <2>0 DEF Level, Children, OneOfPair, Fits
    <3> QED
      BY <1>1, <3>1 DEF Fresh
  <2>1. Idle'
    BY <1>1 DEF Idle
  <2>2. Foremost' \in Work' /\ Foremost'.next_child = 0
    BY <1>1 DEF Elem
  <2>3. child_count'[t] = 0
    BY <1>1, <2>0 DEF StackInv, ChildrenCounted
  <2>4. Children(t)' = Children(t) /\ OneOfPair(t)' = OneOfPair(t)
    BY <1>1, SameTreeTerms
  <2> QED
    BY <1>1, <1>2, <2>0, <2>1, <2>2, <2>3, <2>4
<1>5. /\ Reach' \subseteq Reach
      /\ \A m \in Reach : m \in Reach' \/ (status'[m] = "live" /\ m \notin Working')
           \/ \E a \in tree.nodes \ {Root} : /\ Above(a, m)
                                             /\ status'[a] = "pruned" \/ a \in child_pruned'
  BY <1>1, ReachShrinks
<1>6. ASSUME NEW m \in Reach, m \notin Reach' PROVE \E d \in OneOfPair(cur) : Above(d, m)
  <2>1. m \in tree.nodes /\ Uncut(m) /\ (status[m] = "live" => m \in Working)
    BY <1>6 DEF Reach, LeavesOf
  <2>2. ~(status'[m] = "live" /\ m \notin Working')
    BY <1>1, <2>1
  <2>3. PICK a \in tree.nodes \ {Root} : Above(a, m) /\ (status'[a] = "pruned" \/ a \in child_pruned')
    BY <1>5, <1>6, <2>2
  <2>4. status[a] # "pruned" /\ a \notin child_pruned
    BY <2>1, <2>3 DEF Uncut
  <2>5. status'[a] # "pruned"
    BY <1>1, <2>4
  <2> QED
    BY <1>1, <2>3, <2>4, <2>5
<1>7. ASSUME NEW u \in Scope, NEW m \in Reach, m \notin Reach', Above(u, m)
      PROVE  \E m2 \in Reach' : Above(u, m2) /\ AsGood(m2, m)
  <2>1. m \in LeavesOf(tree) /\ m \in tree.nodes /\ u \in tree.nodes /\ InScope(u)
    BY <1>7 DEF Reach, LeavesOf, Scope
  <2>2. PICK d \in OneOfPair(cur) : Above(d, m)
    BY <1>6, <1>7
  <2>3. d \in tree.nodes \ {Root} /\ Parent(d) = cur /\ d \in Children(cur)
    BY <1>1, <2>2, PairsAreChildren
  <2>4. ~Above(d, u)
    BY <2>1, <2>2, <2>3 DEF InScope
  <2>5. Above(u, cur)
    <3>1. Len(u) \in Nat /\ Len(d) \in Nat
      BY <1>1, <2>1, <2>3, PathLength
    <3>2. Above(u, d) /\ u # d
      BY <1>1, <1>7, <2>1, <2>2, <2>3, <2>4, <3>1, AboveOn
    <3> QED
      BY <1>1, <2>1, <2>3, <3>2, ChildAbove
  <2>6. PICK c \in Children(cur) \ OneOfPair(cur), p \in tree.auts : Image(p, cur) = cur /\ Image(p, d) = c
    BY <1>1, PairOther
  <2>7. c \in tree.nodes \ {Root} /\ Parent(c) = cur /\ status[c] = "absent" /\ c \notin child_pruned
        /\ Above(cur, c) /\ Len(c) = Len(cur) + 1
    <3>1. c \in tree.nodes \ {Root} /\ Parent(c) = cur
      BY <1>1, <2>6, ChildrenAreNodes
    <3> QED
      BY <1>1, <2>6, <3>1, ChildAbove
  <2>8. Uncut(c)
    <3>1. Uncut(cur)
      BY <1>1, LiveInScope
    <3>2. \A a \in tree.nodes : Above(a, c) /\ a # c => Above(a, cur)
      BY <1>1, <2>7, ChildAbove
    <3> QED
      BY <2>7, <3>1, <3>2 DEF Uncut
  <2>9. PICK m2 : m2 = Image(p, m)
    OBVIOUS
  <2>10. m2 \in LeavesOf(tree) /\ m2 \in tree.nodes /\ AsGood(m2, m)
    <3>1. Input
      BY <1>1 DEF IInv
    <3> QED
      BY <1>1, <2>1, <2>9, <3>1, ImageOfLeaf DEF LeavesOf
  <2>11. Above(c, m2)
    BY <1>1, <2>1, <2>2, <2>3, <2>6, <2>9, ImageAbove
  <2>12. m2 \in Reach
    BY <1>1, <2>7, <2>8, <2>10, <2>11, ReachBelow
  <2>13. m2 \in Reach'
    <3> SUFFICES ASSUME m2 \notin Reach' PROVE FALSE
      OBVIOUS
    <3>1. PICK e \in OneOfPair(cur) : Above(e, m2)
      BY <1>6, <2>12
    <3>2. e \in tree.nodes \ {Root} /\ Parent(e) = cur
      BY <1>1, <3>1, PairsAreChildren
    <3>3. Len(e) = Len(cur) + 1 /\ Len(e) \in Nat
      BY <1>1, <3>2, ChildAbove, PathLength
    <3>4. Above(e, c)
      BY <1>1, <2>7, <2>10, <2>11, <3>1, <3>2, <3>3, AboveOn
    <3>5. e = c
      BY <1>1, <2>7, <3>2, <3>3, <3>4, AboveOn
    <3> QED
      BY <2>6, <3>1, <3>5
  <2>14. Above(u, m2)
    BY <1>1, <2>1, <2>5, <2>7, <2>10, <2>11, AboveOn
  <2> QED
    BY <2>10, <2>13, <2>14
<1>8. Served'
  <2>1. PICK S : S = Scope'
    OBVIOUS
  <2>2. PICK R : R = Reach'
    OBVIOUS
  <2>3. PICK n : n = Newest'
    OBVIOUS
  <2>4. S = Scope
    BY <1>1, <2>1, ScopeKept
  <2>5. Beaten = BeatenBy(canon_leaf', n)
    BY <1>1, <2>3 DEF Beaten, Newest
  <2>6. \A m \in Reach \ R, u \in S : Above(u, m) => \E m2 \in R : Above(u, m2) /\ AsGood(m2, m)
    BY <1>7, <2>2, <2>4
  <2> QED
    BY <1>1, <2>1, <2>2, <2>3, <2>4, <2>5, <2>6, ServedKept
<1> QED
  BY <1>1, <1>2, <1>3, <1>4, <1>5, <1>8 DEF Promised, Dismisses

LEMMA KnownHere ==
  ASSUME PInv
  PROVE  /\ RInv /\ IInv /\ GensInv /\ PrunerInv /\ CanonPath /\ WorkInv
         /\ ShapeInv /\ StackInv /\ Fresh /\ Served
         /\ IsTree(tree) /\ NoNode \notin tree.nodes /\ ControlTypeOK /\ TreeInv /\ RecordInv
         /\ Symmetric /\ Input /\ canon_leaf \in tree.nodes \cup {NoNode}
         /\ StackOK /\ PathOK /\ pruner = "basic"
BY KnownOfTree
DEF PInv, Promised, AllInv, RInv, GensInv, IInv, Input, Typed, ControlTypeOK, StatusOK

-----------------------------------------------------------------------------
(* The traversal takes a node from the stack.                              *)

LEMMA PopFacts ==
  ASSUME PInv, Pop, NEW e, e = stack[Len(stack)]
  PROVE  /\ at = NoNode /\ cur = NoNode /\ e # NoNode /\ e \in Work /\ e.node \in tree.nodes
         /\ at' = e /\ BeforeDescend(e.node)
         /\ (tree' = tree => Work' = Work /\ Working' = Working /\ Foremost' = Foremost)
<1>1. IInv /\ StackOK /\ Symmetric
  BY KnownHere
<1>2. /\ at = NoNode /\ cur = NoNode /\ stack \in Seq(Elems) /\ stack # <<>> /\ at' = e
      /\ stack' = SubSeq(stack, 1, Len(stack) - 1) /\ BeforeDescend(e.node)
  BY <1>1 DEF Pop, StackOK
<1>3. Len(stack) \in Nat /\ Len(stack) \in 1 .. Len(stack)
  BY <1>2, LenNat
<1>4. e \in Elems
  BY <1>2, <1>3, ElementOf
<1>5. e # NoNode
  BY <1>1, <1>4, NothingPoppedAssumption DEF Elems, Symmetric
<1>6. e \in Work /\ e.node \in tree.nodes
  BY <1>3, <1>4 DEF Work, Elems
<1>7. /\ Len(stack') = Len(stack) - 1
      /\ \A i \in 1 .. Len(stack) - 1 : stack'[i] = stack[i]
  <2>1. Len(stack) - 1 \in 0 .. Len(stack) /\ Len(stack) - 1 \in Nat /\ Len(stack) - 1 <= Len(stack)
    BY <1>3
  <2>2. Len(stack') = Len(stack) - 1
    BY <1>2, <2>1, Prefix
  <2>3. \A i \in 1 .. Len(stack) - 1 : stack'[i] = stack[i]
    BY <1>2, <2>1, PrefixElements
  <2> QED
    BY <2>2, <2>3
<1>8. \A i \in 1 .. Len(stack) : i \in 1 .. Len(stack) - 1 \/ i = Len(stack)
  BY <1>3
<1>9. \A i \in 1 .. Len(stack) - 1 : i \in 1 .. Len(stack)
  BY <1>3
<1>10. Work' = Work
  <2>1. Work = {stack[i] : i \in 1 .. Len(stack)}
    BY <1>2 DEF Work
  <2>2. Work' = {stack'[i] : i \in 1 .. Len(stack) - 1} \cup {stack[Len(stack)]}
    BY <1>2, <1>5, <1>7 DEF Work
  <2> QED
    BY <1>3, <1>7, <1>8, <1>9, <2>1, <2>2
<1>11. Working' = Working
  BY <1>2, <1>3, <1>5, <1>7, <1>8, <1>9 DEF Working
<1>12. Foremost' = Foremost
  BY <1>2, <1>5 DEF Foremost
<1> QED
  BY <1>2, <1>5, <1>6, <1>10, <1>11, <1>12

LEMMA PopKeeps ==
  ASSUME PInv, Pop
  PROVE  Promised' /\ Dismisses
<1>1. PICK e : e = stack[Len(stack)]
  OBVIOUS
<1>2. /\ at = NoNode /\ cur = NoNode /\ e # NoNode /\ e \in Work /\ e.node \in tree.nodes
      /\ at' = e /\ BeforeDescend(e.node)
      /\ (tree' = tree => Work' = Work /\ Working' = Working /\ Foremost' = Foremost)
  BY <1>1, PopFacts
<1>3. /\ IInv /\ StackInv /\ Fresh /\ ControlTypeOK /\ IsTree(tree)
      /\ canon_leaf \in tree.nodes \cup {NoNode} /\ PrunerInv
  BY KnownHere
<1>4. Idle
  BY <1>2, <1>3 DEF PrunerInv, UpdatePath
<1>5. ~Outdated(e.node)
  <2>1. e.node # Root => Level(e.node) <= max_level /\ node_gen[e.node] >= generations[Level(e.node)]
    BY <1>2, <1>3 DEF StackInv, StackCurrent
  <2>2. /\ Level(e.node) \in Nat /\ max_level \in Nat /\ node_gen[e.node] \in Nat
        /\ generations[Level(e.node)] \in Nat
    <3>1. Level(e.node) \in Levels /\ Level(e.node) \in Nat
      BY <1>2, <1>3, PathLength DEF Levels
    <3>2. max_level \in Nat
      BY <1>3 DEF ControlTypeOK, Levels
    <3> QED
      BY <1>2, <1>3, <3>1, <3>2 DEF ControlTypeOK
  <2> QED
    BY <2>1, <2>2 DEF Outdated
<1>6. /\ UNCHANGED treeVars
      /\ IF status[e.node] # "pruned" /\ child_count[e.node] # 0 /\ NeedUpdate(e.node)
         THEN Start(e.node) ELSE UNCHANGED <<prunerVars, chainVars>>
  BY <1>2, <1>5 DEF BeforeDescend
<1>7. UNCHANGED <<tree, implicit, status, child_pruned, child_count, cur,
                  forest, max_level, node_gen, generations, canon_leaf>>
  BY <1>6 DEF Start, treeVars, coordVars, dataVars, leafVars, prunerVars, chainVars, setup
<1>8. canon_leaf = NoNode => Idle'
  <2> SUFFICES ASSUME canon_leaf = NoNode PROVE Idle'
    OBVIOUS
  <2>1. Foremost = e
    BY <1>1, <1>2 DEF Foremost
  <2>2. Newest = e.node
    BY <1>2, <2>1 DEF Newest
  <2>3. child_count[e.node] = 0
    BY <1>2, <1>3, <2>2 DEF Fresh
  <2>4. UNCHANGED t_path
    BY <1>6, <2>3 DEF prunerVars
  <2> QED
    BY <1>4, <2>4 DEF Idle
<1>9. CanonUp'
  <2>1. CASE UNCHANGED t_path
    <3>1. Idle'
      BY <1>4, <2>1 DEF Idle
    <3> QED
      BY <3>1, CanonUpIdle
  <2>2. CASE Start(e.node)
    <3> SUFFICES ASSUME c_path' # <<>>
                 PROVE  canon_leaf # NoNode /\ \E n \in 1 .. Len(canon_leaf) + 1 : c_path' = UpPath(canon_leaf, n)
      BY <1>7 DEF CanonUp, UpPath, Ancestor
    <3>1. canon_leaf # NoNode /\ c_path' = NeedPath(canon_leaf)
      BY <2>2 DEF Start
    <3>2. canon_leaf \in tree.nodes
      BY <1>3, <3>1
    <3>3. PICK n \in 0 .. Len(canon_leaf) + 1 : NeedPath(canon_leaf) = UpPath(canon_leaf, n)
      BY <1>3, <3>2, NeedPathIs
    <3>4. n # 0
      BY <1>3, <3>1, <3>2, <3>3, UpPathFacts
    <3>5. Len(canon_leaf) \in Nat
      BY <1>3, <3>2, PathLength
    <3>6. n \in 1 .. Len(canon_leaf) + 1
      BY <3>4, <3>5
    <3> QED
      BY <3>1, <3>3, <3>6
  <2> QED
    BY <1>6, <2>1, <2>2 DEF prunerVars
<1>10. Promised' /\ Reach' = Reach
  BY <1>2, <1>7, <1>8, <1>9, MoveKeeps
<1> QED
  BY <1>7, <1>10 DEF Dismisses

(* The traversal is done with a node that was pruned meanwhile, or whose   *)
(* children have all been dealt with.                                      *)
LEMMA DropKeeps ==
  ASSUME PInv, Skip \/ Leave(Held)
  PROVE  Promised' /\ Dismisses
<1>1. /\ IInv /\ ShapeInv /\ StackInv /\ Fresh /\ Served /\ IsTree(tree) /\ NoNode \notin tree.nodes
      /\ canon_leaf \in tree.nodes \cup {NoNode} /\ WorkInv /\ Symmetric /\ StackOK
  BY KnownHere
<1>2. /\ UNCHANGED <<tree, implicit, status, child_pruned, child_count, cur, stack, t_path,
                     forest, max_level, node_gen, generations, canon_leaf>>
      /\ at # NoNode /\ at' = NoNode /\ Idle
      /\ status[at.node] = "pruned" \/ (Candidates(Held) = {} /\ ~IsLeaf(at.node))
  BY DEF Skip, Leave, Go, Ready, treeVars, coordVars, dataVars, leafVars, prunerVars, chainVars, setup
<1>3. at \in Work /\ at.node \in tree.nodes /\ cur = NoNode
  BY <1>1, <1>2, AtFacts DEF Work
<1>4. Work' \subseteq Work /\ Work \subseteq Work' \cup {at}
  BY <1>2 DEF Work
<1>5. Working' \subseteq Working /\ Working \subseteq Working' \cup {at.node}
  BY <1>2 DEF Working
(* A child that has not been flagged and has not been created would be one.*)
<1>6. ASSUME NEW c \in Children(at.node), status[at.node] # "pruned", status[c] = "absent",
             c \notin child_pruned, Last(c) >= at.next_child
      PROVE  FALSE
  <2>1. ~Flagged(c, Held)
    BY <1>6 DEF Flagged
  <2>2. Last(c) = c[Len(c)]
    BY <1>1, <1>3, <1>6, ChildrenAreNodes
  <2> QED
    BY <1>2, <1>6, <2>1, <2>2 DEF Candidates
<1>7. StackInv'
  <2>1. StillToDo'
    <3>1. \A e \in Work \ Work' : \A c \in Children(e.node) :
            ~(status'[e.node] = "live" /\ status'[c] = "absent" /\ c \notin child_pruned'
              /\ Last(c) >= e.next_child)
      BY <1>2, <1>4, <1>6
    <3> QED
      BY <1>1, <1>2, <3>1, StillToDoKept DEF StackInv
  <2>2. OnePath'
    <3>1. Engaged' \subseteq Engaged
      BY <1>2, <1>5 DEF Engaged
    <3> QED
      BY <1>1, <1>2, <3>1, OnePathKept DEF StackInv
  <2>3. StackCurrent' /\ ChildrenCounted'
    BY <1>1, <1>2, <1>4, StackCurrentKept, ChildrenCountedKept DEF StackInv
  <2>4. CanonUp'
    BY <1>2, CanonUpIdle DEF Idle
  <2> QED
    BY <2>1, <2>2, <2>3, <2>4 DEF StackInv
<1>8. canon_leaf # NoNode
  <2> SUFFICES ASSUME canon_leaf = NoNode PROVE FALSE
    OBVIOUS
  <2>1. Foremost = at /\ Newest = at.node
    BY <1>2, <1>3 DEF Foremost, Newest
  <2>2. at.next_child = 0 /\ status[at.node] = "live"
        /\ Children(at.node) \cap child_pruned \subseteq OneOfPair(at.node)
    BY <1>1, <1>3, <2>1 DEF Fresh
  <2>3. PICK c0 \in Children(at.node) : TRUE
    BY <1>2, <2>2 DEF IsLeaf
  <2>4. PICK c \in Children(at.node) : c \notin OneOfPair(at.node)
    BY <1>1, <1>3, <2>3, PairOther
  <2>5. c \in tree.nodes /\ Last(c) \in Nat
    BY <1>1, <1>3, <2>4, ChildrenAreNodes
  <2>6. NotYet(at)
    BY <1>1, <1>3 DEF WorkInv
  <2>7. status[c] = "absent" /\ c \notin child_pruned /\ Last(c) >= at.next_child
    BY <2>2, <2>4, <2>5, <2>6 DEF NotYet
  <2> QED
    BY <1>6, <2>2, <2>4, <2>7
<1>9. Reach' = Reach
  <2>1. \A l \in LeavesOf(tree) : status[l] = "live" => (l \in Working' <=> l \in Working)
    BY <1>2, <1>5 DEF LeavesOf, IsLeaf, Children
  <2> QED
    BY <1>2, <2>1, SameTreeTerms DEF Reach, Uncut
<1>10. ShapeInv' /\ Fresh'
  BY <1>1, <1>2, <1>8, ShapeKept DEF Fresh
<1>11. Served'
  <2>1. PICK S : S = Scope'
    OBVIOUS
  <2>2. PICK R : R = Reach'
    OBVIOUS
  <2>3. PICK n : n = Newest'
    OBVIOUS
  <2>4. S = Scope
    BY <1>2, <2>1, ScopeKept
  <2>5. Beaten = BeatenBy(canon_leaf', n)
    BY <1>2, <1>8 DEF Beaten, BeatenBy
  <2> QED
    BY <1>1, <1>2, <1>9, <2>1, <2>2, <2>3, <2>4, <2>5, ServedKept
<1> QED
  BY <1>2, <1>7, <1>9, <1>10, <1>11 DEF Promised, Dismisses

-----------------------------------------------------------------------------
(* The traversal creates the next child.                                   *)

LEMMA DescendFacts ==
  ASSUME PInv, Descend(Held), NEW t, t = at.node
  PROVE  /\ t \in tree.nodes /\ status[t] = "live" /\ at # NoNode /\ at \in Work /\ cur = NoNode /\ Idle
         /\ UNCHANGED <<tree, implicit, child_pruned, forest, t_path, max_level, generations, canon_leaf>>
         /\ \E c \in Children(t) :
              /\ c \in tree.nodes \ {Root} /\ Parent(c) = t /\ t # c /\ c # NoNode
              /\ Above(t, c) /\ Len(c) = Len(t) + 1 /\ Len(t) \in Nat
              /\ status[c] = "absent" /\ c \notin child_pruned /\ Last(c) \in Nat
              /\ \A d \in Children(t) : Last(d) >= at.next_child /\ status[d] = "absent"
                                          /\ d \notin child_pruned /\ d # c => Last(d) >= Last(c) + 1
              /\ status' = [status EXCEPT ![c] = "constructing"] /\ cur' = c
              /\ node_gen' = [node_gen EXCEPT ![c] = BeginGeneration(c)]
              /\ child_count' = [child_count EXCEPT ![t] = 1]
              /\ stack' = Append(stack, Elem(t, Last(c) + 1)) /\ at' = NoNode
<1>1. IInv /\ IsTree(tree) /\ Symmetric /\ WorkInv /\ NoNode \notin tree.nodes
  BY KnownHere
<1>2. /\ at # NoNode /\ Idle /\ status[t] # "pruned" /\ at' = NoNode
      /\ \E c \in Candidates(Held) :
           /\ \A d \in Candidates(Held) : c[Len(c)] <= d[Len(d)]
           /\ stack' = Append(stack, Resume(c)) /\ CreateBegin(c) /\ CountChild(c)
  BY DEF Descend, Go, Ready
<1>3. t \in tree.nodes /\ status[t] = "live" /\ at \in Work /\ cur = NoNode
  BY <1>1, <1>2, AtFacts DEF Work
<1>4. PICK c \in Candidates(Held) :
           /\ \A d \in Candidates(Held) : c[Len(c)] <= d[Len(d)]
           /\ stack' = Append(stack, Resume(c)) /\ CreateBegin(c) /\ CountChild(c)
  BY <1>2
<1>5. c \in Children(t) /\ c[Len(c)] >= at.next_child /\ ~Flagged(c, Held)
  BY DEF Candidates
<1>6. c \in tree.nodes \ {Root} /\ Parent(c) = t /\ Last(c) = c[Len(c)] /\ Last(c) \in Nat
  BY <1>1, <1>3, <1>5, ChildrenAreNodes
<1>7. t # c /\ Above(t, c) /\ Len(c) = Len(t) + 1 /\ Len(t) \in Nat
  BY <1>1, <1>3, <1>6, ChildAbove, PathLength
<1>8. status[c] = "absent" /\ c \notin child_pruned
  <2>1. NotYet(at)
    BY <1>1, <1>3 DEF WorkInv
  <2> QED
    BY <1>5, <1>6, <2>1 DEF NotYet, Flagged
<1>9. ASSUME NEW d \in Children(t), Last(d) >= at.next_child, status[d] = "absent",
             d \notin child_pruned, d # c
      PROVE  Last(d) >= Last(c) + 1
  <2>1. Last(d) = d[Len(d)] /\ Last(d) \in Nat
    BY <1>1, <1>3, <1>9, ChildrenAreNodes
  <2>2. d \in Candidates(Held)
    BY <1>9, <2>1 DEF Candidates, Flagged
  <2>3. Last(c) <= Last(d)
    BY <1>4, <1>6, <2>1, <2>2
  <2>4. Last(c) # Last(d)
    BY <1>1, <1>3, <1>5, <1>9, SameLast
  <2> QED
    BY <1>6, <2>1, <2>3, <2>4
<1>10. /\ UNCHANGED <<tree, child_pruned, max_level, generations, canon_leaf>>
       /\ status' = [status EXCEPT ![c] = "constructing"] /\ cur' = c
       /\ node_gen' = [node_gen EXCEPT ![c] = BeginGeneration(c)]
  BY <1>4 DEF CreateBegin, coordVars, leafVars
<1>11. /\ UNCHANGED <<implicit, forest, t_path>> /\ child_count' = [child_count EXCEPT ![t] = 1]
  BY <1>4, <1>6 DEF CountChild, chainVars, setup
<1>12. stack' = Append(stack, Elem(t, Last(c) + 1))
  BY <1>4, <1>6 DEF Resume
<1>13. \A d \in Children(t) : Last(d) >= at.next_child /\ status[d] = "absent"
                                 /\ d \notin child_pruned /\ d # c => Last(d) >= Last(c) + 1
  BY <1>9
<1>14. c # NoNode
  BY <1>1, <1>6
<1> HIDE <1>4
<1> QED
  BY <1>2, <1>3, <1>5, <1>6, <1>7, <1>8, <1>10, <1>11, <1>12, <1>13, <1>14

LEMMA DescendKeeps ==
  ASSUME PInv, Descend(Held)
  PROVE  Promised' /\ Dismisses
<1>1. /\ IInv /\ ShapeInv /\ StackInv /\ Fresh /\ Served /\ IsTree(tree) /\ NoNode \notin tree.nodes
      /\ canon_leaf \in tree.nodes \cup {NoNode} /\ ControlTypeOK /\ StackOK
  BY KnownHere
<1>2. PICK t : t = at.node
  OBVIOUS
<1>3. /\ t \in tree.nodes /\ status[t] = "live" /\ at # NoNode /\ at \in Work /\ cur = NoNode /\ Idle
      /\ UNCHANGED <<tree, implicit, child_pruned, forest, t_path, max_level, generations, canon_leaf>>
  BY <1>2, DescendFacts
<1>4. PICK c \in Children(t) :
        /\ c \in tree.nodes \ {Root} /\ Parent(c) = t /\ t # c /\ c # NoNode
        /\ Above(t, c) /\ Len(c) = Len(t) + 1 /\ Len(t) \in Nat
        /\ status[c] = "absent" /\ c \notin child_pruned /\ Last(c) \in Nat
        /\ \A d \in Children(t) : Last(d) >= at.next_child /\ status[d] = "absent"
                                    /\ d \notin child_pruned /\ d # c => Last(d) >= Last(c) + 1
        /\ status' = [status EXCEPT ![c] = "constructing"] /\ cur' = c
        /\ node_gen' = [node_gen EXCEPT ![c] = BeginGeneration(c)]
        /\ child_count' = [child_count EXCEPT ![t] = 1]
        /\ stack' = Append(stack, Elem(t, Last(c) + 1)) /\ at' = NoNode
  BY <1>2, DescendFacts
<1>5. PICK f : f = Elem(t, Last(c) + 1)
  OBVIOUS
<1>6. f.node = t /\ f.next_child = Last(c) + 1
  BY <1>5 DEF Elem
<1>7. /\ status'[c] = "constructing" /\ \A s \in tree.nodes \ {c} : status'[s] = status[s]
      /\ \A s \in tree.nodes : status'[s] = "live" <=> status[s] = "live"
      /\ \A s \in tree.nodes : status'[s] = "pruned" <=> status[s] = "pruned"
  BY <1>1, <1>4 DEF ControlTypeOK
<1>8. f \in Work' /\ Work \subseteq Work' \cup {at} /\ Work' \subseteq Work \cup {f}
  <2>1. stack \in Seq(Elems) /\ f \in Elems /\ stack' = Append(stack, f)
    BY <1>1, <1>3, <1>4, <1>5 DEF StackOK, Elem, Elems
  <2>2. /\ Len(stack') = Len(stack) + 1 /\ Len(stack) \in Nat
        /\ \A i \in 1 .. Len(stack) : stack'[i] = stack[i]
        /\ stack'[Len(stack) + 1] = f
    BY <2>1, Appended, LenNat
  <2>3. \A i \in 1 .. Len(stack') : i \in 1 .. Len(stack) \/ i = Len(stack) + 1
    BY <2>2
  <2>4. \A i \in 1 .. Len(stack) : i \in 1 .. Len(stack')
    BY <2>2
  <2>5. Len(stack) + 1 \in 1 .. Len(stack')
    BY <2>2
  <2>6. Work' = {stack'[i] : i \in 1 .. Len(stack')}
    BY <1>4 DEF Work
  <2>7. Work = {stack[i] : i \in 1 .. Len(stack)} \cup {at}
    BY <1>3 DEF Work
  <2>8. f \in Work'
    BY <2>2, <2>5, <2>6
  <2>9. \A i \in 1 .. Len(stack) : stack[i] \in Work'
    BY <2>2, <2>4, <2>6
  <2>10. Work' \subseteq {stack[i] : i \in 1 .. Len(stack)} \cup {f}
    BY <2>2, <2>3, <2>6
  <2> QED
    BY <2>7, <2>8, <2>9, <2>10
<1>9. Working' = Working
  <2>1. /\ Working = {e.node : e \in Work}
    BY <1>1, WorkFacts
  <2>2. Working' = {e.node : e \in Work'}
    BY <1>4 DEF Working, Work
  <2> QED
    BY <1>2, <1>3, <1>6, <1>8, <2>1, <2>2
<1>10. Engaged = Working /\ Engaged' = Working \cup {c}
  BY <1>3, <1>4, <1>9 DEF Engaged
<1>11. ASSUME NEW v \in Working
       PROVE  v \in tree.nodes /\ Above(v, t) /\ Above(v, c) /\ Len(v) \in Nat /\ Len(v) <= Len(t)
  <2>1. PICK e \in Work : v = e.node
    BY <1>1, <1>11, WorkFacts
  <2>2. v \in tree.nodes /\ (e # at => Level(v) < Level(t))
    BY <1>1, <1>2, <1>3, <2>1, WorkFacts
  <2>3. Len(v) \in Nat
    BY <1>1, <2>2, PathLength
  <2>4. Len(v) <= Len(t)
    BY <1>2, <1>4, <2>1, <2>2, <2>3 DEF Level
  <2>5. t \in Engaged /\ v \in Engaged
    <3>1. t \in Working
      BY <1>1, <1>2, <1>3, WorkFacts
    <3> QED
      BY <1>10, <1>11, <3>1
  <2>6. Above(v, t)
    BY <1>1, <2>4, <2>5 DEF StackInv, OnePath
  <2>7. Above(v, c)
    BY <1>1, <1>3, <1>4, <2>2, <2>6, AboveOn
  <2> QED
    BY <2>2, <2>3, <2>4, <2>6, <2>7
<1>12. ShapeInv'
  BY <1>1, <1>3, <1>4, KnownOfTree, ShapeCreated
<1>13. StillToDo'
  <2> SUFFICES ASSUME NEW w \in tree.nodes, status'[w] = "live", NEW d \in Children(w),
                      status'[d] = "absent", d \notin child_pruned'
               PROVE  \E e \in Work' : e.node = w /\ Last(d) >= e.next_child
    BY <1>3 DEF StillToDo, Children
  <2>1. d \in tree.nodes
    BY <1>1, ChildrenAreNodes
  <2>2. status[w] = "live" /\ d # c /\ status[d] = "absent" /\ d \notin child_pruned
    BY <1>3, <1>7, <2>1
  <2>3. PICK e \in Work : e.node = w /\ Last(d) >= e.next_child
    BY <1>1, <2>2 DEF StackInv, StillToDo
  <2>4. CASE e = at
    BY <1>2, <1>4, <1>6, <1>8, <2>2, <2>3, <2>4
  <2> QED
    BY <1>8, <2>3, <2>4
<1>14. OnePath'
  <2>1. Above(c, c)
    BY <1>1, <1>4, AboveOn
  <2>2. ASSUME NEW v \in Working \cup {c}, NEW w \in Working \cup {c}, Len(v) <= Len(w)
        PROVE  Above(v, w)
    <3>1. CASE w = c
      BY <1>11, <2>1, <2>2, <3>1
    <3>2. CASE w # c /\ v = c
      BY <1>4, <1>11, <2>2, <3>2
    <3>3. CASE w # c /\ v # c
      BY <1>1, <1>10, <2>2, <3>3 DEF StackInv, OnePath
    <3> QED
      BY <3>1, <3>2, <3>3
  <2> QED
    BY <1>10, <2>2 DEF OnePath, Above
<1>15. StackCurrent'
  <2>1. ASSUME NEW e \in Work', e.node # Root
        PROVE  Level(e.node) <= max_level' /\ node_gen'[e.node] >= generations'[Level(e.node)]
    <3>1. PICK g \in Work : g.node = e.node
      BY <1>2, <1>3, <1>6, <1>8, <2>1
    <3>2. g.node \in tree.nodes /\ g.node # c
      BY <1>1, <1>4, <3>1, WorkFacts
    <3>3. node_gen'[g.node] = node_gen[g.node]
      BY <1>1, <1>4, <3>2 DEF ControlTypeOK
    <3> QED
      BY <1>1, <1>3, <2>1, <3>1, <3>3 DEF StackInv, StackCurrent
  <2> QED
    BY <2>1 DEF StackCurrent, Level
<1>16. ChildrenCounted'
  <2>1. child_count \in [tree.nodes -> {0, 1}]
        /\ \A s \in tree.nodes : status[s] \in {"absent", "constructing"} => child_count[s] = 0
    BY <1>1 DEF StackInv, ChildrenCounted
  <2>2. child_count' \in [tree.nodes -> {0, 1}] /\ \A s \in tree.nodes \ {t} : child_count'[s] = child_count[s]
    BY <1>4, <2>1
  <2>3. ASSUME NEW s \in tree.nodes, status'[s] \in {"absent", "constructing"} PROVE child_count'[s] = 0
    <3>1. status[s] \in {"absent", "constructing"}
      BY <1>4, <1>7, <2>3
    <3> QED
      BY <1>3, <2>1, <2>2, <3>1
  <2> QED
    BY <1>3, <2>2, <2>3 DEF ChildrenCounted
<1>17. Idle' /\ CanonUp'
  BY <1>3, CanonUpIdle DEF Idle
<1>18. Newest' = c
  BY <1>4 DEF Newest
<1>19. canon_leaf = NoNode => Newest = t /\ Level(t) = max_level
  <2>1. Foremost = at /\ Newest = t
    BY <1>2, <1>3 DEF Foremost, Newest
  <2> QED
    BY <1>1, <1>3, <2>1 DEF Fresh
<1>20. Fresh'
  <2> SUFFICES ASSUME canon_leaf = NoNode PROVE cur' # NoNode /\ IsExtending(cur)'
    BY <1>3, <1>17 DEF Fresh
  <2>1. Level(c) > max_level
    BY <1>4, <1>19 DEF Level
  <2> QED
    BY <1>3, <1>4, <2>1 DEF IsExtending, Level
<1>21. Reach' = Reach
  <2>1. \A m \in LeavesOf(tree) : m \in tree.nodes
    BY DEF LeavesOf
  <2>2. \A m : Uncut(m)' <=> Uncut(m)
    BY <1>3, <1>7, SameTreeTerms DEF Uncut
  <2> QED
    BY <1>3, <1>7, <1>9, <2>1, <2>2, SameTreeTerms DEF Reach
<1>22. Served'
  <2>1. PICK S : S = Scope'
    OBVIOUS
  <2>2. PICK R : R = Reach'
    OBVIOUS
  <2>3. S = Scope
    BY <1>3, <2>1, ScopeKept
  <2>4. Beaten \subseteq BeatenBy(canon_leaf', c)
    <3>1. \A m \in LeavesOf(tree) : Above(c, m) => Above(t, m)
      BY <1>1, <1>3, <1>4, AboveOn DEF LeavesOf
    <3> QED
      BY <1>3, <1>19, <3>1 DEF Beaten, BeatenBy
  <2> QED
    BY <1>1, <1>3, <1>18, <1>21, <2>1, <2>2, <2>3, <2>4, ServedKept
<1> QED
  BY <1>3, <1>12, <1>13, <1>14, <1>15, <1>16, <1>17, <1>20, <1>21, <1>22 DEF Promised, StackInv, Dismisses

-----------------------------------------------------------------------------
(* A leaf is reported.                                                     *)

LEMMA ReportedLeaf ==
  ASSUME PInv, Report(Held), NEW t, t = at.node
  PROVE  /\ t \in tree.nodes /\ t \in LeavesOf(tree) /\ IsLeaf(t) /\ status[t] = "live" /\ UpToDate(t)
         /\ cur = NoNode /\ cur # Root /\ at # NoNode /\ at \in Work /\ Idle
         /\ t # canon_leaf /\ t \in Reach /\ t \in Working
         /\ at' = NoNode /\ stack' = stack /\ ReportVisited(t, Held)
         /\ canon_leaf # NoNode => /\ Len(t) = Len(canon_leaf)
                                   /\ SamePath(tree, t, canon_leaf, Len(t))
                                   /\ SamePath(tree, canon_leaf, t, Len(t))
<1>1. /\ IInv /\ ShapeInv /\ WorkInv /\ IsTree(tree) /\ TreeInv /\ RecordInv /\ ControlTypeOK
      /\ canon_leaf \in tree.nodes \cup {NoNode} /\ NoNode \notin tree.nodes
  BY KnownHere
<1>2. /\ ReportVisited(t, Held) /\ IsLeaf(t) /\ status[t] # "pruned" /\ at # NoNode /\ Idle
      /\ at' = NoNode /\ stack' = stack
  BY DEF Report, Go, Ready
<1>3. t \in tree.nodes /\ status[t] = "live" /\ UpToDate(t) /\ cur = NoNode
  BY <1>1, <1>2, AtFacts DEF UpToDate
<1>4. cur # Root
  BY <1>1, <1>3 DEF IsTree
<1>5. at \in Work /\ t \in Working /\ t # canon_leaf
  BY <1>1, <1>2 DEF Work, Working, WorkInv
<1>6. t \in LeavesOf(tree) /\ t \in Reach
  <2>1. t \in LeavesOf(tree)
    BY <1>2, <1>3 DEF LeavesOf, IsLeaf, Children
  <2>2. Uncut(t)
    BY <1>1, <1>3, LiveInScope
  <2> QED
    BY <1>5, <2>1, <2>2 DEF Reach
<1>7. ASSUME canon_leaf # NoNode
      PROVE  /\ Len(t) = Len(canon_leaf)
             /\ SamePath(tree, t, canon_leaf, Len(t))
             /\ SamePath(tree, canon_leaf, t, Len(t))
  <2>1. Level(t) = max_level /\ PathRecorded(t, max_level)
    BY <1>1, <1>2, <1>3, <1>4, LeafIsDeepest
  <2>2. Level(canon_leaf) = max_level /\ PathRecorded(canon_leaf, max_level)
    BY <1>1, <1>7 DEF RecordInv, CandidateOnRecord
  <2>3. Len(t) = max_level /\ Len(canon_leaf) = max_level /\ max_level \in Nat
    BY <1>1, <1>3, <2>1, <2>2, PathLength DEF Level
  <2>4. \A i \in 1 .. Len(t) : PathElements(tree, canon_leaf, i) = PathElements(tree, t, i)
    <3>1. \A i \in 1 .. Len(t) : i \in 0 .. max_level
      BY <2>3
    <3> QED
      BY <2>1, <2>2, <3>1 DEF PathRecorded, OnPath
  <2> QED
    BY <2>3, <2>4 DEF SamePath
<1> QED
  BY <1>1, <1>2, <1>3, <1>4, <1>5, <1>6, <1>7

(* What it does to the candidate.                                          *)
LEMMA ReportChoice ==
  ASSUME PInv, Report(Held), NEW t, t = at.node
  PROVE  /\ canon_leaf' = IF canon_leaf = NoNode \/ ~LeafAtLeast(tree, canon_leaf, t)
                          THEN t ELSE canon_leaf
         /\ AsGood(canon_leaf', t) /\ canon_leaf' # NoNode /\ canon_leaf' \in tree.nodes
         /\ canon_leaf # NoNode => AsGood(canon_leaf', canon_leaf)
         /\ FindsAutomorphism(t) => canon_leaf' = canon_leaf /\ canon_leaf # NoNode
<1>1. /\ IsTree(tree) /\ canon_leaf \in tree.nodes \cup {NoNode} /\ NoNode \notin tree.nodes
  BY KnownHere
<1>2. /\ t \in tree.nodes /\ ReportVisited(t, Held)
      /\ canon_leaf # NoNode => /\ Len(t) = Len(canon_leaf)
                                /\ SamePath(tree, t, canon_leaf, Len(t))
                                /\ SamePath(tree, canon_leaf, t, Len(t))
  BY ReportedLeaf
<1>3. tree.cert[t] \in Nat /\ t # NoNode /\ AsGood(t, t)
  BY <1>1, <1>2, PathElementsType, AsGoodSelf
<1>4. CASE canon_leaf = NoNode
  <2>1. canon_leaf' = t
    BY <1>2, <1>4 DEF ReportVisited, ReportLeaf
  <2> QED
    BY <1>2, <1>3, <1>4, <2>1 DEF FindsAutomorphism
<1>5. CASE canon_leaf # NoNode
  <2>1. PICK b : b = canon_leaf
    OBVIOUS
  <2>2. /\ b \in tree.nodes /\ Len(t) = Len(b) /\ SamePath(tree, t, b, Len(t)) /\ SamePath(tree, b, t, Len(t))
        /\ tree.cert[b] \in Nat /\ AsGood(b, b)
    BY <1>1, <1>2, <1>5, <2>1, PathElementsType, AsGoodSelf
  <2>3. canon_leaf' = IF tree.cert[t] < tree.cert[b] THEN t ELSE b
    BY <1>2, <1>5, <2>1 DEF ReportVisited, ReportLeaf, Reference
  <2>4. LeafAtLeast(tree, b, t) <=> ~(tree.cert[t] < tree.cert[b])
    <3>1. ~TraceBetter(tree, t, b) /\ ~TraceBetter(tree, b, t)
      BY <1>1, <1>2, <2>2, TraceBetterOneWay
    <3> QED
      BY <3>1 DEF LeafAtLeast, LeafBetter
  <2>5. tree.cert[t] <= tree.cert[b] => AsGood(t, b)
    BY <2>2 DEF AsGood
  <2>6. tree.cert[b] <= tree.cert[t] => AsGood(b, t)
    BY <2>2 DEF AsGood
  <2>7. FindsAutomorphism(t) => tree.cert[t] = tree.cert[b]
    BY <2>1 DEF FindsAutomorphism, Reference
  <2>8. CASE tree.cert[t] < tree.cert[b]
    <3>1. canon_leaf' = t /\ AsGood(t, b) /\ ~LeafAtLeast(tree, b, t) /\ ~FindsAutomorphism(t)
      BY <1>3, <2>2, <2>3, <2>4, <2>5, <2>7, <2>8
    <3> QED
      BY <1>2, <1>3, <1>5, <2>1, <3>1
  <2>9. CASE ~(tree.cert[t] < tree.cert[b])
    <3>1. canon_leaf' = b /\ AsGood(b, t) /\ LeafAtLeast(tree, b, t)
      BY <1>3, <2>2, <2>3, <2>4, <2>6, <2>9
    <3> QED
      BY <1>1, <1>5, <2>1, <2>2, <3>1
  <2> QED
    BY <2>8, <2>9
<1> QED
  BY <1>4, <1>5

(* What the automorphism prunes has an image beside it, below an ancestor  *)
(* of the candidate that the traversal has left.                           *)
LEMMA ReportPrunes ==
  ASSUME PInv, Report(Held), NEW t, t = at.node, FindsAutomorphism(t), AutomorphismLeaf(t, Held)
  PROVE  \E b \in tree.nodes \ {Root} :
           /\ PruneSubtree(b, {}) /\ status[Parent(b)] = "live"
           /\ \A m \in Reach : Above(b, m) => AsGood(canon_leaf, m)
<1>1. /\ IInv /\ RInv /\ GensInv /\ ShapeInv /\ StackInv /\ Served /\ WorkInv /\ IsTree(tree)
      /\ Symmetric /\ Input /\ NoNode \notin tree.nodes
  BY KnownHere
<1>2. /\ t \in tree.nodes /\ t \in LeavesOf(tree) /\ IsLeaf(t) /\ status[t] = "live" /\ UpToDate(t)
      /\ cur = NoNode /\ cur # Root /\ at \in Work /\ t # canon_leaf /\ t \in Working
  BY ReportedLeaf
<1>3. PICK cl : cl = canon_leaf
  OBVIOUS
<1>4. PICK p : p = ExplicitAutomorphism(t)
  OBVIOUS
<1>5. /\ p \in tree.auts /\ Image(p, cl) = t /\ cl \in tree.nodes /\ IsLeaf(cl) /\ Level(t) = Level(cl)
  BY <1>1, <1>2, <1>3, <1>4, KnownOfTree, ExplicitIsReal DEF RInv
<1>6. Len(t) = Len(cl) /\ Len(t) \in Nat /\ cl # NoNode /\ status[cl] = "live"
  BY <1>1, <1>2, <1>3, <1>5, PathLength DEF Level, WorkInv
<1>7. PICK b : b = BelowCommon(t) /\ PruneSubtree(b, {})
  BY DEF AutomorphismLeaf
<1>8. /\ ~Above(b, cl)
      /\ \E j \in 1 .. Len(t) : b = Ancestor(t, j)
  BY <1>1, <1>2, <1>3, <1>5, <1>7, BelowCommonIs
<1>9. PICK j \in 1 .. Len(t) : b = Ancestor(t, j)
  BY <1>8
<1>10. j \in 0 .. Len(t) /\ j \in 0 .. Len(cl) /\ j # 0
  BY <1>6
<1>11. b \in tree.nodes \ {Root} /\ Above(b, t) /\ Len(b) = j
  BY <1>1, <1>2, <1>9, <1>10, AncestorsAbove
<1>12. PICK a : a = Ancestor(cl, j)
  OBVIOUS
<1>13. a \in tree.nodes /\ Above(a, cl) /\ Len(a) = j
  BY <1>1, <1>5, <1>10, <1>12, AncestorsAbove
<1>14. Image(p, a) = b
  BY <1>1, <1>5, <1>9, <1>10, <1>12, ImageOfPath
<1>15. status[a] = "live" /\ a \in Scope
  <2>1. status[a] = "live"
    BY <1>1, <1>5, <1>6, <1>13 DEF ShapeInv, Living
  <2> QED
    BY <1>1, <1>13, <2>1, LiveInScope
<1>16. \A v \in Engaged : ~Above(a, v)
  <2> SUFFICES ASSUME NEW v \in Engaged, Above(a, v) PROVE FALSE
    OBVIOUS
  <2>1. Engaged = Working
    BY <1>2 DEF Engaged
  <2>2. PICK e \in Work : v = e.node
    BY <1>1, <2>1, WorkFacts
  <2>3. v \in tree.nodes /\ (e # at => Level(v) < Level(t)) /\ at # NoNode
    BY <1>1, <2>2, WorkFacts, ReportedLeaf
  <2>4. Len(v) \in Nat /\ Len(v) <= Len(t)
    BY <1>1, <1>6, <2>2, <2>3, PathLength DEF Level
  <2>5. Above(v, t)
    BY <1>1, <1>2, <2>1, <2>4 DEF StackInv, OnePath
  <2>6. Above(a, t)
    BY <1>1, <1>2, <1>13, <2>3, <2>5, AboveOn
  <2>7. Above(a, b)
    BY <1>1, <1>2, <1>11, <1>13, <2>6, AboveOn
  <2>8. a = b
    BY <1>1, <1>11, <1>13, <2>7, AboveOn
  <2> QED
    BY <1>8, <1>13, <2>8
<1>17. status[Parent(b)] = "live"
  <2>1. Parent(b) \in tree.nodes /\ Above(Parent(b), b) /\ Parent(b) # b /\ Len(b) = Len(Parent(b)) + 1
    BY <1>1, <1>11, ChildAbove
  <2>2. Above(Parent(b), t)
    BY <1>1, <1>2, <1>11, <2>1, AboveOn
  <2>3. Parent(b) # t
    <3>1. Len(Parent(b)) \in Nat
      BY <1>1, <2>1, PathLength
    <3> QED
      BY <1>6, <1>11, <2>1, <3>1
  <2> QED
    BY <1>1, <1>2, <2>1, <2>2, <2>3 DEF ShapeInv, Living
<1>18. PICK q \in tree.auts : \A s \in tree.nodes : \A i \in 1 .. Len(s) : q[p[s[i]]] = s[i]
  BY <1>1, <1>5, GroupElements
<1>19. Image(q, b) = a
  <2>1. b \in tree.nodes /\ Len(b) = Len(a) /\ \A i \in 1 .. Len(a) : b[i] = p[a[i]]
    BY <1>1, <1>5, <1>11, <1>13, <1>14, ImageFacts
  <2>2. Image(q, b) \in tree.nodes /\ Len(Image(q, b)) = Len(b) /\ \A i \in 1 .. Len(b) : Image(q, b)[i] = q[b[i]]
    BY <1>1, <1>18, <2>1, ImageFacts
  <2>3. \A i \in 1 .. Len(a) : Image(q, b)[i] = a[i]
    BY <1>13, <1>18, <2>1, <2>2
  <2> QED
    BY <1>1, <1>13, <2>1, <2>2, <2>3, SameImage
<1>20. ASSUME NEW m \in Reach, Above(b, m) PROVE AsGood(cl, m)
  <2>1. m \in LeavesOf(tree) /\ m \in tree.nodes
    BY <1>20 DEF Reach, LeavesOf
  <2>2. PICK k : k = Image(q, m)
    OBVIOUS
  <2>3. k \in LeavesOf(tree) /\ k \in tree.nodes /\ AsGood(k, m)
    BY <1>1, <1>18, <2>1, <2>2, ImageOfLeaf DEF LeavesOf
  <2>4. Above(a, k)
    BY <1>1, <1>11, <1>18, <1>19, <1>20, <2>1, <2>2, ImageAbove
  <2>5. ~\E n \in Reach : Above(a, n)
    BY <1>1, <1>13, <1>15, <1>16, NothingLeft
  <2>6. k \in Beaten
    BY <1>1, <1>15, <2>3, <2>4, <2>5 DEF Served, ServedBy
  <2>7. AsGood(cl, k)
    BY <1>3, <1>6, <2>6 DEF Beaten, BeatenBy
  <2> QED
    BY <1>1, <1>5, <2>1, <2>3, <2>7, AsGoodOn
<1> QED
  BY <1>3, <1>7, <1>11, <1>17, <1>20

LEMMA ReportKeeps ==
  ASSUME PInv, Report(Held), NEW t, t = at.node
  PROVE  /\ Promised' /\ t \in Reach /\ Reach' \subseteq Reach \ {t}
         /\ canon_leaf' = IF canon_leaf = NoNode \/ ~LeafAtLeast(tree, canon_leaf, t)
                          THEN t ELSE canon_leaf
<1>1. /\ IInv /\ RInv /\ GensInv /\ ShapeInv /\ StackInv /\ Served /\ WorkInv /\ IsTree(tree)
      /\ canon_leaf \in tree.nodes \cup {NoNode} /\ NoNode \notin tree.nodes /\ pruner = "basic"
  BY KnownHere
<1>2. /\ t \in tree.nodes /\ t \in LeavesOf(tree) /\ IsLeaf(t) /\ status[t] = "live" /\ UpToDate(t)
      /\ cur = NoNode /\ at # NoNode /\ at \in Work /\ Idle /\ t \in Reach /\ t \in Working
      /\ at' = NoNode /\ stack' = stack /\ ReportVisited(t, Held)
  BY ReportedLeaf
<1>3. /\ canon_leaf' = IF canon_leaf = NoNode \/ ~LeafAtLeast(tree, canon_leaf, t)
                       THEN t ELSE canon_leaf
      /\ AsGood(canon_leaf', t) /\ canon_leaf' # NoNode /\ canon_leaf' \in tree.nodes
      /\ canon_leaf # NoNode => AsGood(canon_leaf', canon_leaf)
      /\ FindsAutomorphism(t) => canon_leaf' = canon_leaf /\ canon_leaf # NoNode
  BY ReportChoice
<1>4. \/ FindsAutomorphism(t) /\ AutomorphismLeaf(t, Held)
      \/ UNCHANGED <<tree, status, child_pruned, coordVars, dataVars, values,
                     q_max_level, cur, emitted, prunerVars, chainVars>>
  <2>1. \/ FindsAutomorphism(t) /\ AutomorphismLeaf(t, Held)
        \/ /\ IF pruner = "schreier" /\ canon_leaf' # canon_leaf
              THEN CanonNewBest(canon_leaf, t) ELSE UNCHANGED chainVars
           /\ UNCHANGED <<tree, status, child_pruned, coordVars, dataVars, values,
                          q_max_level, cur, emitted, prunerVars>>
    BY <1>2 DEF ReportVisited
  <2> QED
    BY <1>1, <2>1
<1>5. UNCHANGED <<tree, implicit, child_count, cur, t_path, forest, max_level, node_gen, generations>>
  BY <1>1, <1>4 DEF AutomorphismLeaf, PruneSubtree, AddAutomorphism, coordVars, dataVars, prunerVars,
     chainVars, setup
<1>6. Work' \subseteq Work \ {at} /\ Work \subseteq Work' \cup {at}
  <2>1. \A i \in 1 .. Len(stack) : stack[i] # at
    <3>1. Level(t) = Len(stack) /\ Len(stack) \in Nat
      BY <1>1, <1>2, AtFacts, LenNat DEF IInv, Typed, StackOK
    <3>2. \A i \in 1 .. Len(stack) : Level(stack[i].node) = i - 1
      BY <1>1 DEF IInv, StatusOK, PathOK
    <3> QED
      BY <3>1, <3>2
  <2> QED
    BY <1>2, <2>1 DEF Work
<1>7. Working' \subseteq Working \ {t} /\ Working \subseteq Working' \cup {t}
  <2>1. Working = {e.node : e \in Work}
    BY <1>1, WorkFacts
  <2>2. Working' = {e.node : e \in Work'}
    BY <1>2 DEF Working, Work
  <2>3. \A e \in Work : e # at => Level(e.node) < Level(t)
    BY <1>1, <1>2, WorkFacts
  <2>4. Level(t) \in Nat
    BY <1>1, <1>2, PathLength
  <2>5. \A e \in Work : e # at => e.node # t
    BY <2>3, <2>4
  <2> QED
    BY <1>6, <2>1, <2>2, <2>5
(* What is cut has been beaten by the candidate.                           *)
<1>8. /\ ShapeInv' /\ child_pruned \subseteq child_pruned'
      /\ \A s \in tree.nodes : \/ status'[s] = status[s]
                               \/ s # Root /\ status[s] = "live" /\ status'[s] = "pruned"
      /\ \A m \in Reach : (\E s \in tree.nodes \ {Root} : Above(s, m) /\ (status'[s] = "pruned" \/ s \in child_pruned'))
                            => AsGood(canon_leaf', m)
  <2>1. CASE FindsAutomorphism(t) /\ AutomorphismLeaf(t, Held)
    <3>1. PICK b \in tree.nodes \ {Root} :
            /\ PruneSubtree(b, {}) /\ status[Parent(b)] = "live"
            /\ \A m \in Reach : Above(b, m) => AsGood(canon_leaf, m)
      BY <2>1, ReportPrunes
    <3>2. /\ child_pruned' = child_pruned \cup {s \in {s \in tree.nodes : Above(b, s)} \ {b} : status[Parent(s)] = "live"}
          /\ status' = [s \in tree.nodes |-> IF s \in {s2 \in tree.nodes : Above(b, s2)} /\ status[s] = "live"
                                              THEN "pruned" ELSE status[s]]
      BY <3>1 DEF PruneSubtree
    <3>3. ~Above(b, Root)
      BY <1>1, <3>1, AncestorsAbove, AboveOn
    <3>4. SetsCut'
      BY <1>1, <1>5, <3>2 DEF ShapeInv, SetsCut
    <3>5. ShapeInv'
      BY <1>1, <1>2, <1>5, <3>1, <3>4, KnownOfTree, ShapePruned
    <3>6. ASSUME NEW m \in Reach, NEW s \in tree.nodes \ {Root}, Above(s, m),
                 status'[s] = "pruned" \/ s \in child_pruned'
          PROVE  AsGood(canon_leaf', m)
      <4>1. m \in tree.nodes /\ status[s] # "pruned" /\ s \notin child_pruned
        BY <3>6 DEF Reach, Uncut, LeavesOf
      <4>2. Above(b, s)
        BY <3>2, <3>6, <4>1
      <4>3. Above(b, m)
        BY <1>1, <3>1, <3>6, <4>1, <4>2, AboveOn
      <4> QED
        BY <1>3, <2>1, <3>1, <4>3
    <3>7. \A s \in tree.nodes : \/ status'[s] = status[s]
                                \/ s # Root /\ status[s] = "live" /\ status'[s] = "pruned"
      BY <3>2, <3>3
    <3> QED
      BY <3>2, <3>5, <3>6, <3>7
  <2>2. CASE UNCHANGED <<tree, status, child_pruned, coordVars, dataVars, values,
                         q_max_level, cur, emitted, prunerVars, chainVars>>
    <3>1. ShapeInv'
      BY <1>1, <1>5, <2>2, ShapeKept
    <3>2. \A m \in Reach : ~\E s \in tree.nodes \ {Root} : Above(s, m) /\ (status'[s] = "pruned" \/ s \in child_pruned')
      BY <2>2 DEF Reach, Uncut
    <3> QED
      BY <2>2, <3>1, <3>2
  <2> QED
    BY <1>4, <2>1, <2>2
<1>9. /\ Reach' \subseteq Reach
      /\ \A m \in Reach : m \in Reach' \/ (status'[m] = "live" /\ m \notin Working')
           \/ \E a \in tree.nodes \ {Root} : /\ Above(a, m)
                                             /\ status'[a] = "pruned" \/ a \in child_pruned'
  <2>1. \A s \in Working' : s \in Working
    BY <1>7
  <2> QED
    BY <1>1, <1>5, <1>8, <2>1, ReachShrinks
<1>10. t \notin Reach'
  <2> SUFFICES ASSUME t \in Reach' PROVE FALSE
    OBVIOUS
  <2>1. /\ status'[t] = "live" => t \in Working'
        /\ t # Root => status'[t] # "pruned"
    <3>1. Above(t, t)
      BY <1>1, <1>2, AboveOn
    <3> QED
      BY <1>2, <1>5, <3>1, SameTreeTerms DEF Reach, Uncut
  <2> QED
    BY <1>2, <1>7, <1>8, <2>1
<1>11. ASSUME NEW m \in Reach, m \notin Reach' PROVE m \in BeatenBy(canon_leaf', Newest')
  <2>1. m \in LeavesOf(tree) /\ m \in tree.nodes /\ (status[m] = "live" => m \in Working)
    BY <1>11 DEF Reach, LeavesOf
  <2>2. CASE status'[m] = "live" /\ m \notin Working'
    <3>1. status[m] = "live"
      BY <1>8, <2>1, <2>2
    <3>2. m = t
      BY <1>7, <2>1, <2>2, <3>1
    <3> QED
      BY <1>3, <2>1, <3>2 DEF BeatenBy
  <2>3. CASE \E a \in tree.nodes \ {Root} : Above(a, m) /\ (status'[a] = "pruned" \/ a \in child_pruned')
    BY <1>3, <1>8, <2>1, <2>3 DEF BeatenBy
  <2> QED
    BY <1>9, <1>11, <2>2, <2>3
<1>12. Beaten \subseteq BeatenBy(canon_leaf', Newest')
  <2> SUFFICES ASSUME NEW l \in Beaten PROVE l \in BeatenBy(canon_leaf', Newest')
    OBVIOUS
  <2>1. l \in LeavesOf(tree) /\ l \in tree.nodes
    BY DEF Beaten, BeatenBy, LeavesOf
  <2>2. AsGood(canon_leaf', l)
    <3>1. CASE canon_leaf = NoNode
      <4>1. Foremost = at /\ Newest = t
        BY <1>2 DEF Foremost, Newest
      <4>2. Above(t, t)
        BY <1>1, <1>2, AboveOn
      <4>3. AsGood(t, l)
        BY <1>2, <3>1, <4>1, <4>2 DEF Beaten, BeatenBy
      <4> QED
        BY <1>3, <3>1, <4>3
    <3>2. CASE canon_leaf # NoNode
      <4>1. AsGood(canon_leaf, l) /\ AsGood(canon_leaf', canon_leaf) /\ canon_leaf \in tree.nodes
        BY <1>1, <1>3, <3>2 DEF Beaten, BeatenBy
      <4>2. PICK k : k = canon_leaf'
        OBVIOUS
      <4>3. AsGood(k, canon_leaf) /\ k \in tree.nodes
        BY <1>3, <4>1, <4>2
      <4>4. AsGood(k, l)
        BY <1>1, <2>1, <4>1, <4>3, AsGoodOn
      <4> QED
        BY <4>2, <4>4
    <3> QED
      BY <3>1, <3>2
  <2> QED
    BY <1>3, <2>1, <2>2 DEF BeatenBy
<1>13. Served'
  <2>1. PICK S : S = Scope'
    OBVIOUS
  <2>2. PICK R : R = Reach'
    OBVIOUS
  <2>3. PICK n : n = Newest'
    OBVIOUS
  <2>4. S = Scope
    BY <1>5, <2>1, ScopeKept
  <2>5. Beaten \subseteq BeatenBy(canon_leaf', n) /\ \A m \in Reach \ R : m \in BeatenBy(canon_leaf', n)
    BY <1>11, <1>12, <2>2, <2>3
  <2>6. canon_leaf' \in tree.nodes \cup {NoNode}
    BY <1>3
  <2> QED
    BY <1>1, <1>5, <2>1, <2>2, <2>3, <2>4, <2>5, <2>6, ServedKept
<1>14. StackInv'
  <2>1. StillToDo'
    <3>1. Children(t) = {}
      BY <1>2 DEF IsLeaf
    <3>2. \A e \in Work \ Work' : Children(e.node) = {}
      BY <1>6, <3>1
    <3> QED
      BY <1>1, <1>5, <1>8, <3>2, StillToDoKept DEF StackInv
  <2>2. OnePath'
    <3>1. Engaged' \subseteq Engaged
      BY <1>5, <1>7 DEF Engaged
    <3> QED
      BY <1>1, <1>5, <3>1, OnePathKept DEF StackInv
  <2>3. StackCurrent' /\ ChildrenCounted'
    BY <1>1, <1>5, <1>6, <1>8, StackCurrentKept, ChildrenCountedKept DEF StackInv
  <2>4. CanonUp'
    BY <1>2, <1>5, CanonUpIdle DEF Idle
  <2> QED
    BY <2>1, <2>2, <2>3, <2>4 DEF StackInv
<1>15. Fresh'
  BY <1>3 DEF Fresh
<1> QED
  BY <1>2, <1>3, <1>8, <1>9, <1>10, <1>13, <1>14, <1>15 DEF Promised

-----------------------------------------------------------------------------
(* Ancestors are updated before the traversal descends.                    *)

LEMMA CanonUpStep ==
  ASSUME IInv, StackInv, ~Idle, canon_leaf # NoNode, UNCHANGED canon_leaf,
         StopUpdate \/ NextUpdate \/ SameUpdate
  PROVE  CanonUp'
<1>1. PICK b : b = canon_leaf
  OBVIOUS
<1>2. b \in tree.nodes /\ IsTree(tree) /\ Len(b) \in Nat
  BY <1>1, PathLength DEF IInv, Input, Typed, ControlTypeOK
<1>3. CASE StopUpdate
  BY <1>3, CanonUpIdle DEF StopUpdate, Idle
<1>4. CASE SameUpdate
  BY <1>4 DEF StackInv, CanonUp, SameUpdate, Idle, UpPath, Ancestor
<1>5. CASE NextUpdate
  <2> SUFFICES ASSUME c_path' # <<>>
               PROVE  \E n \in 1 .. Len(b) + 1 : c_path' = UpPath(b, n)
    BY <1>1 DEF CanonUp, UpPath, Ancestor
  <2>1. c_path # <<>> /\ c_path' = Front(c_path)
    BY <1>5 DEF NextUpdate
  <2>2. PICK n \in 1 .. Len(b) + 1 : c_path = UpPath(b, n)
    BY <1>1, <2>1 DEF StackInv, CanonUp
  <2>3. n \in 0 .. Len(b) + 1 /\ n > 0 /\ n - 1 \in 0 .. Len(b) + 1
    BY <1>2
  <2>4. c_path' = UpPath(b, n - 1)
    BY <1>2, <2>1, <2>2, <2>3, UpPathFacts
  <2>5. n - 1 # 0
    BY <1>2, <2>3, <2>4, UpPathFacts
  <2>6. n - 1 \in 1 .. Len(b) + 1
    BY <1>2, <2>3, <2>5
  <2> QED
    BY <2>4, <2>6
<1> QED
  BY <1>3, <1>4, <1>5

LEMMA UpdateKeeps ==
  ASSUME PInv, Update(Held), UNCHANGED <<stack, at>>
  PROVE  Promised' /\ Dismisses
<1>1. /\ IInv /\ StackInv /\ Fresh /\ pruner = "basic"
  BY KnownHere
<1>2. ~Idle /\ canon_leaf # NoNode
  BY <1>1 DEF Update, Fresh
<1>3. UNCHANGED <<treeVars, forest, child_count>> /\ (StopUpdate \/ NextUpdate \/ SameUpdate)
  BY DEF Update
<1>4. UNCHANGED chainVars
  BY <1>1 DEF Update, UpdateVisited
<1>5. UNCHANGED <<tree, implicit, status, child_pruned, child_count, stack, at, cur,
                  forest, max_level, node_gen, generations, canon_leaf>>
  BY <1>3, <1>4 DEF treeVars, coordVars, dataVars, leafVars, chainVars, setup
<1>6. CanonUp'
  BY <1>1, <1>2, <1>3, <1>5, CanonUpStep
<1>7. Promised' /\ Reach' = Reach
  BY <1>2, <1>5, <1>6, StayKeeps
<1> QED
  BY <1>5, <1>7 DEF Dismisses

(* What is kept is not the child of a pair that is cut, unless nothing is  *)
(* left below the other.                                                   *)
LEMMA KeepStands ==
  ASSUME PInv, ~Idle, NEW h, h = Highest, h \in tree.nodes, status[h] = "live",
         NEW r \in Children(h), NEW s \in Children(h), r # s,
         NEW keep, keep = Keep(r, s, Held), NEW other \in {r, s} \ {keep},
         NEW m \in Reach, Above(other, m)
  PROVE  keep \notin OneOfPair(h)
<1>1. /\ IInv /\ ShapeInv /\ StackInv /\ WorkInv /\ IsTree(tree) /\ Symmetric /\ ControlTypeOK
      /\ NoNode \notin tree.nodes /\ canon_leaf \in tree.nodes \cup {NoNode}
  BY KnownHere
<1>2. keep \in {r, s}
  BY DEF Keep
<1>3. r \in tree.nodes \ {Root} /\ s \in tree.nodes \ {Root} /\ Last(r) \in Nat /\ Last(s) \in Nat
  BY <1>1, ChildrenAreNodes
<1>4. CASE keep = CanonChild
  <2> SUFFICES ASSUME keep \in OneOfPair(h) PROVE FALSE
    OBVIOUS
  <2>1. keep # NoNode
    BY <1>1, <1>2, <1>3
  <2>2. c_path # <<>> /\ Last(c_path) = h /\ keep = c_path[Len(c_path) - 1]
    BY <1>4, <2>1 DEF CanonChild
  <2>3. PICK b : b = canon_leaf
    OBVIOUS
  <2>4. b # NoNode /\ \E n \in 1 .. Len(b) + 1 : c_path = UpPath(b, n)
    BY <1>1, <2>2, <2>3 DEF StackInv, CanonUp
  <2>5. b \in tree.nodes /\ Len(b) \in Nat /\ status[b] = "live"
    BY <1>1, <2>3, <2>4, PathLength DEF WorkInv
  <2>6. PICK n \in 1 .. Len(b) + 1 : c_path = UpPath(b, n)
    BY <2>4
  <2>7. n \in 0 .. Len(b) + 1 /\ n > 0 /\ n \in 1 .. n
    BY <2>5
  <2>8. /\ Len(c_path) = n /\ \A i \in 1 .. n : c_path[i] = Ancestor(b, Len(b) + 1 - i)
        /\ h = Ancestor(b, Len(b) + 1 - n)
    BY <1>1, <2>2, <2>5, <2>6, <2>7, UpPathFacts
  <2>9. n # 1
    <3> SUFFICES ASSUME n = 1 PROVE FALSE
      OBVIOUS
    <3>1. Len(b) + 1 - n = Len(b)
      BY <2>5
    <3>2. h = b
      BY <1>1, <2>5, <2>8, <3>1, AncestorsAbove
    <3>3. IsLeaf(b)
      <4>1. RecordInv
        BY KnownHere
      <4> QED
        BY <2>3, <2>4, <4>1 DEF RecordInv, CandidateOnRecord
    <3> QED
      BY <3>2, <3>3 DEF IsLeaf
  <2>10. n - 1 \in 1 .. n /\ Len(b) + 1 - (n - 1) \in 0 .. Len(b)
    BY <2>5, <2>9
  <2>11. keep = Ancestor(b, Len(b) + 1 - (n - 1))
    BY <2>2, <2>8, <2>10
  <2>12. keep \in tree.nodes /\ Above(keep, b)
    BY <1>1, <2>5, <2>10, <2>11, AncestorsAbove
  <2>13. status[keep] = "live"
    BY <1>1, <2>5, <2>12 DEF ShapeInv, Living
  <2> QED
    BY <1>1, <2>13 DEF ShapeInv, PairsCut
<1>5. CASE keep # CanonChild
  <2>1. CanonChild \notin {r, s}
    <3>1. r = CanonChild => keep = CanonChild
      BY DEF Keep
    <3>2. r # CanonChild /\ s = CanonChild => keep = CanonChild
      BY DEF Keep
    <3> QED
      BY <1>5, <3>1, <3>2
  <2>2. CASE Flagged(r, Held)
    <3>1. keep = s
      BY <2>1, <2>2 DEF Keep
    <3>2. other = r
      BY <3>1
    <3>3. status[r] # "pruned" /\ r \notin child_pruned
      BY <1>3, <3>2 DEF Reach, Uncut
    <3>4. status[r] = "live" /\ ~Exists(r, Held)
      BY <2>2, <3>3 DEF Flagged
    <3>5. \A v \in Engaged : v \in Held /\ v \in tree.nodes /\ v # NoNode
      BY <1>1, WorkFacts DEF Engaged, Held
    <3>6. \A v \in Engaged : ~Above(r, v)
      BY <3>4, <3>5 DEF Exists, ExistsAmong, Holders
    <3> QED
      BY <1>1, <1>3, <3>2, <3>4, <3>6, NothingLeft
  <2>3. CASE ~Flagged(r, Held)
    <3>1. keep = IF Last(s) < Last(r) THEN s ELSE r
      BY <2>1, <2>3 DEF Keep
    <3>2. CASE Last(s) < Last(r)
      <4>1. keep = s /\ Last(s) <= Last(r)
        BY <1>3, <3>1, <3>2
      <4> QED
        BY <1>1, <4>1, PairOther
    <3>3. CASE ~(Last(s) < Last(r))
      <4>1. keep = r /\ Last(r) <= Last(s)
        BY <1>3, <3>1, <3>3
      <4> QED
        BY <1>1, <4>1, PairOther
    <3> QED
      BY <3>2, <3>3
  <2> QED
    BY <2>2, <2>3
<1> QED
  BY <1>4, <1>5

(* Two sets of siblings become one, or nothing is pruned.                  *)
LEMMA MergeFacts ==
  ASSUME PInv, Merge(Held), NEW h, h = Highest
  PROVE  /\ h \in tree.nodes /\ status[h] \in {"live", "pruned"} /\ cur = NoNode /\ ~Idle
         /\ canon_leaf # NoNode /\ (NextUpdate \/ SameUpdate)
         /\ UNCHANGED <<tree, implicit, child_count, max_level, node_gen, generations, cur, canon_leaf>>
         /\ \/ UNCHANGED <<status, child_pruned, forest>>
            \/ \E keep \in Children(h), other \in Children(h) :
                 /\ keep # other /\ SameBelow(other, keep)
                 /\ forest[keep] = keep /\ forest[other] = other
                 /\ forest' = Absorbed(keep, other) /\ PruneSubtree(other, {other})
                 /\ status[h] = "live" =>
                      \A m \in Reach : Above(other, m) => keep \notin OneOfPair(h)
<1>1. /\ IInv /\ GensInv /\ PrunerInv /\ ShapeInv /\ Fresh /\ IsTree(tree) /\ Symmetric
      /\ StackOK /\ pruner = "basic"
  BY KnownHere
<1>2. ~Idle /\ canon_leaf # NoNode
  BY <1>1 DEF Merge, Fresh
<1>3. PICK m \in moves :
        /\ LET r == forest[m[2]]
               s == forest[m[3]]
           IN \/ r = s /\ UNCHANGED <<treeVars, forest, gens, nodeGens, chainVars>>
              \/ r # s /\ \E keep \in {Keep(r, s, Held)} :
                             \E other \in {r, s} \ {keep} : Absorb(keep, other)
        /\ moves' = moves \ {m}
        /\ IF moves' = {} THEN NextUpdate ELSE SameUpdate
  BY DEF Merge
<1>4. NextUpdate \/ SameUpdate
  BY <1>3
<1>5. /\ h \in tree.nodes /\ at # NoNode /\ at.node \in tree.nodes /\ Above(h, at.node)
      /\ status[at.node] \in {"live", "pruned"} /\ cur = NoNode
  <2>1. PICK t \in tree.nodes : \E n \in 1 .. Len(t) + 1 :
           /\ t = at.node /\ at # NoNode
           /\ h \in tree.nodes /\ h = Ancestor(t, Len(t) + 1 - n) /\ Len(t) \in Nat
    BY <1>1, <1>2, HighestFacts DEF PrunerInv
  <2>2. PICK n \in 1 .. Len(t) + 1 : h = Ancestor(t, Len(t) + 1 - n) /\ Len(t) \in Nat
    BY <2>1
  <2>3. Len(t) + 1 - n \in 0 .. Len(t)
    BY <2>2
  <2>4. Above(h, t)
    BY <1>1, <2>2, <2>3, AncestorsAbove
  <2> QED
    BY <1>1, <2>1, <2>4, AtFacts
<1>6. status[h] \in {"live", "pruned"}
  BY <1>1, <1>5 DEF ShapeInv, FinishedAbove
<1>7. UNCHANGED child_count
  BY DEF Merge
<1>8. CASE forest[m[2]] = forest[m[3]]
  <2>1. UNCHANGED <<treeVars, forest, chainVars>>
    BY <1>3, <1>8
  <2>2. UNCHANGED <<tree, implicit, max_level, node_gen, generations, cur, canon_leaf,
                    status, child_pruned, forest>>
    BY <2>1 DEF treeVars, coordVars, dataVars, leafVars, chainVars, setup
  <2> QED
    BY <1>2, <1>4, <1>5, <1>6, <1>7, <2>2
<1>9. CASE forest[m[2]] # forest[m[3]]
  <2>1. PICK r : r = forest[m[2]]
    OBVIOUS
  <2>2. PICK s : s = forest[m[3]]
    OBVIOUS
  <2>3. PICK keep : /\ keep = Keep(r, s, Held)
                    /\ \E other \in {r, s} \ {keep} : Absorb(keep, other)
    BY <1>3, <1>9, <2>1, <2>2
  <2>4. PICK other \in {r, s} \ {keep} : Absorb(keep, other)
    BY <2>3
  <2>5. m[2] \in tree.nodes \ {Root} /\ Parent(m[2]) = h /\ SameBelow(m[2], m[3])
    BY <1>1 DEF PrunerInv, MovesReal
  <2>6. m[3] \in tree.nodes \ {Root} /\ Parent(m[3]) = h
    BY <1>1, <2>5, SameBelowSiblings DEF Siblings
  <2>7. SameBelow(m[2], r) /\ SameBelow(m[3], s)
    BY <1>1, <2>1, <2>2, <2>5, <2>6 DEF PrunerInv
  <2>8. /\ r \in tree.nodes \ {Root} /\ Parent(r) = h
        /\ s \in tree.nodes \ {Root} /\ Parent(s) = h
    BY <1>1, <2>5, <2>6, <2>7, SameBelowSiblings DEF Siblings
  <2>9. r \in Children(h) /\ s \in Children(h)
    BY <1>1, <2>8, ChildAbove DEF IsTree, Children
  <2>10. SameBelow(r, s) /\ SameBelow(s, r)
    <3>1. SameBelow(r, m[2])
      BY <1>1, <2>5, <2>7, SameBelowBack
    <3>2. SameBelow(r, m[3])
      BY <1>1, <2>5, <2>8, <3>1, SameBelowOn
    <3>3. SameBelow(r, s)
      BY <1>1, <2>7, <2>8, <3>2, SameBelowOn
    <3> QED
      BY <1>1, <2>8, <3>3, SameBelowBack
  <2>11. forest[r] = r /\ forest[s] = s
    BY <1>1, <2>1, <2>2, <2>5, <2>6 DEF ShapeInv, SetsCut
  <2>12. keep \in {r, s}
    BY <2>3 DEF Keep
  <2>13. /\ keep \in Children(h) /\ other \in Children(h) /\ keep # other /\ SameBelow(other, keep)
         /\ forest[keep] = keep /\ forest[other] = other
    BY <2>4, <2>9, <2>10, <2>11, <2>12
  <2>14. /\ forest' = Absorbed(keep, other) /\ PruneSubtree(other, {other})
         /\ UNCHANGED <<canon_leaf, implicit>>
    BY <1>1, <2>4 DEF Absorb, Absorbed, PruneVisited, leafVars, chainVars, setup
  <2>15. UNCHANGED <<tree, max_level, node_gen, generations, cur>>
    BY <2>14 DEF PruneSubtree, coordVars, dataVars
  <2>16. ASSUME status[h] = "live", NEW l \in Reach, Above(other, l) PROVE keep \notin OneOfPair(h)
    <3>1. r # s
      BY <1>9, <2>1, <2>2
    <3> QED
      BY <1>2, <1>5, <2>3, <2>4, <2>9, <2>16, <3>1, KeepStands
  <2> QED
    BY <1>2, <1>4, <1>5, <1>6, <1>7, <2>13, <2>14, <2>15, <2>16
<1> QED
  BY <1>8, <1>9

(* What is below the set that goes on stands for what is cut.              *)
LEMMA MergeServes ==
  ASSUME PInv, canon_leaf # NoNode, NEW h \in tree.nodes, status[h] \in {"live", "pruned"},
         NEW keep \in Children(h), NEW other \in Children(h), keep # other,
         SameBelow(other, keep), forest[keep] = keep,
         NEW u \in tree.nodes, NEW m \in Reach, Above(other, m), Above(u, m), ~Above(other, u),
         status[h] = "live" => keep \notin OneOfPair(h)
  PROVE  \/ AsGood(canon_leaf, m)
         \/ \E m2 \in Reach : Above(keep, m2) /\ Above(u, m2) /\ AsGood(m2, m)
<1>1. /\ ShapeInv /\ Served /\ IsTree(tree) /\ Symmetric /\ Input
      /\ canon_leaf \in tree.nodes \cup {NoNode}
  BY KnownHere
<1>2. m \in LeavesOf(tree) /\ m \in tree.nodes /\ Uncut(m)
  BY DEF Reach, LeavesOf
<1>3. /\ keep \in tree.nodes \ {Root} /\ Parent(keep) = h /\ Above(h, keep)
      /\ other \in tree.nodes \ {Root} /\ Parent(other) = h /\ Above(h, other)
      /\ Len(other) = Len(h) + 1 /\ Len(h) \in Nat
      /\ \A a \in tree.nodes : Above(a, keep) /\ a # keep => Above(a, h)
  BY <1>1, ChildrenAreNodes, ChildAbove, PathLength
<1>4. Above(h, m)
  BY <1>1, <1>2, <1>3, AboveOn
<1>5. status[h] = "live"
  <2>1. CASE h = Root
    BY <1>1, <2>1 DEF ShapeInv, RootLives
  <2>2. CASE h # Root
    BY <1>2, <1>4, <2>2 DEF Uncut
  <2> QED
    BY <2>1, <2>2
<1>6. keep \in Scope
  <2>1. h \in Scope
    BY <1>1, <1>5, LiveInScope
  <2>2. InScope(keep)
    BY <1>3, <1>5, <2>1 DEF Scope, InScope
  <2> QED
    BY <1>3, <2>2 DEF Scope
<1>7. Above(u, h)
  <2>1. Len(u) \in Nat
    BY <1>1, PathLength
  <2>2. Len(u) <= Len(h) \/ Len(other) <= Len(u)
    BY <1>3, <2>1
  <2>3. ~(Len(other) <= Len(u))
    BY <1>1, <1>2, <1>3, AboveOn
  <2> QED
    BY <1>1, <1>2, <1>4, <2>2, <2>3, AboveOn
<1>8. PICK q \in tree.auts : Image(q, h) = h /\ Image(q, other) = keep
  BY <1>3 DEF SameBelow
<1>9. PICK k : k = Image(q, m)
  OBVIOUS
<1>10. /\ k \in LeavesOf(tree) /\ k \in tree.nodes /\ AsGood(k, m)
  BY <1>1, <1>2, <1>8, <1>9, ImageOfLeaf DEF LeavesOf
<1>11. Above(keep, k)
  BY <1>1, <1>2, <1>3, <1>8, <1>9, ImageAbove
<1>12. k \in Beaten \/ \E m2 \in Reach : Above(keep, m2) /\ AsGood(m2, k)
  BY <1>1, <1>6, <1>10, <1>11 DEF Served, ServedBy
<1>13. CASE k \in Beaten
  <2>1. AsGood(canon_leaf, k)
    BY <1>13 DEF Beaten, BeatenBy
  <2> QED
    BY <1>1, <1>2, <1>10, <2>1, AsGoodOn
<1>14. CASE \E m2 \in Reach : Above(keep, m2) /\ AsGood(m2, k)
  <2>1. PICK m2 \in Reach : Above(keep, m2) /\ AsGood(m2, k)
    BY <1>14
  <2>2. m2 \in tree.nodes
    BY DEF Reach, LeavesOf
  <2>3. AsGood(m2, m)
    BY <1>1, <1>2, <1>10, <2>1, <2>2, AsGoodOn
  <2>4. Above(u, m2)
    BY <1>1, <1>3, <1>7, <2>1, <2>2, AboveOn
  <2> QED
    BY <2>1, <2>3, <2>4
<1> QED
  BY <1>12, <1>13, <1>14

LEMMA AbsorbKeeps ==
  ASSUME PInv, UNCHANGED <<stack, at>>, NEW h \in tree.nodes, status[h] \in {"live", "pruned"},
         cur = NoNode, ~Idle, canon_leaf # NoNode, NextUpdate \/ SameUpdate,
         UNCHANGED <<tree, implicit, child_count, max_level, node_gen, generations, cur, canon_leaf>>,
         NEW keep \in Children(h), NEW other \in Children(h),
         keep # other, SameBelow(other, keep), forest[keep] = keep, forest[other] = other,
         forest' = Absorbed(keep, other), PruneSubtree(other, {other}),
         status[h] = "live" => \A m \in Reach : Above(other, m) => keep \notin OneOfPair(h)
  PROVE  Promised' /\ Dismisses
<1>1. /\ IInv /\ ShapeInv /\ StackInv /\ PrunerInv /\ Served /\ IsTree(tree)
      /\ ControlTypeOK /\ canon_leaf \in tree.nodes
  BY KnownHere
<1>2. /\ keep \in tree.nodes \ {Root} /\ other \in tree.nodes \ {Root} /\ Parent(other) = h
      /\ Len(keep) = Len(other) /\ Above(other, other)
      /\ \A a \in tree.nodes : Above(a, other) /\ a # other => Above(a, h)
  <2>1. keep \in tree.nodes \ {Root} /\ other \in tree.nodes \ {Root}
        /\ Parent(other) = h /\ Parent(keep) = h
    BY <1>1, ChildrenAreNodes
  <2> QED
    BY <1>1, <2>1, ChildAbove, AboveOn
<1>3. /\ status' = [s \in tree.nodes |->
                      IF Above(other, s) /\ status[s] = "live" THEN "pruned" ELSE status[s]]
      /\ child_pruned' = child_pruned \cup {other} \cup
           {c \in tree.nodes : Above(other, c) /\ c # other /\ status[Parent(c)] = "live"}
  BY DEF PruneSubtree
<1>4. /\ child_pruned \subseteq child_pruned'
      /\ \A s \in tree.nodes : \/ status'[s] = status[s]
                               \/ /\ s # Root /\ status[s] = "live" /\ status'[s] = "pruned"
  <2>1. ~Above(other, Root)
    BY <1>1, <1>2, AncestorsAbove, AboveOn
  <2> QED
    BY <1>3, <2>1
<1>5. /\ forest' \in [tree.nodes -> tree.nodes] /\ forest \in [tree.nodes -> tree.nodes]
      /\ \A c \in tree.nodes : forest'[c] = IF forest[c] = other THEN keep ELSE forest[c]
  BY <1>1, <1>2 DEF Absorbed, PrunerInv
<1>6. SetsCut'
  <2> SUFFICES ASSUME NEW c \in tree.nodes
               PROVE  forest'[forest'[c]] = forest'[c] /\ (forest'[c] # c => c \in child_pruned')
    BY DEF SetsCut
  <2>1. /\ forest[forest[c]] = forest[c] /\ (forest[c] # c => c \in child_pruned)
        /\ forest[c] \in tree.nodes
    BY <1>1, <1>5 DEF ShapeInv, SetsCut
  <2>2. CASE forest[c] = other
    <3>1. forest'[c] = keep /\ forest'[keep] = keep
      BY <1>2, <1>5, <2>2
    <3>2. c = other \/ c \in child_pruned
      BY <2>1, <2>2
    <3> QED
      BY <1>3, <3>1, <3>2
  <2>3. CASE forest[c] # other
    <3>1. forest'[c] = forest[c]
      BY <1>5, <2>3
    <3>2. forest'[forest[c]] = forest[c]
      BY <1>5, <2>1, <2>3
    <3> QED
      BY <1>4, <2>1, <3>1, <3>2
  <2> QED
    BY <2>2, <2>3
<1>7. ShapeInv'
  <2>1. {other} \in SUBSET {other} /\ status[Parent(other)] \in {"live", "pruned"}
    BY <1>2
  <2> QED
    BY <1>1, <1>2, <1>6, <2>1, KnownOfTree, ShapePruned
<1>8. Work' = Work /\ Working' = Working
  BY DEF Work, Working
<1>9. StackInv'
  <2>1. StillToDo'
    BY <1>1, <1>4, <1>8, StillToDoKept DEF StackInv
  <2>2. Engaged' \subseteq Engaged
    BY <1>8 DEF Engaged
  <2>3. OnePath' /\ StackCurrent' /\ ChildrenCounted'
    BY <1>1, <1>4, <1>8, <2>2, OnePathKept, StackCurrentKept, ChildrenCountedKept DEF StackInv
  <2>4. CanonUp'
    BY <1>1, CanonUpStep
  <2> QED
    BY <2>1, <2>3, <2>4 DEF StackInv
<1>10. Fresh'
  BY DEF Fresh
<1>11. ASSUME NEW u \in Scope' PROVE u \in Scope /\ ~Above(other, u)
  <2>1. u \in tree.nodes /\ \A a \in tree.nodes \ {Root} :
                              Above(a, u) => forest'[a] = a /\ a \notin OneOfPair(Parent(a))
    BY <1>11, SameTreeTerms DEF Scope, InScope, Parent
  <2>2. forest'[other] = keep
    BY <1>2, <1>5
  <2>3. \A a \in tree.nodes : forest'[a] = a => forest[a] = a
    BY <1>2, <1>5
  <2> QED
    BY <1>2, <2>1, <2>2, <2>3 DEF Scope, InScope
<1>12. /\ Reach' \subseteq Reach
       /\ \A m \in Reach : m \in Reach' \/ Above(other, m)
  <2>1. /\ Reach' \subseteq Reach
        /\ \A m \in Reach : m \in Reach' \/ (status'[m] = "live" /\ m \notin Working')
              \/ \E a \in tree.nodes \ {Root} : /\ Above(a, m)
                                                /\ status'[a] = "pruned" \/ a \in child_pruned'
    BY <1>1, <1>4, <1>8, ReachShrinks
  <2>2. ASSUME NEW m \in Reach, m \notin Reach', ~Above(other, m) PROVE FALSE
    <3>1. m \in tree.nodes /\ Uncut(m) /\ (status[m] = "live" => m \in Working)
      BY <2>2 DEF Reach, LeavesOf
    <3>2. ~(status'[m] = "live" /\ m \notin Working')
      BY <1>4, <1>8, <3>1
    <3>3. PICK a \in tree.nodes \ {Root} : Above(a, m) /\ (status'[a] = "pruned" \/ a \in child_pruned')
      BY <2>1, <2>2, <3>2
    <3>4. status[a] # "pruned" /\ a \notin child_pruned
      BY <3>1, <3>3 DEF Uncut
    <3>5. Above(other, a)
      BY <1>2, <1>3, <3>3, <3>4
    <3> QED
      BY <1>1, <1>2, <2>2, <3>1, <3>3, <3>5, AboveOn
  <2> QED
    BY <2>1, <2>2
<1>13. ASSUME NEW m \in Reach, Above(keep, m) PROVE m \in Reach'
  <2>1. ~Above(other, m)
    <3>1. m \in tree.nodes
      BY DEF Reach, LeavesOf
    <3> SUFFICES ASSUME Above(other, m) PROVE FALSE
      OBVIOUS
    <3>2. Len(other) \in Nat /\ Len(keep) <= Len(other)
      BY <1>1, <1>2, PathLength
    <3>3. Above(keep, other)
      BY <1>1, <1>2, <1>13, <3>1, <3>2, AboveOn
    <3> QED
      BY <1>1, <1>2, <3>3, AboveOn
  <2> QED
    BY <1>12, <2>1
<1>14. Served'
  <2>1. PICK S : S = Scope'
    OBVIOUS
  <2>2. PICK R : R = Reach'
    OBVIOUS
  <2>3. PICK n : n = Newest'
    OBVIOUS
  <2>4. S \subseteq Scope /\ \A u \in S : ~Above(other, u) /\ u \in tree.nodes
    BY <1>11, <2>1 DEF Scope
  <2>5. Beaten \subseteq BeatenBy(canon_leaf', n)
    BY DEF Beaten, BeatenBy
  <2>6. ASSUME NEW m \in Reach \ R, NEW u \in S, Above(u, m)
        PROVE  m \in BeatenBy(canon_leaf', n) \/ \E m2 \in R : Above(u, m2) /\ AsGood(m2, m)
    <3>1. Above(other, m) /\ m \in LeavesOf(tree)
      BY <1>12, <2>2, <2>6 DEF Reach
    <3>2. \/ AsGood(canon_leaf, m)
          \/ \E m2 \in Reach : Above(keep, m2) /\ Above(u, m2) /\ AsGood(m2, m)
      BY <2>4, <2>6, <3>1, MergeServes
    <3>3. CASE AsGood(canon_leaf, m)
      BY <3>1, <3>3 DEF BeatenBy
    <3>4. CASE \E m2 \in Reach : Above(keep, m2) /\ Above(u, m2) /\ AsGood(m2, m)
      BY <1>13, <2>2, <3>4
    <3> QED
      BY <3>2, <3>3, <3>4
  <2>7. canon_leaf' \in tree.nodes \cup {NoNode}
    BY <1>1
  <2> QED
    BY <1>1, <2>1, <2>2, <2>3, <2>4, <2>5, <2>6, <2>7, ServedKept
<1> QED
  BY <1>7, <1>9, <1>10, <1>12, <1>14 DEF Promised, Dismisses

LEMMA MergeKeeps ==
  ASSUME PInv, Merge(Held), UNCHANGED <<stack, at>>
  PROVE  Promised' /\ Dismisses
<1>1. PICK h : h = Highest
  OBVIOUS
<1>2. /\ h \in tree.nodes /\ status[h] \in {"live", "pruned"} /\ cur = NoNode /\ ~Idle
      /\ canon_leaf # NoNode /\ (NextUpdate \/ SameUpdate)
      /\ UNCHANGED <<tree, implicit, child_count, max_level, node_gen, generations, cur, canon_leaf>>
      /\ \/ UNCHANGED <<status, child_pruned, forest>>
         \/ \E keep \in Children(h), other \in Children(h) :
              /\ keep # other /\ SameBelow(other, keep)
              /\ forest[keep] = keep /\ forest[other] = other
              /\ forest' = Absorbed(keep, other) /\ PruneSubtree(other, {other})
              /\ status[h] = "live" =>
                   \A m \in Reach : Above(other, m) => keep \notin OneOfPair(h)
  BY <1>1, MergeFacts
<1>3. CASE UNCHANGED <<status, child_pruned, forest>>
  <2>1. CanonUp'
    <3>1. IInv /\ StackInv
      BY KnownHere
    <3> QED
      BY <1>2, <3>1, CanonUpStep
  <2>2. Promised' /\ Reach' = Reach
    BY <1>2, <1>3, <2>1, StayKeeps
  <2> QED
    BY <1>2, <2>2 DEF Dismisses
<1>4. CASE \E keep \in Children(h), other \in Children(h) :
              /\ keep # other /\ SameBelow(other, keep)
              /\ forest[keep] = keep /\ forest[other] = other
              /\ forest' = Absorbed(keep, other) /\ PruneSubtree(other, {other})
              /\ status[h] = "live" =>
                   \A m \in Reach : Above(other, m) => keep \notin OneOfPair(h)
  BY <1>2, <1>4, AbsorbKeeps
<1> QED
  BY <1>2, <1>3, <1>4

-----------------------------------------------------------------------------
(* The promise is kept from the start, and by every step.                  *)

LEMMA InitPromised == Init /\ pruner = "basic" => PInv
<1> SUFFICES ASSUME Init, pruner = "basic" PROVE Promised
  BY InitAll DEF PInv
<1>1. /\ AllInv /\ IInv /\ IsTree(tree) /\ NoNode \notin tree.nodes /\ Root \in tree.nodes
  BY InitAll, KnownOfTree DEF AllInv, RInv, IInv, Input, IsTree
<1>2. /\ status = [t \in tree.nodes |-> IF t = Root THEN "constructing" ELSE "absent"]
      /\ child_pruned = {} /\ canon_leaf = NoNode /\ cur = Root /\ max_level = 0
      /\ child_count = [t \in tree.nodes |-> 0] /\ forest = [t \in tree.nodes |-> t]
      /\ t_path = <<>> /\ c_path = <<>> /\ stack = <<>> /\ at = NoNode
  BY DEF Init, TreeInit, PrunerInit
<1>3. Root # NoNode
  BY <1>1
<1>4. ASSUME NEW a \in tree.nodes, Above(a, Root) PROVE a = Root
  BY <1>1, <1>4, AncestorsAbove, AboveOn
<1>5. ShapeInv
  <2>1. Living /\ FinishedAbove
    BY <1>2, <1>4 DEF Living, FinishedAbove
  <2>2. RootLives
    BY <1>1, <1>2 DEF RootLives
  <2>3. PairsCut
    <3> SUFFICES ASSUME NEW t \in tree.nodes, NEW c \in OneOfPair(t)
                 PROVE  status[c] = "absent" /\ (status[t] = "live" => c \in child_pruned)
      BY DEF PairsCut
    <3>1. c \in tree.nodes \ {Root}
      BY <1>1, PairsAreChildren
    <3> QED
      BY <1>2, <3>1
  <2>4. SetsCut
    BY <1>2 DEF SetsCut
  <2> QED
    BY <1>2, <2>1, <2>2, <2>3, <2>4 DEF ShapeInv
<1>6. Working = {} /\ Work = {}
  BY <1>2 DEF Working, Work
<1>7. StackInv
  <2>1. StillToDo
    BY <1>2 DEF StillToDo
  <2>2. StackCurrent
    BY <1>6 DEF StackCurrent
  <2>3. OnePath
    <3>1. Engaged = {Root}
      BY <1>2, <1>3, <1>6 DEF Engaged
    <3>2. Above(Root, Root)
      BY <1>1, AboveOn
    <3> QED
      BY <3>1, <3>2 DEF OnePath
  <2>4. CanonUp
    BY <1>2 DEF CanonUp
  <2>5. ChildrenCounted
    BY <1>2 DEF ChildrenCounted
  <2> QED
    BY <2>1, <2>2, <2>3, <2>4, <2>5 DEF StackInv
<1>8. Fresh
  BY <1>2, <1>3 DEF Fresh, Idle, IsExtending
<1>9. Reach = LeavesOf(tree)
  <2>1. \A l \in LeavesOf(tree) : l \in tree.nodes
    BY DEF LeavesOf
  <2>2. \A l \in tree.nodes : Uncut(l) /\ status[l] # "live"
    BY <1>2 DEF Uncut
  <2> QED
    BY <2>1, <2>2 DEF Reach
<1>10. Served
  <2> SUFFICES ASSUME NEW u \in Scope, NEW l \in LeavesOf(tree), Above(u, l)
               PROVE  \E m \in Reach : Above(u, m) /\ AsGood(m, l)
    BY DEF Served, ServedBy
  <2>1. AsGood(l, l)
    BY <1>1, AsGoodSelf DEF LeavesOf
  <2> QED
    BY <1>9, <2>1
<1> QED
  BY <1>5, <1>7, <1>8, <1>10 DEF Promised

(* What each step does to the leaves that are open.                        *)
Reports == \E t \in Reach :
  /\ Reach' \subseteq Reach \ {t}
  /\ canon_leaf' = IF canon_leaf = NoNode \/ ~LeafAtLeast(tree, canon_leaf, t)
                   THEN t ELSE canon_leaf

LEMMA NextPromised ==
  ASSUME PInv, GenerationFits, [Next]_vars
  PROVE  Promised' /\ (Reports \/ Dismisses)
<1>1. CASE Refine
  BY <1>1, RefineKeeps
<1>2. CASE Tell
  BY <1>2, TellKeeps
<1>3. CASE Push
  BY <1>3, PushKeeps
<1>4. CASE Pop
  BY <1>4, PopKeeps
<1>5. CASE Prune
  BY <1>5, UpdateKeeps, MergeKeeps DEF Prune
<1>6. CASE Skip \/ Leave(Held)
  BY <1>6, DropKeeps
<1>7. CASE Descend(Held)
  BY <1>7, DescendKeeps
<1>8. CASE Report(Held)
  <2>1. PICK t : t = at.node
    OBVIOUS
  <2>2. /\ Promised' /\ t \in Reach /\ Reach' \subseteq Reach \ {t}
        /\ canon_leaf' = IF canon_leaf = NoNode \/ ~LeafAtLeast(tree, canon_leaf, t)
                         THEN t ELSE canon_leaf
    BY <1>8, <2>1, ReportKeeps
  <2> QED
    BY <2>2 DEF Reports
<1>9. CASE Stop \/ UNCHANGED vars
  <2>1. UNCHANGED vars
    BY <1>9 DEF Stop
  <2>2. UNCHANGED <<tree, implicit, status, child_pruned, child_count, stack, at, cur, forest,
                    max_level, node_gen, generations, canon_leaf, t_path, c_path>>
    BY <2>1 DEF vars, treeVars, prunerVars, chainVars, setup, coordVars, dataVars, leafVars
  <2>3. CanonUp'
    BY <2>2, KnownHere DEF StackInv, CanonUp, Idle, UpPath, Ancestor
  <2>4. canon_leaf = NoNode => Idle'
    BY <2>2, KnownHere DEF Fresh, Idle
  <2>5. Promised' /\ Reach' = Reach
    BY <2>2, <2>3, <2>4, StayKeeps
  <2> QED
    BY <2>2, <2>5 DEF Dismisses
<1> QED
  BY <1>1, <1>2, <1>3, <1>4, <1>5, <1>6, <1>7, <1>8, <1>9 DEF Next

LEMMA NextPInv == PInv /\ GenerationFits /\ [Next]_vars => PInv' /\ (Reports \/ Dismisses)
<1> SUFFICES ASSUME PInv, GenerationFits, [Next]_vars PROVE PInv' /\ (Reports \/ Dismisses)
  OBVIOUS
<1>1. AllInv'
  BY NextAll DEF PInv
<1>2. Promised' /\ (Reports \/ Dismisses)
  BY NextPromised
<1> QED
  BY <1>1, <1>2 DEF PInv

LEMMA AlwaysPromised == Spec /\ []GenerationFits /\ pruner = "basic" => []PInv
BY InitPromised, NextPInv, PTL DEF Spec

(* What is open and covered, as BestLeaf sees it.                          *)
OpenAndCovered ==
  /\ Reach = OpenLeaves
  /\ canon_leaf \in LeavesOf(tree) \cup {NoNode}
  /\ NoNode \notin LeavesOf(tree)
  /\ \A l \in LeavesOf(tree) : \E m \in Promise!Remaining : LeafAtLeast(tree, m, l)

LEMMA NowCovered == PInv => OpenAndCovered
<1> SUFFICES ASSUME PInv PROVE OpenAndCovered
  OBVIOUS
<1>1. /\ IInv /\ ShapeInv /\ StackInv /\ RecordInv /\ NoNode \notin tree.nodes
      /\ canon_leaf \in tree.nodes \cup {NoNode}
  BY KnownHere
<1>2. Reach = OpenLeaves
  BY <1>1, ReachIsOpen
<1>3. canon_leaf \in LeavesOf(tree) \cup {NoNode} /\ NoNode \notin LeavesOf(tree)
  <2>1. canon_leaf # NoNode => IsLeaf(canon_leaf)
    BY <1>1 DEF RecordInv, CandidateOnRecord
  <2> QED
    BY <1>1, <2>1 DEF LeavesOf, IsLeaf, Children
<1>4. \A l \in LeavesOf(tree) : \E m \in Promise!Remaining : LeafAtLeast(tree, m, l)
  BY LeavesCovered DEF Promise!Remaining
<1> QED
  BY <1>2, <1>3, <1>4 DEF OpenAndCovered

LEMMA KeepsByStep ==
  ASSUME OpenAndCovered, OpenAndCovered', tree' = tree, Reports \/ Dismisses
  PROVE  [Promise!Next]_(Promise!vars)
<1>1. PICK L : L = LeavesOf(tree)
  OBVIOUS
<1>2. /\ Reach = OpenLeaves /\ canon_leaf \in L \cup {NoNode} /\ Reach \subseteq L
      /\ Reach' = OpenLeaves'
      /\ \A l \in L : \E m \in Promise!Remaining' : LeafAtLeast(tree, m, l)
  <2>1. Reach \subseteq LeavesOf(tree)
    BY DEF Reach
  <2>2. \A l \in LeavesOf(tree') : \E m \in Promise!Remaining' : LeafAtLeast(tree', m, l)
    BY DEF OpenAndCovered, LeavesOf, LeafAtLeast
  <2> QED
    BY <1>1, <2>1, <2>2 DEF OpenAndCovered
<1>3. \A D \in SUBSET L : Promise!GivenUp(D)
  BY <1>2 DEF Promise!GivenUp
<1>4. CASE Reports
  <2>1. PICK t \in Reach :
          /\ Reach' \subseteq Reach \ {t}
          /\ canon_leaf' = IF canon_leaf = NoNode \/ ~LeafAtLeast(tree, canon_leaf, t)
                           THEN t ELSE canon_leaf
    BY <1>4 DEF Reports
  <2>2. t \in OpenLeaves /\ OpenLeaves' \in SUBSET (OpenLeaves \ {t})
        /\ OpenLeaves \ {t} \in SUBSET L
    BY <1>2, <2>1
  <2>3. Promise!GivenUp(OpenLeaves \ {t})
    BY <1>3, <2>2
  <2>4. Promise!Report(t)
    BY <2>1, <2>2, <2>3 DEF Promise!Report
  <2> QED
    BY <2>2, <2>4 DEF Promise!Next
<1>5. CASE Dismisses
  <2>1. OpenLeaves' \in SUBSET OpenLeaves /\ canon_leaf' \in {canon_leaf, NoNode}
    BY <1>2, <1>5 DEF Dismisses
  <2>2. Promise!Remaining \in SUBSET L
    BY <1>2 DEF Promise!Remaining
  <2>3. Promise!GivenUp(Promise!Remaining)
    BY <1>3, <2>2
  <2>4. Promise!Dismiss
    BY <2>1, <2>3 DEF Promise!Dismiss
  <2> QED
    BY <2>4 DEF Promise!Next
<1> QED
  BY <1>4, <1>5

-----------------------------------------------------------------------------

(* When traversal_dfs with aut_pruner_basic returns, the candidate is a    *)
(* best leaf of the whole tree, whatever was pruned by traces, by          *)
(* automorphisms found at leaves or told by the partition, and by merging  *)
(* children: canonicalizer::operator() returns a canonical permutation.    *)
THEOREM CanonicalLeafAlwaysFound ==
  Spec /\ [](generation < SizeTypeSize) /\ pruner = "basic" => []CanonicalLeafFound
BY FoundAtTheEnd, AlwaysPromised, PTL DEF GenerationFits

(* Every step of it implements one of BestLeaf: an open leaf is reported,  *)
(* and becomes the candidate if it is better, or leaves are given up, each *)
(* for one that remains and is at least as good.                           *)
THEOREM PromiseAlwaysKept ==
  Spec /\ [](generation < SizeTypeSize) /\ pruner = "basic" => KeepsPromise
<1>1. Init /\ PInv => Promise!Init
  <2> SUFFICES ASSUME Init, PInv PROVE Promise!Init
    OBVIOUS
  <2>1. OpenLeaves = LeavesOf(tree)
    <3>1. Reach = OpenLeaves
      BY NowCovered DEF OpenAndCovered
    <3>2. \A l \in tree.nodes : Uncut(l) /\ status[l] # "live"
      BY DEF Init, TreeInit, Uncut
    <3> QED
      BY <3>1, <3>2 DEF Reach, LeavesOf
  <2> QED
    BY <2>1 DEF Init, TreeInit, Promise!Init
<1>2. PInv /\ PInv' /\ OpenAndCovered /\ OpenAndCovered' /\ GenerationFits /\ [Next]_vars
        => [Promise!Next]_(Promise!vars)
  <2> SUFFICES ASSUME PInv, OpenAndCovered, OpenAndCovered', GenerationFits, [Next]_vars
               PROVE  [Promise!Next]_(Promise!vars)
    OBVIOUS
  <2>1. tree' = tree
    <3>1. Input
      BY KnownHere
    <3> QED
      BY <3>1, InputStep
  <2>2. Reports \/ Dismisses
    BY NextPInv
  <2> QED
    BY <2>1, <2>2, KeepsByStep
<1> QED
  BY <1>1, <1>2, NowCovered, InitPromised, AlwaysPromised, PTL DEF GenerationFits, Spec, KeepsPromise, Promise!Spec

-----------------------------------------------------------------------------
(* The types of what the pruner keeps.                                     *)

TypedInv == PInv /\ ChainsTyped /\ WalkTyped

LEMMA StepOfWalk ==
  ASSUME PInv, [Next]_vars
  PROVE  ChainsStep /\ WalkStep
<1>0. pruner = "basic"
  BY KnownHere
<1>1. CASE Refine \/ Tell \/ Push
  BY <1>0, <1>1, ConstructionTyped DEF Refine, Tell, Push
<1>2. CASE Pop
  <2>1. PICK e : e = stack[Len(stack)]
    OBVIOUS
  <2>2. e.node \in tree.nodes /\ BeforeDescend(e.node)
    BY <1>2, <2>1, PopFacts
  <2> QED
    BY <1>0, <2>2, DescentTyped
<1>3. CASE Prune
  BY <1>0, <1>3, UpdateTyped DEF Prune
<1>4. CASE Descend(Held)
  BY <1>4, BeginTyped DEF Descend
<1>5. CASE Report(Held)
  BY <1>0, <1>5, ReportTyped DEF Report
<1>6. CASE Skip \/ Leave(Held) \/ Stop \/ UNCHANGED vars
  <2>1. UNCHANGED <<prunerVars, chainVars>>
    BY <1>6 DEF Skip, Leave, Stop, vars
  <2> QED
    BY <2>1, NothingTyped
<1> QED
  BY <1>1, <1>2, <1>3, <1>4, <1>5, <1>6 DEF Next

LEMMA NextTyped ==
  ASSUME TypedInv, [Next]_vars
  PROVE  ChainsTyped' /\ WalkTyped'
<1>1. GensInv /\ IInv /\ PrunerInv /\ canon_leaf \in tree.nodes \cup {NoNode} /\ Input
  BY KnownHere DEF TypedInv
<1>2. ChainsTyped /\ WalkTyped /\ ChainsStep /\ WalkStep
  BY StepOfWalk DEF TypedInv
<1>3. tree' = tree
  BY <1>1, InputStep
<1>4. PICK u : u = at.node
  OBVIOUS
<1>5. PrunerAt(u)
  BY <1>1, <1>4, PrunerOfVisited
<1> QED
  BY <1>1, <1>2, <1>3, <1>5, TypedStep

LEMMA InitTyped == Init /\ pruner = "basic" => TypedInv
<1> SUFFICES ASSUME Init, pruner = "basic" PROVE TypedInv
  OBVIOUS
<1>1. PInv
  BY InitPromised
<1>2. ChainsTyped /\ WalkTyped
  BY StartsTyped DEF Init
<1> QED
  BY <1>1, <1>2 DEF TypedInv

LEMMA NextTypedInv == TypedInv /\ GenerationFits /\ [Next]_vars => TypedInv'
<1> SUFFICES ASSUME TypedInv, GenerationFits, [Next]_vars PROVE TypedInv'
  OBVIOUS
<1>1. PInv'
  BY NextPInv DEF TypedInv
<1> QED
  BY <1>1, NextTyped DEF TypedInv

(* Type correctness of the whole search, with all that coordinator,        *)
(* providers, pruner and the work stack of traversal_dfs keep.             *)
THEOREM AlwaysTyped ==
  Spec /\ [](generation < SizeTypeSize) /\ pruner = "basic" => []DfsTypeOK
<1>1. TypedInv => DfsTypeOK
  <2> SUFFICES ASSUME TypedInv PROVE DfsTypeOK
    OBVIOUS
  <2>1. /\ ControlTypeOK /\ RecordInv /\ GensInv /\ PrunerInv /\ ShapeInv /\ StackInv /\ StackOK
    BY KnownHere DEF TypedInv
  <2>2. TypeOK
    BY <2>1 DEF TypeOK, RecordInv, ValuesTyped, AllValues, ShapeInv
  <2>3. PrunerTypeOK
    BY <2>1 DEF TypedInv, ChainsTyped, WalkTyped, PathsTyped, MovesTyped, ToldTyped, GensInv, GensTyped, PrunerInv, StackInv,
       ChildrenCounted, PrunerTypeOK
  <2> QED
    BY <2>1, <2>2, <2>3 DEF DfsTypeOK
<1> QED
  BY <1>1, InitTyped, NextTypedInv, PTL DEF GenerationFits, Spec
=============================================================================
