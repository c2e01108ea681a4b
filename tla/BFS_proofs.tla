----------------------------- MODULE BFS_proofs -----------------------------
(***************************************************************************)
(* traversal_bfs_exp_m, for every search tree, every set of providers and  *)
(* every number of nodes that fit in the memory.  First what holds with    *)
(* either pruner: nodes wait in lists while others change the record, yet  *)
(* what is recorded is what the nodes that still count have emitted, and   *)
(* the node an experimental path goes on from has not been pruned.         *)
(* Then what aut_pruner_basic does: generators and sets, nodes that keep   *)
(* themselves alive, the limit on nodes, types and the candidate.          *)
(***************************************************************************)
EXTENDS BFS, Traversal_proofs

-----------------------------------------------------------------------------
(* Lists.                                                                  *)

LEMMA RangeIn ==
  ASSUME NEW S, NEW s \in Seq(S)
  PROVE  Range(s) \subseteq S
<1>1. \A i \in DOMAIN s : s[i] \in S
  BY ElementOf
<1> QED
  BY <1>1 DEF Range

LEMMA RangeAppended ==
  ASSUME NEW S, NEW s \in Seq(S), NEW x \in S
  PROVE  Append(s, x) \in Seq(S) /\ Range(Append(s, x)) = Range(s) \cup {x}
<1>1. /\ Append(s, x) \in Seq(S) /\ DOMAIN s = 1 .. Len(s)
      /\ DOMAIN Append(s, x) = 1 .. Len(s) + 1 /\ Len(s) \in Nat
      /\ \A i \in 1 .. Len(s) : Append(s, x)[i] = s[i]
      /\ Append(s, x)[Len(s) + 1] = x
  OBVIOUS
<1>2. 1 .. Len(s) + 1 = (1 .. Len(s)) \cup {Len(s) + 1}
  BY <1>1
<1> QED
  BY <1>1, <1>2 DEF Range

LEMMA RangeOfTail ==
  ASSUME NEW S, NEW s \in Seq(S), s # <<>>
  PROVE  /\ Tail(s) \in Seq(S) /\ Range(Tail(s)) \subseteq Range(s)
         /\ Head(s) \in S /\ Head(s) \in Range(s) /\ Head(s) = s[1]
         /\ Range(s) \subseteq Range(Tail(s)) \cup {Head(s)}
<1>1. /\ Tail(s) \in Seq(S) /\ DOMAIN s = 1 .. Len(s) /\ Len(s) \in Nat /\ Len(s) >= 1
      /\ DOMAIN Tail(s) = 1 .. Len(s) - 1
      /\ \A i \in 1 .. Len(s) - 1 : Tail(s)[i] = s[i + 1]
      /\ Head(s) = s[1] /\ s[1] \in S
  OBVIOUS
<1>2. \A i \in 1 .. Len(s) - 1 : i + 1 \in 1 .. Len(s)
  BY <1>1
<1>3. 1 \in 1 .. Len(s) /\ \A i \in 1 .. Len(s) : i = 1 \/ (i - 1 \in 1 .. Len(s) - 1 /\ (i - 1) + 1 = i)
  BY <1>1
<1>4. Range(Tail(s)) \subseteq Range(s)
  BY <1>1, <1>2 DEF Range
<1>5. Head(s) \in Range(s)
  BY <1>1, <1>3 DEF Range
<1>6. ASSUME NEW x \in Range(s) PROVE x \in Range(Tail(s)) \cup {Head(s)}
  <2>1. PICK i \in 1 .. Len(s) : x = s[i]
    BY <1>1, <1>6 DEF Range
  <2>2. CASE i = 1
    BY <1>1, <2>1, <2>2
  <2>3. CASE i # 1
    <3>1. i - 1 \in 1 .. Len(s) - 1 /\ (i - 1) + 1 = i
      BY <1>3, <2>3
    <3>2. Tail(s)[i - 1] = x
      BY <1>1, <2>1, <3>1
    <3> QED
      BY <1>1, <3>1, <3>2 DEF Range
  <2> QED
    BY <2>2, <2>3
<1> QED
  BY <1>1, <1>4, <1>5, <1>6

LEMMA OneElement ==
  ASSUME NEW S, NEW r \in S
  PROVE  <<r>> \in Seq(S) /\ Len(<<r>>) = 1 /\ <<r>>[1] = r
OBVIOUS

(* The first of several children.                                          *)
LEMMA FirstIsOne ==
  ASSUME IsTree(tree), NEW t \in tree.nodes, NEW C \in SUBSET Children(t), C # {}
  PROVE  First(C) \in C /\ \A d \in C : Last(First(C)) <= Last(d)
<1>1. PICK S : S = {Last(c) : c \in C}
  OBVIOUS
<1>2. S \in SUBSET Nat /\ S # {}
  BY <1>1, ChildrenAreNodes
<1>3. PICK m \in S : \A k \in S : m <= k
  BY <1>2, LeastNatural
<1>4. PICK c \in C : Last(c) = m
  BY <1>1, <1>3
<1>5. \A d \in C : Last(c) <= Last(d)
  BY <1>1, <1>3, <1>4
<1> QED
  BY <1>4, <1>5 DEF First

-----------------------------------------------------------------------------
(* What the traversal points to, and when.                                 *)

(* A node that is in a list, or in hand, has been created.                 *)
Pointed ==
  Range(level_list) \cup Range(next_list)
    \cup ({head, old_head, node, child, path} \ {NoNode}) \cup kept \cup dfs_roots
    \cup Working
Appeared == \A t \in Pointed : status[t] # "absent"

Placed ==
  /\ StackOK
  /\ pc \in {"visit", "extend", "load", "enter", "loop", "choose", "dfs"}
  /\ level_list \in Seq(tree.nodes)
  /\ next_list \in Seq(tree.nodes)
  /\ {head, old_head, node, child, path} \subseteq tree.nodes \cup {NoNode}
  /\ next_child \in Nat
  /\ kept \subseteq tree.nodes
  /\ dfs_roots \subseteq tree.nodes

(* Which pointers there are at each place of the code.                     *)
InHand ==
  /\ cur # NoNode => at = NoNode /\ Idle /\ pc \in {"load", "extend", "loop", "dfs"}
  /\ cur # NoNode /\ pc = "extend" => cur # Root /\ Parent(cur) = path
  /\ pc \in {"enter", "loop", "choose"} => node # NoNode
  /\ pc \in {"load", "enter", "loop", "choose"} => path = NoNode
  /\ pc \in {"visit", "extend", "dfs"} => path # NoNode
  /\ path # NoNode /\ node # NoNode => child # NoNode
  /\ pc # "dfs" => stack = <<>> /\ at = NoNode

(* The nodes that are about to get a child are not outdated; nothing is    *)
(* updated while a path goes on, because its last node has no children yet.*)
Current ==
  /\ at # NoNode => ~Outdated(at.node)
  /\ pc \in {"visit", "extend"} => UpToDate(path) /\ Idle
  /\ pc = "choose" => ~Outdated(node) /\ ToDo # {}

ChildrenCounted ==
  /\ child_count \in [tree.nodes -> {0, 1}]
  /\ \A t \in tree.nodes : status[t] = "absent" => child_count[t] = 0
  /\ pc # "dfs" /\ cur # NoNode => child_count[cur] = 0
  /\ pc = "visit" => child_count[path] = 0

LoopInv == Placed /\ Appeared /\ InHand /\ Current /\ ChildrenCounted
BInv == TreeInv /\ RecordInv /\ LoopInv

(* Nothing that has appeared disappears, for the tree.                     *)
StatusKept ==
  tree' = tree /\ \A t \in tree.nodes : status[t] # "absent" => status'[t] # "absent"

LEMMA WorkingNodes ==
  ASSUME StackOK
  PROVE  /\ Working \subseteq tree.nodes
         /\ \A i \in 1 .. Len(stack) : stack[i].node \in Working
         /\ at # NoNode => at \in Elems /\ at.node \in Working
<1>1. ASSUME NEW i \in 1 .. Len(stack) PROVE stack[i].node \in tree.nodes
  <2>1. stack[i] \in Elems
    BY ElementOf DEF StackOK
  <2> QED
    BY <2>1 DEF Elems
<1>2. at # NoNode => at \in Elems /\ at.node \in tree.nodes
  BY DEF StackOK, Elems
<1> QED
  BY <1>1, <1>2 DEF Working

LEMMA PointedNodes ==
  ASSUME Placed
  PROVE  Pointed \subseteq tree.nodes
<1>1. Working \subseteq tree.nodes
  BY WorkingNodes DEF Placed
<1>2. Range(level_list) \subseteq tree.nodes /\ Range(next_list) \subseteq tree.nodes
  BY RangeIn DEF Placed
<1> QED
  BY <1>1, <1>2 DEF Placed, Pointed

LEMMA AppearedKept ==
  ASSUME Placed, Appeared, StatusKept, NEW N, \A t \in N : status'[t] # "absent",
         Pointed' \subseteq Pointed \cup N
  PROVE  Appeared'
BY PointedNodes DEF Appeared, StatusKept

(* Steps that leave the pointers alone.                                    *)
LEMMA PointersKept ==
  ASSUME Placed, Appeared, StatusKept, UNCHANGED <<loopVars, dfs_roots, workVars>>, kept' \subseteq kept
  PROVE  Placed' /\ Appeared'
<1>1. /\ UNCHANGED <<pc, head, level_list, next_list, old_head, node, next_child, child, path>>
      /\ UNCHANGED <<dfs_roots, stack, at, tree>>
  BY DEF loopVars, workVars, StatusKept
<1>2. Placed'
  BY <1>1 DEF Placed, StackOK, Elems
<1>3. PICK N : N = {}
  OBVIOUS
<1>4. Pointed' \subseteq Pointed \cup N
  BY <1>1 DEF Pointed, Working
<1>5. \A t \in N : status'[t] # "absent"
  BY <1>3
<1> QED
  BY <1>2, <1>4, <1>5, AppearedKept

LEMMA KeepsAlive ==
  ASSUME NEW K, KeepAlive(K)
  PROVE  kept' \subseteq K
BY DEF KeepAlive

(* The pruner only prunes.                                                 *)
LEMMA OnlyPrunesKeeps ==
  ASSUME TreeInv, OnlyPrunes
  PROVE  /\ TreeInv' /\ StatusKept /\ cur = NoNode /\ cur' = NoNode
         /\ \A t \in tree.nodes :
              /\ status'[t] = "absent" => status[t] = "absent"
              /\ status'[t] = "live" => status[t] = "live"
              /\ status[t] # "live" => status'[t] = status[t]
              /\ ~Outdated(t) => ~Outdated(t)'
<1>1. /\ TreeInv' /\ tree' = tree /\ cur' = NoNode
      /\ \A t \in tree.nodes :
           /\ status'[t] = "live" => status[t] = "live"
           /\ status[t] # "live" => status'[t] = status[t]
           /\ status[t] \in {"live", "pruned"} <=> status'[t] \in {"live", "pruned"}
           /\ ~Outdated(t) => ~Outdated(t)'
  BY OnlyPrunesStep
<1>2. cur = NoNode
  BY DEF OnlyPrunes
<1>3. ASSUME NEW t \in tree.nodes
      PROVE  status'[t] = "absent" <=> status[t] = "absent"
  BY <1>1
<1> QED
  BY <1>1, <1>2, <1>3 DEF StatusKept

(* Nodes that are finished.                                                *)
LEMMA FinishedNode ==
  ASSUME TreeInv, cur = NoNode, NEW t \in tree.nodes, status[t] # "absent"
  PROVE  /\ status[t] \in {"live", "pruned"}
         /\ status[t] # "pruned" => status[t] = "live"
         /\ ~Outdated(t) /\ status[t] # "pruned" => UpToDate(t)
<1>1. status[t] # "constructing"
  BY DEF TreeInv, Input
<1>2. status[t] \in {"absent", "constructing", "live", "pruned"}
  BY DEF TreeInv, ControlTypeOK
<1> QED
  BY <1>1, <1>2 DEF UpToDate

(* A node that is finished and not pruned has the generation of its level. *)
LEMMA FinishedUpToDate ==
  ASSUME TreeInv, CreateLive, GenerationFits, NEW t, t = cur
  PROVE  UpToDate(t)'
<1>1. /\ t \in tree.nodes /\ Level(t) \in Levels /\ max_level \in Levels
      /\ t # Root /\ IsExtending(t) => Level(t) = max_level + 1 /\ node_gen[t] = generation
      /\ ~IsExtending(t) => Level(t) <= max_level
      /\ tree' = tree /\ status' = [status EXCEPT ![t] = "live"]
  <2>1. cur # NoNode
    BY DEF CreateLive, Emitted
  <2> QED
    BY <2>1, UnderConstruction, CreateLiveTree DEF TreeInv, GenerationsAgree
<1>2. status'[t] = "live"
  BY <1>1 DEF TreeInv, ControlTypeOK
<1>3. CASE t = Root
  BY <1>2, <1>3 DEF UpToDate, Outdated
<1>4. CASE t # Root
  <2>1. /\ generations' = [generations EXCEPT ![Level(t)] = Narrow(LevelGeneration(t))]
        /\ max_level' = IF Level(t) > max_level THEN max_level + 1 ELSE max_level
        /\ node_gen' = node_gen
    BY <1>4 DEF CreateLive, dataVars
  <2>2. node_gen[t] \in Nat /\ node_gen[t] <= generation /\ generation \in Nat
        /\ generations \in [Levels -> Nat]
    BY <1>1 DEF TreeInv, ControlTypeOK, GenerationsBounded
  <2>3. LevelGeneration(t) = node_gen[t]
    BY <1>1, <1>4 DEF LevelGeneration
  <2>4. Narrow(LevelGeneration(t)) = node_gen[t]
    BY <2>2, <2>3, SizeTypeAssumption DEF Narrow, GenerationFits
  <2>5. generations'[Level(t)] = node_gen[t]
    BY <1>1, <2>1, <2>2, <2>4
  <2>6. ~(Level(t) > max_level')
    <3>1. CASE IsExtending(t)
      BY <1>1, <1>4, <2>1, <3>1 DEF Levels
    <3>2. CASE ~IsExtending(t)
      BY <1>1, <1>4, <2>1, <3>2 DEF Levels
    <3> QED
      BY <3>1, <3>2
  <2>7. ~Outdated(t)'
    <3>1. node_gen'[t] = generations'[Level(t)] /\ node_gen'[t] \in Nat
      BY <2>1, <2>2, <2>5
    <3>2. ~(node_gen'[t] < generations'[Level(t)])
      BY <3>1
    <3> QED
      BY <2>6, <3>2 DEF Outdated, Level
  <2> QED
    BY <1>2, <2>7 DEF UpToDate
<1> QED
  BY <1>3, <1>4

-----------------------------------------------------------------------------
(* The steps.                                                              *)

LEMMA KnownThere ==
  ASSUME BInv
  PROVE  /\ TreeInv /\ RecordInv /\ Placed /\ Appeared /\ InHand /\ Current /\ ChildrenCounted
         /\ IsTree(tree) /\ ControlTypeOK /\ StackOK
BY DEF BInv, LoopInv, TreeInv, Input, Placed

LEMMA TheseKept ==
  ASSUME TreeInv', RecordInv', Placed', Appeared', InHand', Current', ChildrenCounted'
  PROVE  BInv'
BY DEF BInv, LoopInv

(* Steps that leave the tree and its record alone.                         *)
LEMMA SameNodes ==
  ASSUME TreeInv, RecordInv, UNCHANGED treeVars
  PROVE  /\ TreeInv' /\ RecordInv' /\ StatusKept
         /\ UNCHANGED <<tree, status, child_pruned, cur, max_level, generations, node_gen>>
         /\ \A t : UpToDate(t)' <=> UpToDate(t)
         /\ \A t : Outdated(t)' <=> Outdated(t)
<1>1. UNCHANGED <<tree, status, child_pruned, cur, max_level, generations, node_gen>>
  BY DEF treeVars, coordVars, dataVars
<1>2. TreeInv' /\ RecordInv'
  BY SameTree, SameTreeRecord
<1>3. StatusKept
  BY <1>1, Zenon DEF StatusKept
<1>4. \A t : (UpToDate(t)' <=> UpToDate(t)) /\ (Outdated(t)' <=> Outdated(t))
  BY <1>1 DEF UpToDate, Outdated, Level
<1> QED
  BY <1>1, <1>2, <1>3, <1>4

(* What the number of children is read for changes with the nodes only.    *)
LEMMA CountSame ==
  ASSUME ChildrenCounted, StatusKept, child_count' = child_count, cur' = NoNode,
         pc' # "visit"
  PROVE  ChildrenCounted'
<1>1. \A t \in tree.nodes : status'[t] = "absent" => status[t] = "absent"
  BY DEF StatusKept
<1>2. tree' = tree
  BY DEF StatusKept
<1> QED
  BY <1>1, <1>2 DEF ChildrenCounted

LEMMA UnmovedStep ==
  ASSUME BInv, UNCHANGED <<treeVars, bfsVars, workVars, t_path, child_count>>
  PROVE  BInv'
<1>1. /\ TreeInv' /\ RecordInv' /\ StatusKept
      /\ UNCHANGED <<tree, status, cur>>
      /\ \A t : UpToDate(t)' <=> UpToDate(t)
      /\ \A t : Outdated(t)' <=> Outdated(t)
  BY KnownThere, SameNodes
<1>2. /\ UNCHANGED <<pc, head, level_list, next_list, old_head, node, next_child, child, path>>
      /\ UNCHANGED <<kept, dfs_roots, stack, at, t_path, child_count, loopVars>>
  BY DEF bfsVars, loopVars, workVars
<1>3. Placed' /\ Appeared'
  BY <1>1, <1>2, KnownThere, PointersKept DEF workVars
<1>4. InHand'
  BY <1>1, <1>2, KnownThere DEF InHand, Idle
<1>5. Current'
  <2>1. UNCHANGED <<path, node, at, pc, t_path, next_child, tree>>
    BY <1>1, <1>2
  <2>2. UpToDate(path)' <=> UpToDate(path)
    BY <1>1, <1>2 DEF UpToDate, Outdated
  <2>3. Outdated(node)' <=> Outdated(node)
    BY <1>1, <1>2 DEF Outdated
  <2>4. Outdated(at.node)' <=> Outdated(at.node)
    BY <1>1, <1>2 DEF Outdated
  <2>5. ToDo' = ToDo /\ (Idle' <=> Idle)
    BY <2>1 DEF ToDo, Children, Idle
  <2> QED
    BY <2>1, <2>2, <2>3, <2>4, <2>5, KnownThere DEF Current
<1>6. ChildrenCounted'
  BY <1>1, <1>2, KnownThere DEF ChildrenCounted
<1> QED
  BY <1>1, <1>3, <1>4, <1>5, <1>6, TheseKept

LEMMA RefineStep ==
  ASSUME BInv, Refine
  PROVE  BInv'
<1>1. /\ Construct /\ UNCHANGED <<t_path, child_count>>
      /\ UNCHANGED <<loopVars, kept, dfs_roots, workVars>>
  BY DEF Refine, Constructing, prunerVars, bfsVars
<1>2. TreeInv' /\ RecordInv'
  BY <1>1, KnownThere, ConstructTree, ConstructRecord
<1>3. /\ cur # NoNode /\ cur \in tree.nodes /\ tree' = tree
      /\ \/ UNCHANGED <<status, cur>>
         \/ /\ cur' = NoNode /\ status' = [status EXCEPT ![cur] = "pruned"]
            /\ UNCHANGED <<max_level, generations, node_gen>>
  BY <1>1, KnownThere, ConstructStatus
<1>4. /\ UNCHANGED <<pc, head, level_list, next_list, old_head, node, next_child, child, path>>
      /\ UNCHANGED <<stack, at>>
  BY <1>1 DEF loopVars, workVars
<1>5. \A t \in tree.nodes : status'[t] = "absent" => status[t] = "absent"
  BY <1>3, KnownThere DEF ControlTypeOK
<1>6. Placed' /\ Appeared'
  <2>1. StatusKept
    BY <1>3, <1>5 DEF StatusKept
  <2> QED
    BY <1>1, <2>1, KnownThere, PointersKept
<1>7. at = NoNode /\ Idle /\ pc \in {"load", "extend", "loop", "dfs"}
  BY <1>3, KnownThere DEF InHand
<1>8. cur' \in {cur, NoNode}
  BY <1>3
<1>9. InHand'
  BY <1>1, <1>4, <1>7, <1>8, KnownThere DEF InHand, Idle
<1>10. Current'
  <2>1. at' = NoNode /\ Idle' /\ pc' \in {"load", "extend", "loop", "dfs"}
    BY <1>1, <1>4, <1>7 DEF Idle
  <2>2. ASSUME pc = "extend" PROVE UpToDate(path)'
    <3>1. cur # Root /\ Parent(cur) = path /\ UpToDate(path)
      BY <1>3, <2>2, KnownThere DEF InHand, Current
    <3>2. CASE UNCHANGED <<status, cur>>
      <4>1. cur' \notin {NoNode, Root} /\ Parent(cur') = path'
        BY <1>3, <1>4, <3>1, <3>2
      <4>2. UpToDate(Parent(cur))'
        BY <1>2, <4>1 DEF TreeInv, GenerationsAgree
      <4> QED
        BY <4>1, <4>2
    <3>3. CASE status' = [status EXCEPT ![cur] = "pruned"] /\ UNCHANGED <<max_level, generations, node_gen>>
      <4>1. path # cur
        BY <1>3, <3>1, KnownThere, ParentFacts
      <4>2. status \in [tree.nodes -> {"absent", "constructing", "live", "pruned"}]
        BY KnownThere DEF ControlTypeOK
      <4>3. status'[path] = status[path]
        BY <1>3, <3>3, <4>1, <4>2
      <4> QED
        BY <1>4, <3>1, <3>3, <4>3 DEF UpToDate, Outdated, Level
    <3> QED
      BY <1>3, <3>2, <3>3
  <2> QED
    BY <1>4, <2>1, <2>2 DEF Current
<1>11. ChildrenCounted'
  <2>1. pc' # "visit"
    BY <1>4, <1>7
  <2> QED
    BY <1>1, <1>3, <1>4, <1>5, <1>8, <2>1, KnownThere DEF ChildrenCounted
<1> QED
  BY <1>2, <1>6, <1>9, <1>10, <1>11, TheseKept

LEMMA TellStep ==
  ASSUME BInv, Tell
  PROVE  BInv'
<1>1. UNCHANGED <<treeVars, bfsVars, workVars, t_path, child_count>>
  BY DEF Tell, AutomorphismImplicit, AddAutomorphism
<1> QED
  BY <1>1, UnmovedStep

LEMMA PruneStep ==
  ASSUME BInv, Prune
  PROVE  BInv'
<1>1. /\ ~Idle /\ (Update(Held) \/ Merge(Held)) /\ child_count' = child_count
      /\ UNCHANGED <<loopVars, dfs_roots, workVars>> /\ kept' \subseteq kept
  BY KeepsAlive DEF Prune, Update, Merge
<1>2. cur = NoNode
  BY <1>1, KnownThere DEF InHand
<1>3. OnlyPrunes /\ RecordInv'
  BY <1>1, <1>2, KnownThere, UpdateOrMergeTree
<1>4. /\ TreeInv' /\ StatusKept /\ cur' = NoNode /\ tree' = tree
      /\ \A t \in tree.nodes : ~Outdated(t) => ~Outdated(t)'
  BY <1>3, KnownThere, OnlyPrunesKeeps DEF StatusKept
<1>5. UNCHANGED <<pc, node, next_child, path, child, stack, at>>
  BY <1>1 DEF loopVars, workVars
<1>6. Placed' /\ Appeared'
  BY <1>1, <1>4, KnownThere, PointersKept
<1>7. InHand'
  BY <1>4, <1>5, KnownThere DEF InHand
<1>8. pc \notin {"visit", "extend"}
  BY <1>1, KnownThere DEF Current
<1>9. Current'
  <2>1. ASSUME at # NoNode PROVE ~Outdated(at.node)'
    <3>1. PICK t : t = at.node
      OBVIOUS
    <3>2. t \in tree.nodes /\ ~Outdated(t)
      BY <2>1, <3>1, KnownThere, WorkingNodes DEF Current
    <3>3. ~Outdated(t)'
      BY <1>4, <3>2
    <3> QED
      BY <1>5, <3>1, <3>3 DEF Outdated
  <2>2. ASSUME pc = "choose" PROVE ~Outdated(node)' /\ ToDo' # {}
    <3>1. PICK t : t = node
      OBVIOUS
    <3>2. t \in tree.nodes /\ ~Outdated(t) /\ ToDo # {}
      BY <2>2, <3>1, KnownThere DEF Current, InHand, Placed
    <3>3. ~Outdated(t)'
      BY <1>4, <3>2
    <3> QED
      BY <1>4, <1>5, <3>1, <3>2, <3>3 DEF Outdated, ToDo, Children
  <2> QED
    BY <1>5, <1>8, <2>1, <2>2 DEF Current
<1>10. ChildrenCounted'
  <2>1. pc' # "visit"
    BY <1>5, <1>8
  <2> QED
    BY <1>1, <1>4, <2>1, KnownThere, CountSame
<1> QED
  BY <1>3, <1>4, <1>6, <1>7, <1>9, <1>10, TheseKept

(* A node that is finished, on a path or on the stack.                     *)
LEMMA FinishedStep ==
  ASSUME BInv, NodeFinished, GenerationFits
  PROVE  /\ TreeInv' /\ RecordInv' /\ StatusKept /\ cur # NoNode /\ cur \in tree.nodes
         /\ tree' = tree /\ status'[cur] = "live" /\ cur' = NoNode
         /\ at = NoNode /\ Idle' /\ t_path' = t_path
         /\ child_count' = child_count
<1>1. CreateLive /\ UNCHANGED <<t_path, child_count>>
  BY DEF NodeFinished, prunerVars
<1>2. /\ TreeInv' /\ cur # NoNode /\ cur \in tree.nodes /\ tree' = tree /\ cur' = NoNode
      /\ status' = [status EXCEPT ![cur] = "live"]
  BY <1>1, KnownThere, CreateLiveTree
<1>3. RecordInv'
  BY <1>1, KnownThere, CreateLiveRecord DEF GenerationFits
<1>4. status \in [tree.nodes -> {"absent", "constructing", "live", "pruned"}]
  BY KnownThere DEF ControlTypeOK
<1>5. StatusKept /\ status'[cur] = "live"
  BY <1>2, <1>4 DEF StatusKept
<1>6. at = NoNode /\ Idle
  BY <1>2, KnownThere DEF InHand
<1> QED
  BY <1>1, <1>2, <1>3, <1>5, <1>6 DEF Idle

LEMMA CreatedStep ==
  ASSUME BInv, Created, GenerationFits
  PROVE  BInv'
<1>0. PICK t : t = cur
  OBVIOUS
<1>1. /\ NodeFinished /\ pc # "dfs" /\ path' = cur /\ child' \in {child, cur}
      /\ kept' \subseteq kept \cup ({path} \ {NoNode})
      /\ (path = NoNode /\ node # NoNode => child' = cur)
      /\ (~(path = NoNode /\ node # NoNode) => child' = child)
      /\ pc' = "visit"
      /\ UNCHANGED <<head, level_list, next_list, old_head, node, next_child, dfs_roots, stack, at>>
  BY DEF Created, workVars
<1>2. /\ TreeInv' /\ RecordInv' /\ StatusKept /\ t # NoNode /\ t \in tree.nodes
      /\ tree' = tree /\ status'[t] = "live" /\ cur' = NoNode
      /\ at = NoNode /\ Idle' /\ child_count' = child_count
  BY <1>0, <1>1, FinishedStep
<1>3. Placed'
  <2>1. Placed /\ path \in tree.nodes \cup {NoNode}
    BY KnownThere DEF Placed
  <2> QED
    BY <1>0, <1>1, <1>2, <2>1 DEF Placed, StackOK, Elems
<1>4. Appeared'
  <2>1. PICK N : N = {t}
    OBVIOUS
  <2>2. Pointed' \subseteq Pointed \cup N
    BY <1>0, <1>1, <2>1 DEF Pointed, Working
  <2>3. \A s \in N : status'[s] # "absent"
    BY <1>2, <2>1
  <2> QED
    BY <1>2, <2>2, <2>3, KnownThere, AppearedKept
<1>5. InHand'
  <2>1. stack = <<>> /\ (path # NoNode /\ node # NoNode => child # NoNode)
    BY <1>1, KnownThere DEF InHand
  <2> QED
    BY <1>0, <1>1, <1>2, <2>1 DEF InHand
<1>6. Current'
  <2>1. UpToDate(t)'
    BY <1>0, <1>1, KnownThere, FinishedUpToDate DEF NodeFinished
  <2>2. UpToDate(path)'
    BY <1>0, <1>1, <2>1 DEF UpToDate, Outdated
  <2> QED
    BY <1>1, <1>2, <2>2 DEF Current
<1>7. ChildrenCounted'
  <2>1. \A s \in tree.nodes : status'[s] = "absent" => status[s] = "absent"
    BY <1>2 DEF StatusKept
  <2>2. child_count[t] = 0
    BY <1>0, <1>1, <1>2, KnownThere DEF ChildrenCounted
  <2> QED
    BY <1>0, <1>1, <1>2, <2>1, <2>2, KnownThere DEF ChildrenCounted
<1> QED
  BY <1>2, <1>3, <1>4, <1>5, <1>6, <1>7, TheseKept

LEMMA VisitStep ==
  ASSUME BInv, Visit
  PROVE  BInv'
<1>1. /\ pc = "visit" /\ Idle /\ cur = NoNode /\ pc' = "extend" /\ BeforeDescend(path)
      /\ kept' \subseteq kept
      /\ UNCHANGED <<head, level_list, next_list, old_head, node, next_child, child, path,
                     dfs_roots, stack, at>>
  BY KeepsAlive DEF Visit, Free, workVars
<1>2. UpToDate(path) /\ child_count[path] = 0 /\ stack = <<>> /\ at = NoNode
  BY <1>1, KnownThere DEF Current, ChildrenCounted, InHand
<1>3. UNCHANGED <<treeVars, t_path, child_count>>
  BY <1>1, <1>2 DEF BeforeDescend, UpToDate, prunerVars
<1>4. TreeInv' /\ RecordInv' /\ StatusKept /\ UNCHANGED <<tree, status, cur>>
      /\ (UpToDate(path)' <=> UpToDate(path))
  <2>1. UNCHANGED <<max_level, generations, node_gen, status>>
    BY <1>3, KnownThere, SameNodes
  <2> QED
    BY <1>1, <1>3, <2>1, KnownThere, SameNodes DEF UpToDate, Outdated
<1>5. Placed'
  BY <1>1, <1>4, KnownThere DEF Placed, StackOK, Elems
<1>6. Appeared'
  <2>1. PICK N : N = {}
    OBVIOUS
  <2>2. Pointed' \subseteq Pointed \cup N
    BY <1>1 DEF Pointed, Working
  <2> QED
    BY <1>4, <2>1, <2>2, KnownThere, AppearedKept
<1>7. InHand'
  BY <1>1, <1>2, <1>4, KnownThere DEF InHand
<1>8. Current'
  BY <1>1, <1>2, <1>3, <1>4 DEF Current, Idle
<1>9. ChildrenCounted'
  BY <1>1, <1>3, <1>4, KnownThere, CountSame
<1> QED
  BY <1>4, <1>5, <1>6, <1>7, <1>8, <1>9, TheseKept

(* A child is about to be created.                                         *)
LEMMA BeginStep ==
  ASSUME BInv, cur = NoNode, Idle, NEW t \in tree.nodes, status[t] = "live", ~Outdated(t),
         NEW c \in Children(t), CreateBegin(c), CountChild(c)
  PROVE  /\ TreeInv' /\ RecordInv' /\ StatusKept /\ cur' = c /\ tree' = tree /\ Idle'
         /\ c \in tree.nodes \ {Root} /\ Parent(c) = t /\ c # t /\ c # NoNode
         /\ UpToDate(t)'
         /\ child_count' = [child_count EXCEPT ![t] = 1]
         /\ status'[c] = "constructing" /\ child_count' \in [tree.nodes -> {0, 1}]
         /\ \A s \in tree.nodes : status'[s] = "absent" => child_count'[s] = 0
<1>1. c \in tree.nodes \ {Root} /\ Parent(c) = t /\ c # t /\ NoNode \notin tree.nodes
  BY KnownThere, ChildrenAreNodes, ParentFacts DEF TreeInv, Input
<1>2. UpToDate(Parent(c))
  BY <1>1 DEF UpToDate
<1>3. /\ TreeInv' /\ cur' = c /\ tree' = tree
      /\ status' = [status EXCEPT ![c] = "constructing"]
  BY <1>1, <1>2, KnownThere, CreateBeginTree
<1>4. RecordInv'
  BY <1>1, <1>2, KnownThere, CreateBeginRecord
<1>5. status \in [tree.nodes -> {"absent", "constructing", "live", "pruned"}]
  BY KnownThere DEF ControlTypeOK
<1>6. StatusKept /\ status'[c] = "constructing"
  BY <1>1, <1>3, <1>5 DEF StatusKept
<1>7. child_count' = [child_count EXCEPT ![t] = 1] /\ t_path' = t_path
  BY <1>1 DEF CountChild
<1>8. Idle'
  BY <1>7 DEF Idle
<1>9. UpToDate(t)'
  <2>1. UpToDate(Parent(cur))'
    BY <1>1, <1>3 DEF TreeInv, GenerationsAgree
  <2> QED
    BY <1>1, <1>3, <2>1
<1>10. child_count' \in [tree.nodes -> {0, 1}]
       /\ \A s \in tree.nodes : s # t => child_count'[s] = child_count[s]
  BY <1>7, KnownThere DEF ChildrenCounted
<1>11. ASSUME NEW s \in tree.nodes, status'[s] = "absent" PROVE child_count'[s] = 0
  <2>1. status[s] = "absent"
    BY <1>6, <1>11 DEF StatusKept
  <2>2. s # t
    BY <2>1
  <2> QED
    BY <1>10, <2>1, <2>2, KnownThere DEF ChildrenCounted
<1> QED
  BY <1>1, <1>3, <1>4, <1>6, <1>7, <1>8, <1>9, <1>10, <1>11

LEMMA ExtendStep ==
  ASSUME BInv, Extend
  PROVE  BInv'
<1>0. PICK p : p = path
  OBVIOUS
<1>1. /\ pc = "extend" /\ Idle /\ cur = NoNode /\ NewChildren # {}
      /\ UNCHANGED <<loopVars, kept, dfs_roots, workVars>>
      /\ UNCHANGED <<pc, head, level_list, next_list, old_head, node, next_child, child, path, stack, at>>
  BY DEF Extend, Free, bfsVars, loopVars, workVars
<1>2. p \in tree.nodes /\ UpToDate(p) /\ status[p] = "live" /\ ~Outdated(p)
      /\ at = NoNode /\ stack = <<>>
  BY <1>0, <1>1, KnownThere DEF Placed, InHand, Current, UpToDate
<1>3. PICK c \in NewChildren : CreateBegin(c) /\ CountChild(c)
  <2>1. NewChildren \in SUBSET Children(p)
    BY <1>0 DEF NewChildren
  <2>2. First(NewChildren) \in NewChildren
    BY <1>1, <1>2, <2>1, KnownThere, FirstIsOne
  <2> QED
    BY <2>2 DEF Extend
<1>4. c \in Children(p) /\ status[c] = "absent"
  BY <1>0 DEF NewChildren
<1>5. /\ TreeInv' /\ RecordInv' /\ StatusKept /\ cur' = c /\ tree' = tree /\ Idle'
      /\ c \in tree.nodes \ {Root} /\ Parent(c) = p /\ c # p /\ c # NoNode
      /\ UpToDate(p)'
      /\ child_count' = [child_count EXCEPT ![p] = 1]
      /\ child_count' \in [tree.nodes -> {0, 1}]
      /\ \A s \in tree.nodes : status'[s] = "absent" => child_count'[s] = 0
  BY <1>1, <1>2, <1>3, <1>4, BeginStep
<1>6. Placed' /\ Appeared'
  BY <1>1, <1>5, KnownThere, PointersKept
<1>7. InHand'
  BY <1>0, <1>1, <1>2, <1>5, KnownThere DEF InHand
<1>8. Current'
  <2>1. UpToDate(path)'
    BY <1>0, <1>1, <1>5 DEF UpToDate, Outdated
  <2> QED
    BY <1>1, <1>2, <1>5, <2>1 DEF Current
<1>9. ChildrenCounted'
  <2>1. child_count'[c] = 0
    BY <1>4, <1>5, KnownThere DEF ChildrenCounted
  <2> QED
    BY <1>1, <1>5, <2>1 DEF ChildrenCounted
<1> QED
  BY <1>5, <1>6, <1>7, <1>8, <1>9, TheseKept

(* The end of a path.                                                      *)
LEMMA EndPathStep ==
  ASSUME BInv, EndPath, TreeInv', RecordInv', StatusKept, cur' = NoNode, child_count' = child_count,
         stack = <<>>, at = NoNode, path # NoNode
  PROVE  BInv'
<1>1. /\ path' = NoNode /\ child' = NoNode /\ kept' \subseteq kept
      /\ UNCHANGED <<head, level_list, old_head, next_child, dfs_roots, stack, at>>
  BY KeepsAlive DEF EndPath, workVars
<1>2. /\ node' \in {node, NoNode} /\ pc' \in {"load", "loop"}
      /\ pc' = "loop" => node' = node /\ node # NoNode
      /\ \/ next_list' = next_list
         \/ node # NoNode /\ next_list' = PutIntoList(next_list, child)
  BY DEF EndPath
<1>3. tree' = tree
  BY DEF StatusKept
<1>4. /\ next_list' \in Seq(tree.nodes)
      /\ Range(next_list') \subseteq Range(next_list) \cup ({child} \ {NoNode})
  <2>1. next_list \in Seq(tree.nodes)
    BY KnownThere DEF Placed
  <2>2. CASE next_list' = next_list
    BY <2>1, <2>2
  <2>3. CASE node # NoNode /\ next_list' = PutIntoList(next_list, child)
    <3>0. PICK c : c = child
      OBVIOUS
    <3>1. c \in tree.nodes /\ c # NoNode
      <4>1. path # NoNode => child # NoNode
        BY <2>3, KnownThere DEF InHand
      <4>2. child \in tree.nodes \cup {NoNode}
        BY KnownThere DEF Placed
      <4> QED
        BY <3>0, <4>1, <4>2
    <3>2. next_list' = next_list \/ next_list' = Append(next_list, c)
      BY <2>3, <3>0 DEF PutIntoList
    <3>3. /\ Append(next_list, c) \in Seq(tree.nodes)
          /\ Range(Append(next_list, c)) = Range(next_list) \cup {c}
      BY <2>1, <3>1, RangeAppended
    <3> QED
      BY <2>1, <3>0, <3>1, <3>2, <3>3
  <2> QED
    BY <1>2, <2>2, <2>3
<1>5. Placed'
  <2>1. StackOK'
    BY <1>1, <1>3, KnownThere DEF StackOK, Elems
  <2> QED
    BY <1>1, <1>2, <1>3, <1>4, <2>1, KnownThere DEF Placed
<1>6. Appeared'
  <2>1. PICK N : N = {}
    OBVIOUS
  <2>2. Pointed' \subseteq Pointed \cup N
    BY <1>1, <1>2, <1>4 DEF Pointed, Working
  <2> QED
    BY <2>1, <2>2, KnownThere, AppearedKept
<1>7. InHand'
  BY <1>1, <1>2 DEF InHand
<1>8. Current'
  BY <1>1, <1>2 DEF Current
<1>9. ChildrenCounted'
  BY <1>2, KnownThere, CountSame
<1> QED
  BY <1>5, <1>6, <1>7, <1>8, <1>9, TheseKept

(* A leaf is reported.                                                     *)
LEMMA ReportedStep ==
  ASSUME BInv, cur = NoNode, NEW t \in tree.nodes, UpToDate(t), IsLeaf(t), ReportVisited(t, Held)
  PROVE  /\ OnlyPrunes /\ TreeInv' /\ RecordInv' /\ StatusKept /\ cur' = NoNode
         /\ child_count' = child_count
<1>1. OnlyPrunes /\ RecordInv'
  BY KnownThere, ReportTree
<1>2. child_count' = child_count
  BY DEF ReportVisited, AutomorphismLeaf, AddAutomorphism, prunerVars
<1> QED
  BY <1>1, <1>2, KnownThere, OnlyPrunesKeeps

LEMMA ReportPathStep ==
  ASSUME BInv, ReportPath
  PROVE  BInv'
<1>1. pc = "extend" /\ cur = NoNode /\ IsLeaf(path) /\ ReportVisited(path, Held) /\ EndPath
  BY DEF ReportPath, Free
<1>2. path \in tree.nodes /\ UpToDate(path) /\ stack = <<>> /\ at = NoNode /\ path # NoNode
  BY <1>1, KnownThere DEF Placed, InHand, Current
<1>3. TreeInv' /\ RecordInv' /\ StatusKept /\ cur' = NoNode /\ child_count' = child_count
  <2>1. PICK t : t = path
    OBVIOUS
  <2> QED
    BY <1>1, <1>2, <2>1, ReportedStep
<1> QED
  BY <1>1, <1>2, <1>3, EndPathStep

LEMMA GiveUpStep ==
  ASSUME BInv, GiveUp \/ EndDFS
  PROVE  BInv'
<1>1. UNCHANGED <<treeVars, child_count>> /\ EndPath /\ cur = NoNode /\ pc \in {"extend", "dfs"}
      /\ (pc = "dfs" => stack = <<>> /\ at = NoNode)
  BY DEF GiveUp, EndDFS, nodeVars, prunerVars, Free, Traversed
<1>2. stack = <<>> /\ at = NoNode /\ path # NoNode
  BY <1>1, KnownThere DEF InHand
<1>3. TreeInv' /\ RecordInv' /\ StatusKept /\ cur' = NoNode
  BY <1>1, KnownThere, SameNodes
<1> QED
  BY <1>1, <1>2, <1>3, EndPathStep

LEMMA StartDFSStep ==
  ASSUME BInv, StartDFS
  PROVE  BInv'
<1>0. PICK t : t = path
  OBVIOUS
<1>1. /\ UNCHANGED <<treeVars, child_count>> /\ pc = "visit" /\ cur = NoNode /\ pc' = "dfs"
      /\ stack' = <<Elem(t, 0)>> /\ dfs_roots' = dfs_roots \cup {t}
      /\ UNCHANGED <<head, level_list, next_list, old_head, node, next_child, child, path, kept, at>>
  BY <1>0 DEF StartDFS, nodeVars, prunerVars, Free
<1>2. t \in tree.nodes /\ t # NoNode /\ stack = <<>> /\ at = NoNode
  BY <1>0, <1>1, KnownThere DEF Placed, InHand
<1>3. TreeInv' /\ RecordInv' /\ StatusKept /\ UNCHANGED <<cur, tree>>
  BY <1>1, KnownThere, SameNodes
<1>4. Elem(t, 0) \in Elems /\ Elem(t, 0).node = t
  BY <1>2 DEF Elem, Elems
<1>5. stack' \in Seq(Elems) /\ Len(stack') = 1 /\ stack'[1] = Elem(t, 0)
  <2>1. PICK e \in Elems : e = Elem(t, 0)
    BY <1>4
  <2> QED
    BY <1>1, <2>1
<1>6. Placed'
  BY <1>1, <1>2, <1>3, <1>5, KnownThere DEF Placed, StackOK, Elems
<1>7. Appeared'
  <2>1. PICK N : N = {}
    OBVIOUS
  <2>2. Working' \subseteq {t}
    BY <1>1, <1>2, <1>4, <1>5 DEF Working
  <2>3. Pointed' \subseteq Pointed \cup N
    BY <1>0, <1>1, <1>2, <2>2 DEF Pointed
  <2> QED
    BY <1>3, <2>1, <2>3, KnownThere, AppearedKept
<1>8. InHand'
  BY <1>0, <1>1, <1>2, <1>3, KnownThere DEF InHand
<1>9. Current'
  BY <1>1, <1>2 DEF Current
<1>10. ChildrenCounted'
  BY <1>1, <1>3, KnownThere, CountSame
<1> QED
  BY <1>3, <1>6, <1>7, <1>8, <1>9, <1>10, TheseKept

-----------------------------------------------------------------------------
(* The depth first traversal below the end of a path.                      *)

(* What its steps leave alone.                                             *)
LEMMA DeeperStep ==
  ASSUME BInv, pc = "dfs", pc' = "dfs", UNCHANGED <<loopVars, dfs_roots>>, kept' \subseteq kept,
         TreeInv', RecordInv', StatusKept, StackOK', NEW N, \A t \in N : status'[t] # "absent",
         Working' \subseteq Working \cup N, cur' # NoNode => at' = NoNode /\ Idle',
         at' # NoNode => ~Outdated(at.node)', child_count' \in [tree.nodes -> {0, 1}],
         \A t \in tree.nodes : status'[t] = "absent" => child_count'[t] = 0
  PROVE  BInv'
<1>1. /\ UNCHANGED <<pc, head, level_list, next_list, old_head, node, next_child, child, path>>
      /\ UNCHANGED <<dfs_roots, tree>>
  BY DEF loopVars, StatusKept
<1>2. Placed'
  BY <1>1, KnownThere DEF Placed
<1>3. Appeared'
  <2>1. Pointed' \subseteq Pointed \cup N
    BY <1>1 DEF Pointed
  <2> QED
    BY <2>1, KnownThere, AppearedKept
<1>4. InHand'
  BY <1>1, KnownThere DEF InHand
<1>5. Current'
  BY <1>1 DEF Current
<1>6. ChildrenCounted'
  BY <1>1 DEF ChildrenCounted
<1> QED
  BY <1>2, <1>3, <1>4, <1>5, <1>6, TheseKept

(* Steps after which nothing is popped.                                    *)
LEMMA LeavesElement ==
  ASSUME BInv, pc = "dfs", pc' = "dfs", UNCHANGED <<loopVars, dfs_roots, stack, child_count>>,
         kept' \subseteq kept, at' \in {at, NoNode},
         TreeInv', RecordInv', StatusKept, cur' = NoNode, at' # NoNode => ~Outdated(at.node)'
  PROVE  BInv'
<1>1. tree' = tree
  BY DEF StatusKept
<1>2. StackOK'
  BY <1>1, KnownThere DEF StackOK, Elems
<1>3. PICK N : N = {}
  OBVIOUS
<1>4. Working' \subseteq Working \cup N
  BY DEF Working
<1>5. child_count' \in [tree.nodes -> {0, 1}]
      /\ \A t \in tree.nodes : status'[t] = "absent" => child_count'[t] = 0
  BY KnownThere DEF ChildrenCounted, StatusKept
<1>6. \A t \in N : status'[t] # "absent"
  BY <1>3
<1> QED
  BY <1>2, <1>4, <1>5, <1>6, DeeperStep

LEMMA PushStep ==
  ASSUME BInv, Push, pc = "dfs", pc' = "dfs", UNCHANGED <<loopVars, dfs_roots>>, kept' \subseteq kept,
         GenerationFits
  PROVE  BInv'
<1>0. PICK t : t = cur
  OBVIOUS
<1>1. NodeFinished /\ stack' = Append(stack, Elem(t, 0)) /\ at' = at
  BY <1>0 DEF Push
<1>2. /\ TreeInv' /\ RecordInv' /\ StatusKept /\ t \in tree.nodes /\ tree' = tree
      /\ status'[t] = "live" /\ cur' = NoNode /\ at = NoNode /\ child_count' = child_count
  BY <1>0, <1>1, FinishedStep
<1>3. PICK e \in Elems : e = Elem(t, 0)
  BY <1>2 DEF Elem, Elems
<1>4. e.node = t
  BY <1>3 DEF Elem
<1>5. /\ stack \in Seq(Elems) /\ stack' \in Seq(Elems) /\ Len(stack) \in Nat
      /\ Len(stack') = Len(stack) + 1
      /\ \A i \in 1 .. Len(stack) : stack'[i] = stack[i]
      /\ stack'[Len(stack) + 1] = e
  <2>1. stack \in Seq(Elems) /\ stack' = Append(stack, e)
    BY <1>1, <1>3, KnownThere DEF StackOK
  <2> QED
    BY <2>1
<1>6. StackOK'
  BY <1>1, <1>2, <1>5 DEF StackOK, Elems
<1>7. PICK N : N = {t}
  OBVIOUS
<1>8. Working' \subseteq Working \cup N
  <2>1. \A i \in 1 .. Len(stack') : i \in 1 .. Len(stack) \/ i = Len(stack) + 1
    BY <1>5
  <2>2. \A i \in 1 .. Len(stack') : stack'[i].node \in Working \cup N
    BY <1>4, <1>5, <1>7, <2>1 DEF Working
  <2> QED
    BY <1>1, <1>2, <2>2 DEF Working
<1>9. \A s \in N : status'[s] # "absent"
  BY <1>2, <1>7
<1>10. child_count' \in [tree.nodes -> {0, 1}]
       /\ \A s \in tree.nodes : status'[s] = "absent" => child_count'[s] = 0
  BY <1>2, KnownThere DEF ChildrenCounted, StatusKept
<1> QED
  BY <1>1, <1>2, <1>6, <1>8, <1>9, <1>10, DeeperStep

LEMMA PopStep ==
  ASSUME BInv, Pop, pc = "dfs", pc' = "dfs", UNCHANGED <<loopVars, dfs_roots>>, kept' \subseteq kept
  PROVE  BInv'
<1> DEFINE n == Len(stack)
<1>0. PICK t : t = at'.node
  OBVIOUS
<1>1. cur = NoNode /\ stack \in Seq(Elems) /\ stack # <<>>
  BY KnownThere DEF Pop, StackOK
<1>2. n \in Nat /\ n >= 1 /\ n - 1 \in Nat
  BY <1>1
<1>3. stack' = SubSeq(stack, 1, n - 1) /\ at' = stack[n] /\ BeforeDescend(t)
  BY <1>0 DEF Pop
<1>4. stack' \in Seq(Elems) /\ Len(stack') = n - 1
  <2>1. n - 1 <= Len(stack)
    BY <1>2
  <2> HIDE DEF n
  <2>2. SubSeq(stack, 1, n - 1) \in Seq(Elems) /\ Len(SubSeq(stack, 1, n - 1)) = n - 1
    BY <1>1, <1>2, <2>1, Prefix
  <2> QED
    BY <1>3, <2>2
<1>5. \A i \in 1 .. Len(stack') : i \in 1 .. n /\ stack'[i] = stack[i]
  BY <1>1, <1>2, <1>3, <1>4
<1>6. at' \in Elems /\ n \in 1 .. n
  BY <1>1, <1>2, <1>3, ElementOf
<1>7. t \in tree.nodes /\ t \in Working /\ status[t] # "absent"
  <2>1. t \in Working
    BY <1>0, <1>3, <1>6, KnownThere, WorkingNodes
  <2> QED
    BY <2>1, KnownThere, WorkingNodes DEF Appeared, Pointed
<1>8. OnlyPrunes /\ ~Outdated(t)' /\ RecordInv' /\ child_count' = child_count
  <2>1. status[t] \in {"live", "pruned"}
    BY <1>1, <1>7, KnownThere, FinishedNode
  <2>2. child_count' = child_count
    BY <1>3 DEF BeforeDescend, Start, prunerVars
  <2> QED
    BY <1>1, <1>3, <1>7, <2>1, <2>2, KnownThere, BeforeDescendTree
<1>9. TreeInv' /\ StatusKept /\ cur' = NoNode /\ tree' = tree
  BY <1>8, KnownThere, OnlyPrunesKeeps DEF StatusKept
<1>10. StackOK'
  BY <1>4, <1>6, <1>9 DEF StackOK, Elems
<1>11. PICK N : N = {}
  OBVIOUS
<1>12. Working' \subseteq Working \cup N
  <2>1. \A i \in 1 .. Len(stack') : stack'[i].node \in Working
    BY <1>5, KnownThere, WorkingNodes
  <2> QED
    BY <1>0, <1>7, <2>1 DEF Working
<1>13. child_count' \in [tree.nodes -> {0, 1}]
       /\ \A s \in tree.nodes : status'[s] = "absent" => child_count'[s] = 0
  BY <1>8, <1>9, KnownThere DEF ChildrenCounted, StatusKept
<1>14. ~Outdated(at.node)' /\ \A s \in N : status'[s] # "absent"
  BY <1>0, <1>8, <1>11 DEF Outdated
<1> QED
  BY <1>8, <1>9, <1>10, <1>12, <1>13, <1>14, DeeperStep

LEMMA DescendStep ==
  ASSUME BInv, Descend(Held), pc = "dfs", pc' = "dfs", UNCHANGED <<loopVars, dfs_roots>>,
         kept' \subseteq kept
  PROVE  BInv'
<1>0. PICK t : t = at.node
  OBVIOUS
<1>1. at # NoNode /\ Idle /\ status[t] # "pruned" /\ at' = NoNode
  BY <1>0 DEF Descend, Go, Ready
<1>2. PICK c \in Candidates(Held) :
        stack' = Append(stack, Resume(c)) /\ CreateBegin(c) /\ CountChild(c)
  BY DEF Descend
<1>3. cur = NoNode /\ t \in tree.nodes /\ t \in Working /\ status[t] # "absent" /\ ~Outdated(t)
  <2>1. cur = NoNode
    BY <1>1, KnownThere DEF InHand
  <2>2. t \in Working
    BY <1>0, <1>1, KnownThere, WorkingNodes
  <2> QED
    BY <1>0, <1>1, <2>1, <2>2, KnownThere, WorkingNodes DEF Appeared, Pointed, Current
<1>4. status[t] = "live" /\ c \in Children(t) /\ IsTree(tree)
  BY <1>0, <1>1, <1>2, <1>3, KnownThere, FinishedNode DEF Candidates
<1>5. /\ TreeInv' /\ RecordInv' /\ StatusKept /\ cur' = c /\ tree' = tree /\ Idle'
      /\ child_count' \in [tree.nodes -> {0, 1}]
      /\ \A s \in tree.nodes : status'[s] = "absent" => child_count'[s] = 0
  BY <1>1, <1>2, <1>3, <1>4, BeginStep
<1>6. PICK e \in Elems : e = Resume(c) /\ e.node = t
  <2>1. c[Len(c)] \in Nat
    BY <1>3, <1>4, ChildrenAreNodes
  <2>2. PICK k \in Nat : k = c[Len(c)] + 1
    BY <2>1
  <2>3. Resume(c) = Elem(t, k)
    BY <1>0, <2>2 DEF Resume
  <2>4. Elem(t, k) \in Elems /\ Elem(t, k).node = t
    BY <1>3 DEF Elem, Elems
  <2> QED
    BY <2>3, <2>4
<1>7. /\ stack \in Seq(Elems) /\ stack' \in Seq(Elems) /\ Len(stack) \in Nat
      /\ Len(stack') = Len(stack) + 1
      /\ \A i \in 1 .. Len(stack) : stack'[i] = stack[i]
      /\ stack'[Len(stack) + 1] = e
  <2>1. stack \in Seq(Elems) /\ stack' = Append(stack, e)
    BY <1>2, <1>6, KnownThere DEF StackOK
  <2> QED
    BY <2>1
<1>8. StackOK'
  BY <1>1, <1>5, <1>7 DEF StackOK, Elems
<1>9. PICK N : N = {}
  OBVIOUS
<1>10. Working' \subseteq Working \cup N
  <2>1. \A i \in 1 .. Len(stack') : i \in 1 .. Len(stack) \/ i = Len(stack) + 1
    BY <1>7
  <2>2. \A i \in 1 .. Len(stack') : stack'[i].node \in Working
    BY <1>3, <1>6, <1>7, <2>1, KnownThere, WorkingNodes
  <2> QED
    BY <1>1, <2>2 DEF Working
<1>11. \A s \in N : status'[s] # "absent"
  BY <1>9
<1> QED
  BY <1>1, <1>5, <1>8, <1>10, <1>11, DeeperStep

LEMMA StepDFSStep ==
  ASSUME BInv, StepDFS, GenerationFits
  PROVE  BInv'
<1>1. pc = "dfs" /\ pc' = "dfs" /\ UNCHANGED <<loopVars, dfs_roots>> /\ kept' \subseteq kept
  BY KeepsAlive DEF StepDFS, loopVars
<1>2. CASE Push
  BY <1>1, <1>2, PushStep
<1>3. CASE Pop
  BY <1>1, <1>3, PopStep
<1>4. CASE Skip \/ Leave(Held)
  <2>1. UNCHANGED <<treeVars, child_count, stack>> /\ at # NoNode /\ at' = NoNode
    BY <1>4 DEF Skip, Leave, Go, Ready, prunerVars
  <2>2. cur = NoNode
    BY <2>1, KnownThere DEF InHand
  <2>3. TreeInv' /\ RecordInv' /\ StatusKept /\ cur' = cur
    BY <2>1, KnownThere, SameNodes
  <2> QED
    BY <1>1, <2>1, <2>2, <2>3, LeavesElement
<1>5. CASE Descend(Held)
  BY <1>1, <1>5, DescendStep
<1>6. CASE Report(Held)
  <2>0. PICK t : t = at.node
    OBVIOUS
  <2>1. /\ at # NoNode /\ at' = NoNode /\ stack' = stack /\ status[t] # "pruned" /\ IsLeaf(t)
        /\ ReportVisited(t, Held)
    BY <1>6, <2>0 DEF Report, Go, Ready
  <2>2. cur = NoNode
    BY <2>1, KnownThere DEF InHand
  <2>3. t \in Working /\ t \in tree.nodes
    BY <2>0, <2>1, KnownThere, WorkingNodes
  <2>4. UpToDate(t)
    <3>1. status[t] # "absent" /\ ~Outdated(t)
      BY <2>0, <2>1, <2>3, KnownThere DEF Appeared, Pointed, Current
    <3> QED
      BY <2>1, <2>2, <2>3, <3>1, KnownThere, FinishedNode
  <2>5. TreeInv' /\ RecordInv' /\ StatusKept /\ cur' = NoNode /\ child_count' = child_count
    BY <2>1, <2>2, <2>3, <2>4, ReportedStep
  <2> QED
    BY <1>1, <2>1, <2>5, LeavesElement
<1> QED
  BY <1>2, <1>3, <1>4, <1>5, <1>6 DEF StepDFS

-----------------------------------------------------------------------------
(* The loop over a level.                                                  *)

(* Steps between two constructions, with no path and nothing popped.       *)
LEMMA LevelStep ==
  ASSUME BInv, TreeInv', RecordInv', StatusKept, child_count' \in [tree.nodes -> {0, 1}],
         \A t \in tree.nodes : status'[t] = "absent" => child_count'[t] = 0,
         UNCHANGED <<child, path, dfs_roots, workVars>>, kept' \subseteq kept,
         path = NoNode, pc # "dfs", pc' \in {"load", "enter", "loop", "choose"},
         level_list' \in Seq(tree.nodes), next_list' \in Seq(tree.nodes),
         {head', old_head', node'} \subseteq tree.nodes \cup {NoNode}, next_child' \in Nat,
         NEW N, \A t \in N : status'[t] # "absent",
         Range(level_list') \cup Range(next_list') \cup ({head', old_head', node'} \ {NoNode})
           \subseteq Pointed \cup N,
         pc' # "load" => node' # NoNode,
         pc' = "choose" => ~Outdated(node)' /\ ToDo' # {},
         cur' # NoNode => Idle' /\ pc' \in {"load", "loop"} /\ child_count'[cur'] = 0
  PROVE  BInv'
<1>1. UNCHANGED <<child, path, dfs_roots, stack, at, tree>> /\ stack = <<>> /\ at = NoNode
  BY KnownThere DEF workVars, StatusKept, InHand
<1>2. Placed'
  BY <1>1, KnownThere DEF Placed, StackOK, Elems
<1>3. Appeared'
  <2>1. Pointed' \subseteq Pointed \cup N
    BY <1>1 DEF Pointed, Working
  <2> QED
    BY <2>1, KnownThere, AppearedKept
<1>4. InHand'
  BY <1>1 DEF InHand
<1>5. Current'
  BY <1>1 DEF Current
<1>6. ChildrenCounted'
  BY <1>1 DEF ChildrenCounted
<1> QED
  BY <1>2, <1>3, <1>4, <1>5, <1>6, TheseKept

(* What is common to all of them.                                          *)
LEMMA AtLevel ==
  ASSUME BInv
  PROVE  /\ level_list \in Seq(tree.nodes) /\ next_list \in Seq(tree.nodes)
         /\ {head, old_head, node} \subseteq tree.nodes \cup {NoNode} /\ next_child \in Nat
         /\ Range(level_list) \cup Range(next_list) \cup ({head, old_head, node} \ {NoNode})
              \subseteq Pointed
         /\ Pointed \subseteq tree.nodes
         /\ \A t \in Pointed : status[t] # "absent"
         /\ child_count \in [tree.nodes -> {0, 1}]
         /\ pc \in {"load", "enter", "loop", "choose"} => path = NoNode
         /\ pc \in {"enter", "loop", "choose"} => node # NoNode
<1>1. Pointed \subseteq tree.nodes
  BY KnownThere, PointedNodes
<1> QED
  BY <1>1, KnownThere DEF Placed, Appeared, ChildrenCounted, InHand, Pointed

(* BeforeDescend for a node that is pointed to.                            *)
LEMMA BeforeStep ==
  ASSUME BInv, cur = NoNode, NEW t \in Pointed, BeforeDescend(t)
  PROVE  /\ TreeInv' /\ RecordInv' /\ StatusKept /\ cur' = NoNode /\ tree' = tree
         /\ ~Outdated(t)' /\ child_count' = child_count
<1>1. t \in tree.nodes /\ status[t] # "absent"
  BY AtLevel
<1>2. status[t] \in {"live", "pruned"}
  BY <1>1, KnownThere, FinishedNode
<1>3. OnlyPrunes /\ ~Outdated(t)' /\ RecordInv'
  BY <1>1, <1>2, KnownThere, BeforeDescendTree
<1>4. child_count' = child_count
  BY DEF BeforeDescend, Start, prunerVars
<1> QED
  BY <1>3, <1>4, KnownThere, OnlyPrunesKeeps DEF StatusKept

LEMMA CountsSame ==
  ASSUME BInv, StatusKept, child_count' = child_count
  PROVE  /\ child_count' \in [tree.nodes -> {0, 1}]
         /\ \A t \in tree.nodes : status'[t] = "absent" => child_count'[t] = 0
BY KnownThere DEF ChildrenCounted, StatusKept

LEMMA LoadStep ==
  ASSUME BInv, Load
  PROVE  BInv'
<1>0. PICK t : t = Head(level_list)
  OBVIOUS
<1>1. /\ pc = "load" /\ cur = NoNode /\ level_list # <<>> /\ level_list' = Tail(level_list)
      /\ UNCHANGED <<head, next_list, old_head, child, path, dfs_roots, workVars>>
      /\ kept' \subseteq kept
      /\ \/ UNCHANGED <<nodeVars, pc, node, next_child>>
         \/ BeforeDescend(t) /\ pc' = "enter" /\ node' = t /\ next_child' = 0
  <2>1. KeepAlive(kept \ {t})
    BY <1>0 DEF Load
  <2>2. kept' \subseteq kept
    BY <2>1, KeepsAlive
  <2> QED
    BY <1>0, <2>2 DEF Load, Free
<1>2. Range(level_list') \subseteq Range(level_list) /\ level_list' \in Seq(tree.nodes)
      /\ t \in Range(level_list)
  BY <1>0, <1>1, AtLevel, RangeOfTail
<1>3. t \in Pointed /\ t \in tree.nodes /\ t # NoNode
  BY <1>2, KnownThere, AtLevel DEF TreeInv, Input
<1>4. PICK N : N = {}
  OBVIOUS
<1>5. /\ TreeInv' /\ RecordInv' /\ StatusKept /\ cur' = NoNode /\ child_count' = child_count
  <2>1. CASE UNCHANGED <<nodeVars, pc, node, next_child>>
    <3>1. UNCHANGED <<treeVars, child_count>>
      BY <2>1 DEF nodeVars, prunerVars
    <3> QED
      BY <1>1, <3>1, KnownThere, SameNodes
  <2>2. CASE BeforeDescend(t)
    BY <1>1, <1>3, <2>2, BeforeStep
  <2> QED
    BY <1>1, <2>1, <2>2
<1>6. /\ pc' \in {"load", "enter"} /\ next_child' \in Nat /\ node' \in {node, t}
      /\ pc' = "enter" => node' = t
  BY <1>1, AtLevel
<1>7. /\ child_count' \in [tree.nodes -> {0, 1}]
      /\ \A s \in tree.nodes : status'[s] = "absent" => child_count'[s] = 0
  BY <1>5, CountsSame
<1>8. /\ {head', old_head', node'} \subseteq tree.nodes \cup {NoNode}
      /\ next_list' \in Seq(tree.nodes) /\ path = NoNode
  BY <1>1, <1>3, <1>6, AtLevel
<1>9. /\ Range(level_list') \cup Range(next_list') \cup ({head', old_head', node'} \ {NoNode})
           \subseteq Pointed \cup N
  BY <1>1, <1>2, <1>3, <1>6, AtLevel
<1>10. \A s \in N : status'[s] # "absent"
  BY <1>4
<1> QED
  BY <1>1, <1>2, <1>3, <1>5, <1>6, <1>7, <1>8, <1>9, <1>10, LevelStep

LEMMA NextLevelStep ==
  ASSUME BInv, NextLevel
  PROVE  BInv'
<1>1. /\ pc = "load" /\ cur = NoNode /\ next_list # <<>> /\ level_list' = next_list
      /\ head' = Head(next_list) /\ next_list' = <<>> /\ old_head' = head
      /\ UNCHANGED <<nodeVars, pc, node, next_child, child, path, kept, dfs_roots, workVars>>
  BY DEF NextLevel, Free
<1>2. head' \in tree.nodes /\ head' \in Range(next_list)
  BY <1>1, AtLevel, RangeOfTail
<1>3. UNCHANGED <<treeVars, child_count>>
  BY <1>1 DEF nodeVars, prunerVars
<1>4. TreeInv' /\ RecordInv' /\ StatusKept /\ cur' = NoNode
  BY <1>1, <1>3, KnownThere, SameNodes
<1>5. /\ child_count' \in [tree.nodes -> {0, 1}]
      /\ \A s \in tree.nodes : status'[s] = "absent" => child_count'[s] = 0
  BY <1>3, <1>4, CountsSame
<1>6. PICK N : N = {}
  OBVIOUS
<1>7. next_list' \in Seq(tree.nodes) /\ Range(next_list') = {}
  BY <1>1 DEF Range
<1>8. /\ Range(level_list') \cup Range(next_list') \cup ({head', old_head', node'} \ {NoNode})
           \subseteq Pointed \cup N
  BY <1>1, <1>2, <1>7, AtLevel
<1>9. /\ {head', old_head', node'} \subseteq tree.nodes \cup {NoNode} /\ level_list' \in Seq(tree.nodes)
      /\ next_child' \in Nat /\ path = NoNode /\ pc' = "load"
  BY <1>1, <1>2, AtLevel
<1>10. \A s \in N : status'[s] # "absent"
  BY <1>6
<1> QED
  BY <1>1, <1>4, <1>5, <1>7, <1>8, <1>9, <1>10, LevelStep

(* Steps that only move on in the loop.                                    *)
LEMMA MoveOnStep ==
  ASSUME BInv, cur = NoNode, pc \in {"enter", "loop", "choose"}, pc' \in {"load", "loop"},
         UNCHANGED <<nodeVars, head, level_list, next_list, old_head, child, path, kept,
                     dfs_roots, workVars>>,
         node' \in {node, NoNode}, pc' = "loop" => node' = node, next_child' \in Nat
  PROVE  BInv'
<1>1. UNCHANGED <<treeVars, child_count>>
  BY DEF nodeVars, prunerVars
<1>2. TreeInv' /\ RecordInv' /\ StatusKept /\ cur' = NoNode
  BY <1>1, KnownThere, SameNodes
<1>3. /\ child_count' \in [tree.nodes -> {0, 1}]
      /\ \A s \in tree.nodes : status'[s] = "absent" => child_count'[s] = 0
  BY <1>1, <1>2, CountsSame
<1>4. PICK N : N = {}
  OBVIOUS
<1>5. /\ Range(level_list') \cup Range(next_list') \cup ({head', old_head', node'} \ {NoNode})
           \subseteq Pointed \cup N
  BY AtLevel
<1>6. /\ {head', old_head', node'} \subseteq tree.nodes \cup {NoNode} /\ level_list' \in Seq(tree.nodes)
      /\ next_list' \in Seq(tree.nodes) /\ path = NoNode /\ pc # "dfs" /\ pc' # "choose"
      /\ pc' \in {"load", "enter", "loop", "choose"} /\ (pc' # "load" => node' # NoNode)
  BY AtLevel
<1>7. \A s \in N : status'[s] # "absent"
  BY <1>4
<1> QED
  BY <1>2, <1>3, <1>5, <1>6, <1>7, LevelStep

LEMMA EnterStep ==
  ASSUME BInv, Enter
  PROVE  BInv'
BY MoveOnStep, AtLevel DEF Enter, Free, LeaveNode

LEMMA IterateStep ==
  ASSUME BInv, Iterate
  PROVE  BInv'
<1>1. pc = "loop" /\ cur = NoNode /\ UNCHANGED <<dfs_roots, workVars>>
  BY DEF Iterate, Free
<1>2. CASE ToDo = {} /\ LeaveNode
  BY <1>1, <1>2, MoveOnStep, AtLevel DEF LeaveNode
<1>3. CASE ToDo # {} /\ BeforeDescend(node)
  <2>0. PICK t : t = node
    OBVIOUS
  <2>1. /\ pc' = "choose" /\ kept' \subseteq kept
        /\ UNCHANGED <<head, level_list, next_list, old_head, node, next_child, child, path>>
    BY <1>3, KeepsAlive DEF Iterate, LeaveNode
  <2>2. t \in Pointed /\ t # NoNode
    BY <1>1, <2>0, AtLevel
  <2>3. /\ TreeInv' /\ RecordInv' /\ StatusKept /\ cur' = NoNode /\ tree' = tree
        /\ ~Outdated(t)' /\ child_count' = child_count
    BY <1>1, <1>3, <2>0, <2>2, BeforeStep
  <2>4. ~Outdated(node)' /\ ToDo' # {}
    BY <1>3, <2>0, <2>1, <2>3 DEF Outdated, ToDo, Children
  <2>5. /\ child_count' \in [tree.nodes -> {0, 1}]
        /\ \A s \in tree.nodes : status'[s] = "absent" => child_count'[s] = 0
    BY <2>3, CountsSame
  <2>6. PICK N : N = {}
    OBVIOUS
  <2>7. \A s \in N : status'[s] # "absent"
    BY <2>6
  <2>8. /\ Range(level_list') \cup Range(next_list') \cup ({head', old_head', node'} \ {NoNode})
             \subseteq Pointed \cup N
    BY <2>1, AtLevel
  <2>9. /\ {head', old_head', node'} \subseteq tree.nodes \cup {NoNode}
        /\ level_list' \in Seq(tree.nodes) /\ next_list' \in Seq(tree.nodes)
        /\ next_child' \in Nat /\ path = NoNode /\ node' # NoNode
    BY <1>1, <2>1, AtLevel
  <2> QED
    BY <1>1, <2>1, <2>3, <2>4, <2>5, <2>7, <2>8, <2>9, LevelStep
<1> QED
  BY <1>2, <1>3 DEF Iterate

LEMMA ChooseStep ==
  ASSUME BInv, Choose
  PROVE  BInv'
<1>0. PICK t : t = node
  OBVIOUS
<1>1. pc = "choose" /\ Idle /\ cur = NoNode /\ UNCHANGED <<dfs_roots, workVars>>
  BY DEF Choose, Free
<1>2. t \in Pointed /\ t \in tree.nodes /\ t # NoNode /\ status[t] # "absent" /\ ~Outdated(t) /\ ToDo # {}
  BY <1>0, <1>1, KnownThere, AtLevel DEF Current
<1>3. PICK c : c = First(ToDo)
  OBVIOUS
<1>4. c \in Children(t) /\ Last(c) + 1 \in Nat
  <2>1. ToDo \in SUBSET Children(t)
    BY <1>0 DEF ToDo
  <2>2. c \in ToDo
    BY <1>2, <1>3, <2>1, KnownThere, FirstIsOne
  <2> QED
    BY <1>2, <2>1, <2>2, KnownThere, ChildrenAreNodes
<1>5. CASE status[t] = "pruned"
  <2>1. LeaveNode
    BY <1>0, <1>5 DEF Choose
  <2> QED
    BY <1>1, <2>1, MoveOnStep, AtLevel DEF LeaveNode
<1>6. CASE status[t] # "pruned"
  <2>1. /\ next_child' = Last(c) + 1 /\ pc' = "loop"
        /\ UNCHANGED <<head, level_list, old_head, node, child, path, kept>>
        /\ \/ UNCHANGED <<nodeVars, next_list>>
           \/ status[c] # "absent" /\ next_list' = PutIntoList(next_list, c) /\ UNCHANGED nodeVars
           \/ status[c] = "absent" /\ CreateBegin(c) /\ CountChild(c) /\ UNCHANGED next_list
    BY <1>0, <1>3, <1>6 DEF Choose
  <2>2. CASE UNCHANGED <<nodeVars, next_list>>
    BY <1>1, <1>4, <2>1, <2>2, MoveOnStep
  <2>3. PICK N : N = {}
    OBVIOUS
  <2>4. \A s \in N : status'[s] # "absent"
    BY <2>3
  <2>5. /\ {head', old_head', node'} \subseteq tree.nodes \cup {NoNode}
        /\ level_list' \in Seq(tree.nodes)
        /\ next_child' \in Nat /\ path = NoNode /\ node' # NoNode
        /\ UNCHANGED <<child, path>> /\ kept' \subseteq kept
    BY <1>1, <1>4, <2>1, AtLevel
  <2>6. CASE status[c] # "absent" /\ next_list' = PutIntoList(next_list, c) /\ UNCHANGED nodeVars
    <3>1. UNCHANGED <<treeVars, child_count>>
      BY <2>6 DEF nodeVars, prunerVars
    <3>2. TreeInv' /\ RecordInv' /\ StatusKept /\ cur' = NoNode /\ status' = status
      BY <1>1, <3>1, KnownThere, SameNodes
    <3>3. /\ child_count' \in [tree.nodes -> {0, 1}]
          /\ \A s \in tree.nodes : status'[s] = "absent" => child_count'[s] = 0
      BY <3>1, <3>2, CountsSame
    <3>4. c \in tree.nodes /\ (next_list' = next_list \/ next_list' = Append(next_list, c))
      BY <1>2, <1>4, <2>6, KnownThere, ChildrenAreNodes DEF PutIntoList
    <3>5. /\ Append(next_list, c) \in Seq(tree.nodes)
          /\ Range(Append(next_list, c)) = Range(next_list) \cup {c}
      BY <3>4, AtLevel, RangeAppended
    <3>6. PICK M : M = {c}
      OBVIOUS
    <3>7. \A s \in M : status'[s] # "absent"
      BY <2>6, <3>2, <3>6
    <3>8. /\ Range(level_list') \cup Range(next_list') \cup ({head', old_head', node'} \ {NoNode})
               \subseteq Pointed \cup M
      BY <2>1, <3>4, <3>5, <3>6, AtLevel
    <3>9. next_list' \in Seq(tree.nodes) /\ pc' \in {"load", "enter", "loop", "choose"} /\ pc # "dfs"
          /\ pc' # "choose"
      BY <1>1, <2>1, <3>4, <3>5, AtLevel
    <3> QED
      BY <1>1, <2>5, <3>2, <3>3, <3>7, <3>8, <3>9, LevelStep
  <2>7. CASE status[c] = "absent" /\ CreateBegin(c) /\ CountChild(c) /\ UNCHANGED next_list
    <3>1. status[t] = "live"
      BY <1>1, <1>2, <1>6, KnownThere, FinishedNode
    <3>2. /\ TreeInv' /\ RecordInv' /\ StatusKept /\ cur' = c /\ Idle' /\ c # t
          /\ c \in tree.nodes \ {Root}
          /\ child_count' = [child_count EXCEPT ![t] = 1]
          /\ child_count' \in [tree.nodes -> {0, 1}]
          /\ \A s \in tree.nodes : status'[s] = "absent" => child_count'[s] = 0
      BY <1>1, <1>2, <1>4, <2>7, <3>1, BeginStep
    <3>3. child_count'[c] = 0
      BY <2>7, <3>2, KnownThere DEF ChildrenCounted
    <3>4. /\ Range(level_list') \cup Range(next_list') \cup ({head', old_head', node'} \ {NoNode})
               \subseteq Pointed \cup N
      BY <2>1, <2>7, AtLevel
    <3>5. next_list' \in Seq(tree.nodes) /\ pc' \in {"load", "enter", "loop", "choose"} /\ pc # "dfs"
          /\ pc' # "choose" /\ (cur' # NoNode => Idle' /\ pc' \in {"load", "loop"} /\ child_count'[cur'] = 0)
      BY <1>1, <2>1, <2>7, <3>2, <3>3, AtLevel
    <3> QED
      BY <1>1, <2>4, <2>5, <3>2, <3>4, <3>5, LevelStep
  <2> QED
    BY <2>1, <2>2, <2>6, <2>7
<1> QED
  BY <1>5, <1>6

-----------------------------------------------------------------------------

LEMMA InitBInv == Init => BInv
<1> SUFFICES ASSUME Init PROVE BInv
  OBVIOUS
<1>1. TreeInv /\ RecordInv
  BY InitTree, InitRecord DEF Init, TreeInv
<1>2. /\ cur = Root /\ Root \in tree.nodes /\ Root # NoNode
      /\ status = [t \in tree.nodes |-> IF t = Root THEN "constructing" ELSE "absent"]
      /\ child_count = [t \in tree.nodes |-> 0] /\ t_path = <<>>
  BY <1>1 DEF Init, TreeInit, PrunerInit, TreeInv, Input, IsTree
<1>3. /\ pc = "load" /\ head = Root /\ level_list = <<Root>> /\ next_list = <<>>
      /\ old_head = NoNode /\ node = NoNode /\ next_child = 0 /\ child = NoNode /\ path = NoNode
      /\ kept = {} /\ dfs_roots = {} /\ stack = <<>> /\ at = NoNode
  BY DEF Init
<1>4. Range(level_list) = {Root} /\ Range(next_list) = {} /\ Working = {}
      /\ level_list \in Seq(tree.nodes)
  <2>1. PICK r \in tree.nodes : r = Root
    BY <1>2
  <2>2. PICK s : s = <<r>>
    OBVIOUS
  <2>6. s \in Seq(tree.nodes) /\ Len(s) = 1 /\ s[1] = r
    BY <2>1, <2>2, OneElement
  <2>3. s \in Seq(tree.nodes) /\ DOMAIN s = 1 .. 1 /\ s[1] = r
    BY <2>6
  <2>4. Range(s) = {r}
    BY <2>3 DEF Range
  <2>5. Range(next_list) = {} /\ Working = {}
    BY <1>3 DEF Range, Working
  <2> QED
    BY <1>3, <2>1, <2>2, <2>3, <2>4, <2>5
<1>5. Placed
  BY <1>2, <1>3, <1>4 DEF Placed, StackOK
<1>6. Appeared
  BY <1>2, <1>3, <1>4 DEF Appeared, Pointed
<1>7. InHand
  BY <1>2, <1>3 DEF InHand, Idle
<1>8. Current
  BY <1>3 DEF Current
<1>9. ChildrenCounted
  BY <1>2, <1>3 DEF ChildrenCounted
<1> QED
  BY <1>1, <1>5, <1>6, <1>7, <1>8, <1>9 DEF BInv, LoopInv

LEMMA NextBInv == BInv /\ GenerationFits /\ [Next]_vars => BInv'
<1> SUFFICES ASSUME BInv, GenerationFits, [Next]_vars PROVE BInv'
  OBVIOUS
<1>1. CASE Refine \/ Tell \/ Prune
  BY <1>1, RefineStep, TellStep, PruneStep
<1>2. CASE Created \/ Visit \/ Extend \/ ReportPath \/ GiveUp
  BY <1>2, CreatedStep, VisitStep, ExtendStep, ReportPathStep, GiveUpStep
<1>3. CASE StartDFS \/ StepDFS \/ EndDFS
  BY <1>3, StartDFSStep, StepDFSStep, GiveUpStep
<1>4. CASE Load \/ NextLevel \/ Enter \/ Iterate \/ Choose
  BY <1>4, LoadStep, NextLevelStep, EnterStep, IterateStep, ChooseStep
<1>5. CASE Stop \/ UNCHANGED vars
  <2>1. UNCHANGED <<treeVars, bfsVars, workVars, t_path, child_count>>
    BY <1>5 DEF Stop, vars, nodeVars, prunerVars
  <2> QED
    BY <2>1, UnmovedStep
<1> QED
  BY <1>1, <1>2, <1>3, <1>4, <1>5 DEF Next

LEMMA AlwaysBInv == Spec /\ []GenerationFits => []BInv
BY InitBInv, NextBInv, PTL DEF Spec

(* Only the construction of a node changes what is recorded.               *)
LEMMA NextImproves == BInv /\ [Next]_vars => [Improves]_<<trace, values>>
<1> SUFFICES ASSUME BInv, [Next]_vars PROVE Improves \/ UNCHANGED <<trace, values>>
  BY DEF Improves
<1>1. CASE Refine
  BY <1>1, KnownThere, ConstructImproves DEF Refine, Constructing
<1>2. CASE Prune
  BY <1>2 DEF Prune, Update, Merge, Absorb, PruneSubtree, coordVars, treeVars
<1>3. CASE Created
  BY <1>3 DEF Created, NodeFinished, CreateLive
<1>4. CASE Visit
  BY <1>4 DEF Visit, BeforeDescend, PruneSubtree, coordVars, treeVars
<1>5. CASE Extend
  BY <1>5 DEF Extend, CreateBegin, coordVars
<1>6. CASE ReportPath
  BY <1>6 DEF ReportPath, ReportVisited, AutomorphismLeaf, PruneSubtree, coordVars
<1>7. CASE StepDFS
  <2>1. CASE Push
    BY <2>1 DEF Push, NodeFinished, CreateLive
  <2>2. CASE Pop
    BY <2>2 DEF Pop, BeforeDescend, PruneSubtree, coordVars, treeVars
  <2>3. CASE Skip \/ Leave(Held)
    BY <2>3 DEF Skip, Leave, treeVars, coordVars
  <2>4. CASE Descend(Held)
    BY <2>4 DEF Descend, CreateBegin, coordVars
  <2>5. CASE Report(Held)
    BY <2>5 DEF Report, ReportVisited, AutomorphismLeaf, PruneSubtree, coordVars
  <2> QED
    BY <1>7, <2>1, <2>2, <2>3, <2>4, <2>5 DEF StepDFS
<1>8. CASE Load \/ Iterate
  BY <1>8 DEF Load, Iterate, LeaveNode, BeforeDescend, PruneSubtree, nodeVars, coordVars, treeVars
<1>9. CASE Choose
  BY <1>9 DEF Choose, LeaveNode, CreateBegin, nodeVars, coordVars, treeVars
<1>10. CASE Tell \/ GiveUp \/ StartDFS \/ EndDFS \/ NextLevel \/ Enter \/ Stop \/ UNCHANGED vars
  BY <1>10 DEF Tell, AutomorphismImplicit, GiveUp, StartDFS, EndDFS, NextLevel, Enter, LeaveNode,
     Stop, vars, nodeVars, treeVars, coordVars
<1> QED
  BY <1>1, <1>2, <1>3, <1>4, <1>5, <1>6, <1>7, <1>8, <1>9, <1>10 DEF Next

-----------------------------------------------------------------------------

(* The assertion of makeExperimentalPath: nothing prunes the node a path   *)
(* goes on from, neither the events of its own construction nor what       *)
(* tree_before_descend does for it, although every node before it may have *)
(* been pruned by then.                                                    *)
THEOREM PathNeverPruned ==
  Spec /\ [](generation < SizeTypeSize) => []PathNotPruned
<1>1. BInv => PathNotPruned
  BY KnownThere DEF Current, UpToDate, PathNotPruned
<1> QED
  BY <1>1, AlwaysBInv, PTL DEF GenerationFits

(* What invariant_coordinator asserts about levels and generations holds   *)
(* also while nodes wait in the list of the next level: one that is taken  *)
(* from it when its trace has been replaced gets no child.                 *)
THEOREM CoordinatorAssertionsHoldByLevel ==
  Spec /\ [](generation < SizeTypeSize) => []GenerationsAgree
<1>1. BInv => GenerationsAgree
  BY DEF BInv, TreeInv
<1> QED
  BY <1>1, AlwaysBInv, PTL DEF GenerationFits

(* The providers stay in step with the coordinator and with every node that*)
(* still counts, in whatever order the nodes of the tree are constructed.  *)
THEOREM TracesInStepByLevel == Spec /\ [](generation < SizeTypeSize) => []TracesInStep
<1>1. BInv => TracesInStep
  BY InStep DEF BInv
<1> QED
  BY <1>1, AlwaysBInv, PTL DEF GenerationFits

(* What add_invariant_element compares a node with is what the nodes that  *)
(* still count have emitted, the ones in the lists and on the path alike.  *)
THEOREM RecordAgreesByLevel == Spec /\ [](generation < SizeTypeSize) => []RecordAgrees
<1>1. BInv => RecordAgrees
  BY Agrees DEF BInv
<1> QED
  BY <1>1, AlwaysBInv, PTL DEF GenerationFits

(* The record gets longer or better, one level at a time, although the     *)
(* traversal goes back to levels that have been recorded beyond.           *)
THEOREM RecordImprovesByLevel == Spec /\ [](generation < SizeTypeSize) => RecordImproves
<1>1. Spec /\ []GenerationFits => [][Improves]_<<trace, values>>
  BY AlwaysBInv, NextImproves, PTL DEF Spec
<1> QED
  BY <1>1 DEF Improves, RecordImproves, GenerationFits

-----------------------------------------------------------------------------
(* The nodes of the tree with aut_pruner_basic: which are alive, which are *)
(* cut off, and which automorphisms the pruner has for them.               *)

Finishes(t) == status[t] \in {"live", "pruned"}

(* What the pruner is about to update are the ancestors of a node that has *)
(* been created.                                                           *)
Updating == \E t \in tree.nodes : PrunerAt(t) /\ (Idle \/ Finishes(t))
NodesInv == GensInv /\ ShapeInv /\ Updating

LEMMA NodesKept ==
  ASSUME NodesInv, UNCHANGED <<tree, implicit, pruner, status, child_pruned, forest>>,
         UNCHANGED <<gens, nodeGens, t_path, moves>>
  PROVE  NodesInv'
<1>1. GensInv'
  BY SameGens DEF NodesInv
<1>2. ShapeInv'
  BY ShapeKept DEF NodesInv
<1>3. PICK t \in tree.nodes : PrunerAt(t) /\ (Idle \/ Finishes(t))
  BY DEF NodesInv, Updating
<1>4. PrunerAt(t)'
  BY <1>3, SamePrunerAt
<1>5. (Idle \/ Finishes(t))'
  BY <1>3 DEF Idle, Finishes
<1> QED
  BY <1>1, <1>2, <1>3, <1>4, <1>5 DEF NodesInv, Updating

LEMMA IdleReady ==
  ASSUME NodesInv, Idle, UNCHANGED <<tree, forest, t_path, moves>>
  PROVE  Updating'
<1>1. PICK t \in tree.nodes : PrunerAt(t)
  BY DEF NodesInv, Updating
<1>2. PrunerAt(t)'
  BY <1>1, IdlePrunerAt
<1>3. Idle'
  BY DEF Idle
<1> QED
  BY <1>1, <1>2, <1>3 DEF Updating

LEMMA KnownNodes ==
  ASSUME BInv, NodesInv
  PROVE  /\ TreeInv /\ RecordInv /\ Input /\ IsTree(tree) /\ Symmetric /\ ControlTypeOK
         /\ GensInv /\ ShapeInv /\ Living /\ FinishedAbove /\ RootLives /\ PairsCut /\ SetsCut
         /\ pruner = "basic" /\ NoNode \notin tree.nodes /\ Root \in tree.nodes
         /\ \A t \in tree.nodes : status[t] = "constructing" <=> t = cur
BY KnownThere DEF NodesInv, GensInv, ShapeInv, TreeInv, Input, IsTree

LEMMA RefineNodes ==
  ASSUME BInv, NodesInv, Refine
  PROVE  NodesInv'
<1>1. /\ Construct /\ UNCHANGED <<implicit, pruner, forest, gens, nodeGens, t_path, moves>>
  BY DEF Refine, Constructing, prunerVars, setup
<1>2. /\ cur # NoNode /\ cur \in tree.nodes /\ tree' = tree
      /\ \/ UNCHANGED <<status, child_pruned, cur>>
         \/ /\ cur # Root /\ cur' = NoNode
            /\ status' = [status EXCEPT ![cur] = "pruned"]
            /\ child_pruned' = child_pruned \cup {cur}
  BY <1>1, KnownNodes, ConstructStatus
<1>3. CASE UNCHANGED <<status, child_pruned, cur>>
  BY <1>1, <1>2, <1>3, NodesKept
<1>4. CASE /\ cur # Root /\ status' = [status EXCEPT ![cur] = "pruned"]
           /\ child_pruned' = child_pruned \cup {cur}
  <2>1. ShapeInv'
    BY <1>1, <1>2, <1>4, KnownNodes, ShapeDiscard
  <2>2. GensInv'
    BY <1>1, <1>2, KnownNodes, SameGens
  <2>3. Idle
    BY <1>2, KnownThere DEF InHand
  <2> QED
    BY <1>1, <1>2, <2>1, <2>2, <2>3, IdleReady DEF NodesInv
<1> QED
  BY <1>2, <1>3, <1>4

LEMMA TellNodes ==
  ASSUME BInv, NodesInv, Tell
  PROVE  NodesInv'
<1>1. PICK p \in tree.auts : AddAutomorphism(p, Holders(Held))
  BY DEF Tell, AutomorphismImplicit
<1>2. UNCHANGED treeVars /\ cur # NoNode
  BY DEF Tell, AutomorphismImplicit, MustTell, Emitted
<1>3. BasicAdd(p) /\ UNCHANGED <<tree, implicit, pruner, status, child_pruned, forest, t_path, moves>>
  BY <1>1, <1>2, KnownNodes DEF AddAutomorphism, chainVars, setup, treeVars
<1>4. Idle
  BY <1>2, KnownThere DEF InHand
<1>5. GensInv'
  BY <1>3, KnownNodes, AddGens
<1>6. ShapeInv'
  BY <1>3, KnownNodes, ShapeKept
<1> QED
  BY <1>3, <1>4, <1>5, <1>6, IdleReady DEF NodesInv

LEMMA FinishedNodes ==
  ASSUME BInv, NodesInv, NodeFinished
  PROVE  NodesInv'
<1>1. /\ cur # NoNode /\ status' = [status EXCEPT ![cur] = "live"]
      /\ child_pruned' = child_pruned \cup OneOfPair(cur)
      /\ UNCHANGED <<tree, implicit, pruner, forest, gens, nodeGens, t_path, moves>>
  BY DEF NodeFinished, CreateLive, Emitted, prunerVars, setup
<1>2. Idle
  BY <1>1, KnownThere DEF InHand
<1>3. ShapeInv'
  BY <1>1, KnownNodes, ShapeFinished
<1>4. GensInv'
  BY <1>1, KnownNodes, SameGens
<1> QED
  BY <1>1, <1>2, <1>3, <1>4, IdleReady DEF NodesInv

LEMMA BegunNodes ==
  ASSUME BInv, NodesInv, cur = NoNode, Idle, NEW t \in tree.nodes, status[t] = "live",
         NEW c \in Children(t), status[c] = "absent", c \notin child_pruned,
         CreateBegin(c), CountChild(c)
  PROVE  NodesInv'
<1>1. c \in tree.nodes \ {Root} /\ Parent(c) = t
  BY KnownNodes, ChildrenAreNodes
<1>2. /\ status' = [status EXCEPT ![c] = "constructing"]
      /\ UNCHANGED <<tree, implicit, pruner, child_pruned, forest, gens, nodeGens, t_path, moves>>
  BY DEF CreateBegin, CountChild, chainVars, setup
<1>3. ShapeInv'
  BY <1>1, <1>2, KnownNodes, ShapeCreated
<1>4. GensInv'
  BY <1>2, KnownNodes, SameGens
<1> QED
  BY <1>2, <1>3, <1>4, IdleReady DEF NodesInv

(* A subtree is cut off, with all that is merged into the sets in it.      *)
LEMMA CutNodes ==
  ASSUME BInv, NodesInv, cur = NoNode, NEW t \in tree.nodes \ {Root}, Finishes(Parent(t)),
         PruneSubtree(t, {}), UNCHANGED <<implicit, forest>>
  PROVE  ShapeInv'
<1>1. tree' = tree /\ child_pruned \subseteq child_pruned'
  BY DEF PruneSubtree
<1>2. SetsCut'
  BY <1>1, KnownNodes DEF SetsCut
<1>3. {} \in SUBSET {t}
  OBVIOUS
<1> QED
  BY <1>1, <1>2, <1>3, KnownNodes, ShapePruned DEF Finishes

LEMMA ParentFinishes ==
  ASSUME BInv, NodesInv, NEW t \in tree.nodes \ {Root}, status[t] # "absent"
  PROVE  Parent(t) \in tree.nodes /\ Finishes(Parent(t))
<1>1. Parent(t) \in tree.nodes /\ Above(Parent(t), t) /\ Parent(t) # t
  BY KnownNodes, ChildAbove
<1> QED
  BY <1>1, KnownNodes DEF FinishedAbove, Finishes

LEMMA ReportedNodes ==
  ASSUME BInv, NodesInv, cur = NoNode, Idle, NEW t \in tree.nodes, UpToDate(t), IsLeaf(t),
         t # canon_leaf, ReportVisited(t, Held)
  PROVE  NodesInv'
<1>1. CASE FindsAutomorphism(t) /\ AutomorphismLeaf(t, Held)
  <2>1. cur # Root /\ status[t] = "live" /\ canon_leaf # NoNode
    BY <1>1, KnownNodes DEF UpToDate, FindsAutomorphism
  <2>2. /\ ExplicitAutomorphism(t) \in tree.auts /\ canon_leaf \in tree.nodes
        /\ IsLeaf(canon_leaf) /\ Level(t) = Level(canon_leaf)
    BY <1>1, <2>1, KnownNodes, ExplicitIsReal
  <2>3. /\ PruneSubtree(BelowCommon(t), {})
        /\ BasicAdd(ExplicitAutomorphism(t))
        /\ UNCHANGED <<tree, implicit, pruner, forest, t_path, moves>>
    BY <1>1, KnownNodes DEF AutomorphismLeaf, AddAutomorphism, PruneSubtree, chainVars, setup
  <2>4. GensInv'
    BY <2>2, <2>3, KnownNodes, AddGens
  <2>5. ShapeInv'
    <3>0. PICK a : a = BelowCommon(t)
      OBVIOUS
    <3>1. PICK j \in 1 .. Len(t) : a = Ancestor(t, j)
      BY <2>2, <3>0, KnownNodes, BelowCommonIs
    <3>2. a \in tree.nodes \ {Root} /\ Above(a, t)
      BY <3>1, KnownNodes, AncestorsAbove
    <3>3. status[a] # "absent"
      BY <2>1, <3>2, KnownNodes DEF Living
    <3>4. Finishes(Parent(a))
      BY <3>2, <3>3, ParentFinishes
    <3> QED
      BY <2>3, <3>0, <3>2, <3>4, CutNodes
  <2> QED
    BY <2>3, <2>4, <2>5, IdleReady DEF NodesInv
<1>2. CASE /\ ~FindsAutomorphism(t)
           /\ UNCHANGED <<tree, status, child_pruned, coordVars, dataVars, values,
                          q_max_level, cur, emitted, prunerVars>>
  <2>1. UNCHANGED chainVars
    BY <1>2, KnownNodes DEF ReportVisited
  <2>2. UNCHANGED <<tree, implicit, pruner, status, child_pruned, forest, gens, nodeGens, t_path, moves>>
    BY <1>2, <2>1 DEF prunerVars, chainVars, setup
  <2> QED
    BY <2>2, NodesKept
<1> QED
  BY <1>1, <1>2 DEF ReportVisited

(* The coordinator prunes a node of a replaced trace, or the pruner starts *)
(* to update its ancestors.                                                *)
LEMMA BeforeNodes ==
  ASSUME BInv, NodesInv, cur = NoNode, Idle, NEW t \in tree.nodes, status[t] # "absent",
         BeforeDescend(t)
  PROVE  NodesInv'
<1>1. Finishes(t)
  BY KnownNodes, FinishedNode DEF Finishes
<1>2. CASE Outdated(t) /\ PruneSubtree(t, {}) /\ PruneVisited
           /\ UNCHANGED <<forest, t_path, moves>>
  <2>1. t # Root
    BY <1>2 DEF Outdated
  <2>2. UNCHANGED <<tree, implicit, pruner, gens, nodeGens>>
    BY <1>2, KnownNodes DEF PruneSubtree, PruneVisited, chainVars, setup
  <2>3. ShapeInv'
    BY <1>2, <2>1, <2>2, ParentFinishes, CutNodes
  <2>4. GensInv'
    BY <2>2, KnownNodes, SameGens
  <2> QED
    BY <1>2, <2>2, <2>3, <2>4, IdleReady DEF NodesInv
<1>3. CASE NeedUpdate(t) /\ Start(t) /\ UNCHANGED treeVars
  <2>1. UNCHANGED <<tree, implicit, pruner, status, child_pruned, forest, gens, nodeGens>>
    BY <1>3 DEF Start, treeVars, chainVars, setup
  <2>2. PICK u \in tree.nodes : PrunerAt(u)
    BY DEF NodesInv, Updating
  <2>3. PrunerAt(t)'
    BY <1>3, <2>1, <2>2, KnownNodes, StartPrunerAt
  <2>4. Finishes(t)'
    BY <1>1, <2>1 DEF Finishes
  <2>5. GensInv' /\ ShapeInv'
    BY <2>1, KnownNodes, SameGens, ShapeKept
  <2> QED
    BY <2>1, <2>3, <2>4, <2>5 DEF NodesInv, Updating
<1>4. CASE UNCHANGED <<prunerVars, chainVars, treeVars>>
  <2>1. UNCHANGED <<tree, implicit, pruner, status, child_pruned, forest, gens, nodeGens, t_path, moves>>
    BY <1>4 DEF prunerVars, chainVars, setup, treeVars
  <2> QED
    BY <2>1, NodesKept
<1> QED
  BY <1>2, <1>3, <1>4 DEF BeforeDescend

(* The node whose children are merged is an ancestor of one that has been  *)
(* created.                                                                *)
LEMMA HighestFinishes ==
  ASSUME BInv, NodesInv, NEW t \in tree.nodes, PrunerAt(t), Finishes(t), ~Idle, NEW h, h = Highest
  PROVE  h \in tree.nodes /\ Finishes(h)
<1>1. UpdatePathTo(t)
  BY DEF PrunerAt
<1>2. PICK n \in 1 .. Len(t) + 1 : h \in tree.nodes /\ h = Ancestor(t, Len(t) + 1 - n) /\ Len(t) \in Nat
  BY <1>1, KnownNodes, HighestAt
<1>3. Len(t) + 1 - n \in 0 .. Len(t)
  BY <1>2
<1>4. Above(h, t)
  BY <1>2, <1>3, KnownNodes, AncestorsAbove
<1>5. CASE h = t
  BY <1>2, <1>5
<1>6. CASE h # t
  <2>1. status[t] # "absent"
    BY DEF Finishes
  <2> QED
    BY <1>2, <1>4, <1>6, <2>1, KnownNodes DEF FinishedAbove, Finishes
<1> QED
  BY <1>5, <1>6

(* Two sets of siblings become one, or nothing is pruned.                  *)
LEMMA MergedSets ==
  ASSUME BInv, NodesInv, NEW t, PrunerAt(t), Merge(Held), NEW h, h = Highest, h \in tree.nodes
  PROVE  \/ UNCHANGED <<treeVars, forest, chainVars>>
         \/ \E keep \in Children(h), other \in Children(h) :
              /\ keep # other /\ forest[keep] = keep /\ forest[other] = other
              /\ keep = Keep(keep, other, Held) \/ keep = Keep(other, keep, Held)
              /\ forest' = Absorbed(keep, other) /\ PruneSubtree(other, {other})
              /\ UNCHANGED <<leafVars, implicit, pruner, chainVars>>
<1>1. PICK m \in moves :
        LET r == forest[m[2]]
            s == forest[m[3]]
        IN \/ r = s /\ UNCHANGED <<treeVars, forest, gens, nodeGens, chainVars>>
           \/ r # s /\ \E keep \in {Keep(r, s, Held)} :
                          \E other \in {r, s} \ {keep} : Absorb(keep, other)
  BY DEF Merge
<1>2. PICK r : r = forest[m[2]]
  OBVIOUS
<1>3. PICK s : s = forest[m[3]]
  OBVIOUS
<1>4. CASE r = s
  BY <1>1, <1>2, <1>3, <1>4
<1>5. CASE r # s
  <2>1. PICK keep : /\ keep = Keep(r, s, Held)
                    /\ \E other \in {r, s} \ {keep} : Absorb(keep, other)
    BY <1>1, <1>2, <1>3, <1>5
  <2>2. PICK other \in {r, s} \ {keep} : Absorb(keep, other)
    BY <2>1
  <2>3. m[2] \in tree.nodes \ {Root} /\ Parent(m[2]) = h /\ SameBelow(m[2], m[3])
    BY DEF PrunerAt, MovesReal
  <2>4. m[3] \in tree.nodes \ {Root} /\ Parent(m[3]) = h
    BY <2>3, KnownNodes, SameBelowSiblings DEF Siblings, GensInv
  <2>5. SameBelow(m[2], r) /\ SameBelow(m[3], s)
    BY <1>2, <1>3, <2>3, <2>4 DEF PrunerAt
  <2>6. /\ r \in tree.nodes \ {Root} /\ Parent(r) = h
        /\ s \in tree.nodes \ {Root} /\ Parent(s) = h
    BY <2>3, <2>4, <2>5, KnownNodes, SameBelowSiblings DEF Siblings, GensInv
  <2>7. r \in Children(h) /\ s \in Children(h)
    BY <2>6, KnownNodes DEF IsTree, Children
  <2>8. forest[r] = r /\ forest[s] = s
    BY <1>2, <1>3, <2>3, <2>4, KnownNodes DEF SetsCut
  <2>9. keep \in {r, s}
    BY <2>1 DEF Keep
  <2>10. /\ forest' = Absorbed(keep, other) /\ PruneSubtree(other, {other})
         /\ UNCHANGED <<leafVars, implicit, pruner, chainVars>>
    BY <2>2, KnownNodes DEF Absorb, Absorbed, PruneVisited, chainVars, setup
  <2>11. (keep = r /\ other = s) \/ (keep = s /\ other = r)
    BY <2>2, <2>9
  <2>12. keep = Keep(keep, other, Held) \/ keep = Keep(other, keep, Held)
    BY <2>1, <2>11
  <2> QED
    BY <2>2, <2>7, <2>8, <2>10, <2>11, <2>12
<1> QED
  BY <1>4, <1>5

LEMMA MergedShape ==
  ASSUME BInv, NodesInv, cur = NoNode, NEW h \in tree.nodes, Finishes(h),
         NEW keep \in Children(h), NEW other \in Children(h),
         keep # other, forest[keep] = keep, forest[other] = other,
         forest \in [tree.nodes -> tree.nodes],
         forest' = Absorbed(keep, other), PruneSubtree(other, {other}), UNCHANGED implicit
  PROVE  ShapeInv'
<1>1. /\ keep \in tree.nodes \ {Root} /\ other \in tree.nodes \ {Root} /\ Parent(other) = h
  BY KnownNodes, ChildrenAreNodes
<1>2. /\ child_pruned' = child_pruned \cup {other} \cup
           {c \in tree.nodes : Above(other, c) /\ c # other /\ status[Parent(c)] = "live"}
      /\ tree' = tree
  BY DEF PruneSubtree
<1>3. \A c \in tree.nodes : forest'[c] = IF forest[c] = other THEN keep ELSE forest[c]
  BY <1>1 DEF Absorbed
<1>4. SetsCut'
  <2> SUFFICES ASSUME NEW c \in tree.nodes
               PROVE  forest'[forest'[c]] = forest'[c] /\ (forest'[c] # c => c \in child_pruned')
    BY <1>2 DEF SetsCut
  <2>1. /\ forest[forest[c]] = forest[c] /\ (forest[c] # c => c \in child_pruned)
        /\ forest[c] \in tree.nodes
    BY KnownNodes DEF SetsCut
  <2>2. CASE forest[c] = other
    <3>1. forest'[c] = keep /\ forest'[keep] = keep
      BY <1>1, <1>3, <2>2
    <3>2. c = other \/ c \in child_pruned
      BY <2>1, <2>2
    <3> QED
      BY <1>2, <3>1, <3>2
  <2>3. CASE forest[c] # other
    <3>1. forest'[c] = forest[c]
      BY <1>3, <2>3
    <3>2. forest'[forest[c]] = forest[c]
      BY <1>3, <2>1, <2>3
    <3> QED
      BY <1>2, <2>1, <3>1, <3>2
  <2> QED
    BY <2>2, <2>3
<1>5. {other} \in SUBSET {other} /\ status[Parent(other)] \in {"live", "pruned"}
  BY <1>1 DEF Finishes
<1> QED
  BY <1>1, <1>2, <1>4, <1>5, KnownNodes, ShapePruned

LEMMA PruneNodes ==
  ASSUME BInv, NodesInv, Prune
  PROVE  NodesInv'
<1>1. PICK t \in tree.nodes : PrunerAt(t) /\ (Idle \/ Finishes(t))
  BY DEF NodesInv, Updating
<1>2. ~Idle /\ cur = NoNode
  <2>1. ~Idle
    BY DEF Prune, Update, Merge
  <2> QED
    BY <2>1, KnownThere DEF InHand
<1>3. Finishes(t)
  BY <1>1, <1>2
<1>4. CASE Update(Held)
  <2>1. GensInv' /\ PrunerAt(t)'
    BY <1>1, <1>4, KnownNodes, UpdatePrunerAt
  <2>2. UNCHANGED <<tree, status, child_pruned, forest, implicit>>
    BY <1>4, KnownNodes DEF Update, UpdateVisited, treeVars, chainVars, setup
  <2>3. ShapeInv' /\ Finishes(t)'
    BY <1>3, <2>2, KnownNodes, ShapeKept DEF Finishes
  <2> QED
    BY <2>1, <2>2, <2>3 DEF NodesInv, Updating
<1>5. CASE Merge(Held)
  <2>1. GensInv' /\ PrunerAt(t)'
    BY <1>1, <1>5, KnownNodes, MergePrunerAt
  <2>2. PICK h : h = Highest
    OBVIOUS
  <2>3. h \in tree.nodes /\ Finishes(h)
    BY <1>1, <1>2, <1>3, <2>2, HighestFinishes
  <2>4. OnlyPrunes
    BY <1>2, <1>5, KnownNodes, UpdateOrMergeTree
  <2>5. Finishes(t)' /\ tree' = tree
    BY <1>3, <2>4, KnownNodes, OnlyPrunesStep DEF Finishes
  <2>6. ShapeInv'
    <3>1. CASE UNCHANGED <<treeVars, forest, chainVars>>
      BY <3>1, KnownNodes, ShapeKept DEF treeVars, chainVars, setup
    <3>2. CASE \E keep \in Children(h), other \in Children(h) :
              /\ keep # other /\ forest[keep] = keep /\ forest[other] = other
              /\ keep = Keep(keep, other, Held) \/ keep = Keep(other, keep, Held)
              /\ forest' = Absorbed(keep, other) /\ PruneSubtree(other, {other})
              /\ UNCHANGED <<leafVars, implicit, pruner, chainVars>>
      <4>1. forest \in [tree.nodes -> tree.nodes]
        BY <1>1 DEF PrunerAt
      <4> QED
        BY <1>2, <2>3, <3>2, <4>1, MergedShape
    <3> QED
      BY <1>1, <1>5, <2>2, <2>3, <3>1, <3>2, MergedSets
  <2> QED
    BY <2>1, <2>5, <2>6 DEF NodesInv, Updating
<1> QED
  BY <1>4, <1>5 DEF Prune

-----------------------------------------------------------------------------
(* What is on the stack, and what is reported.                             *)

(* The elements of the stack and the one that was popped: their children   *)
(* from next_child on have not been created.                               *)
Work == {stack[i] : i \in 1 .. Len(stack)} \cup (IF at = NoNode THEN {} ELSE {at})
NotYet(e) == \A c \in Children(e.node) : Last(c) >= e.next_child => status[c] = "absent"
Waiting ==
  /\ \A e \in Work : NotYet(e)
  /\ pc = "visit" => \A c \in Children(path) : status[c] = "absent"

(* The leaves that are kept have been reported: they are finished, and not *)
(* in hand any more.                                                       *)
KeptLeaves == {canon_leaf, canon_graph, extra_graph} \ {NoNode}
Reported ==
  /\ \A l \in KeptLeaves : Finishes(l)
  /\ pc \in {"visit", "extend"} => path # canon_leaf
  /\ \A e \in Work : e.node # canon_leaf

(* The stack is a branch of the tree below the end of the path.            *)
OnBranch ==
  pc = "dfs" =>
    /\ path \in dfs_roots
    /\ \A i \in 1 .. Len(stack) : /\ Above(path, stack[i].node)
                                  /\ Level(stack[i].node) = Level(path) + i - 1
    /\ at # NoNode => Above(path, at.node) /\ Level(at.node) = Level(path) + Len(stack)
    /\ cur # NoNode => Above(path, cur) /\ Level(cur) = Level(path) + Len(stack)

(* An element is popped before its ancestors are updated.                  *)
IdleBetween == pc = "dfs" /\ at = NoNode => Idle

WalkInv == Waiting /\ Reported /\ OnBranch /\ IdleBetween
GInv == BInv /\ NodesInv /\ WalkInv

LEMMA WorkElements ==
  ASSUME StackOK
  PROVE  /\ \A e \in Work : e \in Elems /\ e.node \in tree.nodes /\ e.next_child \in Nat
         /\ \A i \in 1 .. Len(stack) : stack[i] \in Work /\ stack[i] \in Elems
         /\ at # NoNode => at \in Work
         /\ stack = <<>> /\ at = NoNode => Work = {}
<1>1. ASSUME NEW i \in 1 .. Len(stack) PROVE stack[i] \in Elems
  BY ElementOf DEF StackOK
<1>2. at # NoNode => at \in Elems
  BY DEF StackOK
<1>3. stack = <<>> /\ at = NoNode => Work = {}
  BY DEF Work
<1> QED
  BY <1>1, <1>2, <1>3 DEF Work, Elems

LEMMA WaitingKept ==
  ASSUME BInv, Waiting, tree' = tree,
         \A t \in tree.nodes : status[t] = "absent" => status'[t] = "absent",
         Work' \subseteq Work, pc' = "visit" => pc = "visit" /\ path' = path
  PROVE  Waiting'
<1>1. ASSUME NEW e \in Work' PROVE NotYet(e)'
  <2>1. e \in Work /\ e.node \in tree.nodes /\ NotYet(e)
    BY <1>1, KnownThere, WorkElements DEF Waiting
  <2>2. \A c \in Children(e.node) : c \in tree.nodes
    BY <2>1, KnownThere, ChildrenAreNodes
  <2> QED
    BY <2>1, <2>2 DEF NotYet, Children
<1>2. ASSUME pc' = "visit" PROVE \A c \in Children(path)' : status'[c] = "absent"
  <2>0. PICK p : p = path
    OBVIOUS
  <2>1. p \in tree.nodes /\ pc = "visit" /\ path' = p
    BY <1>2, <2>0, KnownThere DEF Placed, InHand
  <2>2. \A c \in Children(p) : c \in tree.nodes
    BY <2>1, KnownThere, ChildrenAreNodes
  <2> QED
    BY <2>0, <2>1, <2>2 DEF Waiting, Children
<1> QED
  BY <1>1, <1>2 DEF Waiting

LEMMA NothingWaits ==
  ASSUME Work' = {}, pc' # "visit"
  PROVE  Waiting'
BY DEF Waiting

LEMMA ReportedKept ==
  ASSUME BInv, Reported, tree' = tree, \A t \in tree.nodes : Finishes(t) => Finishes(t)',
         KeptLeaves' \subseteq KeptLeaves, canon_leaf' \in {canon_leaf, NoNode}, Work' \subseteq Work,
         pc' \in {"visit", "extend"} => pc \in {"visit", "extend"} /\ path' = path
  PROVE  Reported'
<1>1. ASSUME NEW l \in KeptLeaves' PROVE Finishes(l)'
  BY <1>1, KnownThere DEF Reported, KeptLeaves, ControlTypeOK
<1>2. NoNode \notin tree.nodes
  BY KnownThere DEF TreeInv, Input
<1>3. pc \in {"visit", "extend"} => path # NoNode
  BY KnownThere DEF InHand
<1>4. \A e \in Work : e.node \in tree.nodes
  BY KnownThere, WorkElements
<1> QED
  BY <1>1, <1>2, <1>3, <1>4 DEF Reported

LEMMA BranchKept ==
  ASSUME OnBranch, pc' = "dfs" => pc = "dfs", UNCHANGED <<path, stack, dfs_roots>>,
         at' \in {at, NoNode}, cur' \in {cur, NoNode}
  PROVE  OnBranch'
BY DEF OnBranch, Above, Level

LEMMA NoBranch ==
  ASSUME pc' # "dfs"
  PROVE  OnBranch' /\ IdleBetween'
BY DEF OnBranch, IdleBetween

(* What the pruner does to the nodes.                                      *)
LEMMA StillFinished ==
  ASSUME TreeInv, OnlyPrunes
  PROVE  /\ tree' = tree /\ cur = NoNode /\ cur' = NoNode
         /\ \A t \in tree.nodes : status[t] = "absent" => status'[t] = "absent"
         /\ \A t \in tree.nodes : Finishes(t) => Finishes(t)'
<1>1. /\ tree' = tree /\ cur' = NoNode
      /\ \A t \in tree.nodes :
           /\ status'[t] = "live" => status[t] = "live"
           /\ status[t] # "live" => status'[t] = status[t]
           /\ status[t] \in {"live", "pruned"} <=> status'[t] \in {"live", "pruned"}
  BY OnlyPrunesStep
<1>2. cur = NoNode
  BY DEF OnlyPrunes
<1> QED
  BY <1>1, <1>2 DEF Finishes

LEMMA SameLeaves ==
  ASSUME UNCHANGED treeVars
  PROVE  /\ UNCHANGED <<tree, status, cur, canon_leaf, canon_graph, extra_graph>> /\ KeptLeaves' = KeptLeaves
         /\ \A t : Finishes(t) => Finishes(t)'
BY DEF treeVars, leafVars, KeptLeaves, Finishes

LEMMA SameLeavesKept ==
  ASSUME UNCHANGED leafVars
  PROVE  KeptLeaves' = KeptLeaves /\ canon_leaf' = canon_leaf
BY DEF leafVars, KeptLeaves

LEMMA SameWork ==
  ASSUME UNCHANGED <<stack, at>>
  PROVE  Work' = Work
BY DEF Work

LEMMA KnownWalk ==
  ASSUME GInv
  PROVE  /\ BInv /\ NodesInv /\ Waiting /\ Reported /\ OnBranch /\ IdleBetween
         /\ pc # "dfs" => Work = {}
<1>1. pc # "dfs" => Work = {}
  BY KnownThere, WorkElements DEF GInv, InHand
<1> QED
  BY <1>1 DEF GInv, WalkInv

-----------------------------------------------------------------------------

LEMMA RefineWalk ==
  ASSUME GInv, Refine
  PROVE  WalkInv'
<1>1. /\ Construct
      /\ UNCHANGED <<pc, path, stack, at, dfs_roots, t_path>>
  BY DEF Refine, Constructing, bfsVars, loopVars, workVars, prunerVars
<1>2. /\ cur # NoNode /\ cur \in tree.nodes /\ tree' = tree
      /\ \/ UNCHANGED <<status, cur>>
         \/ /\ cur' = NoNode
            /\ status' = [status EXCEPT ![cur] = "pruned"]
      /\ canon_leaf' \in {canon_leaf, NoNode} /\ UNCHANGED <<canon_graph, extra_graph>>
  BY <1>1, KnownWalk, KnownThere, ConstructStatus
<1>3. status[cur] = "constructing" /\ status \in [tree.nodes -> {"absent", "constructing", "live", "pruned"}]
  BY <1>2, KnownWalk, KnownNodes DEF ControlTypeOK
<1>4. /\ \A t \in tree.nodes : status[t] = "absent" => status'[t] = "absent"
      /\ \A t \in tree.nodes : Finishes(t) => Finishes(t)'
  BY <1>2, <1>3 DEF Finishes
<1>5. KeptLeaves' \subseteq KeptLeaves
  BY <1>2 DEF KeptLeaves
<1>6. Work' = Work /\ cur' \in {cur, NoNode}
  BY <1>1, <1>2, SameWork
<1>7. IdleBetween'
  BY <1>1, KnownWalk DEF IdleBetween, Idle
<1> QED
  BY <1>1, <1>2, <1>4, <1>5, <1>6, <1>7, KnownWalk, WaitingKept, ReportedKept, BranchKept DEF WalkInv

(* Steps that leave the nodes and the stack alone.                         *)
LEMMA UnmovedWalk ==
  ASSUME GInv, UNCHANGED <<treeVars, dfs_roots, stack>>, at' \in {at, NoNode},
         pc' = "dfs" => pc = "dfs" /\ path' = path /\ t_path' = t_path /\ (at' = at \/ Idle),
         pc' = "visit" => pc = "visit" /\ path' = path,
         pc' = "extend" => pc \in {"visit", "extend"} /\ path' = path
  PROVE  WalkInv'
<1>1. /\ UNCHANGED <<tree, status, cur, canon_leaf>> /\ KeptLeaves' = KeptLeaves
      /\ \A t : Finishes(t) => Finishes(t)'
  BY SameLeaves
<1>2. Work' \subseteq Work
  BY DEF Work
<1>3. Waiting' /\ Reported'
  BY <1>1, <1>2, KnownWalk, WaitingKept, ReportedKept
<1>4. OnBranch'
  BY <1>1, KnownWalk, BranchKept, NoBranch
<1>5. IdleBetween'
  BY KnownWalk DEF IdleBetween, Idle
<1> QED
  BY <1>3, <1>4, <1>5 DEF WalkInv

(* Steps that prune.                                                       *)
LEMMA PruneWalk ==
  ASSUME GInv, Prune
  PROVE  WalkInv'
<1>1. /\ ~Idle /\ (Update(Held) \/ Merge(Held)) /\ UNCHANGED <<pc, path, stack, at, dfs_roots>>
  BY DEF Prune, Update, Merge, loopVars, workVars
<1>2. cur = NoNode
  BY <1>1, KnownWalk, KnownThere DEF InHand
<1>3. OnlyPrunes
  BY <1>1, <1>2, KnownWalk, KnownThere, UpdateOrMergeTree
<1>4. UNCHANGED leafVars
  BY <1>1 DEF Update, Merge, Absorb, treeVars
<1>5. Work' = Work
  BY <1>1, SameWork
<1>6. IdleBetween'
  BY <1>1, KnownWalk DEF IdleBetween
<1> QED
  BY <1>1, <1>3, <1>4, <1>5, <1>6, KnownWalk, KnownThere, StillFinished, SameLeavesKept, WaitingKept,
     ReportedKept, BranchKept DEF WalkInv

LEMMA BeforeLeaves ==
  ASSUME NEW t, BeforeDescend(t)
  PROVE  KeptLeaves' \subseteq KeptLeaves /\ canon_leaf' \in {canon_leaf, NoNode}
<1>1. /\ canon_leaf' \in {canon_leaf, NoNode} /\ UNCHANGED <<canon_graph, extra_graph>>
  BY DEF BeforeDescend, PruneCanonLeafBelow, PruneCanonLeaf, treeVars, leafVars
<1> QED
  BY <1>1 DEF KeptLeaves

LEMMA BeforeWalk ==
  ASSUME GInv, cur = NoNode, NEW t \in tree.nodes, status[t] # "absent", BeforeDescend(t),
         Work' = {}, pc' \notin {"dfs", "visit"}, pc' = "extend" => pc \in {"visit", "extend"} /\ path' = path
  PROVE  WalkInv'
<1>1. status[t] \in {"live", "pruned"}
  BY KnownWalk, KnownThere, FinishedNode
<1>2. OnlyPrunes
  BY <1>1, KnownWalk, KnownThere, BeforeDescendTree
<1> QED
  BY <1>2, KnownWalk, KnownThere, StillFinished, BeforeLeaves, NothingWaits, ReportedKept, NoBranch
     DEF WalkInv

(* A child is created, while nothing is on the stack.                      *)
LEMMA BegunWalk ==
  ASSUME GInv, cur = NoNode, NEW c \in tree.nodes, status[c] = "absent", CreateBegin(c),
         Work' = {}, pc' \notin {"dfs", "visit"}, pc' = "extend" => pc \in {"visit", "extend"} /\ path' = path
  PROVE  WalkInv'
<1>1. /\ tree' = tree /\ status' = [status EXCEPT ![c] = "constructing"] /\ UNCHANGED leafVars
  BY DEF CreateBegin
<1>2. status \in [tree.nodes -> {"absent", "constructing", "live", "pruned"}]
  BY KnownWalk, KnownNodes DEF ControlTypeOK
<1>3. \A t \in tree.nodes : Finishes(t) => Finishes(t)'
  BY <1>1, <1>2 DEF Finishes
<1> QED
  BY <1>1, <1>3, KnownWalk, SameLeavesKept, NothingWaits, ReportedKept, NoBranch DEF WalkInv

LEMMA CreatedWalk ==
  ASSUME GInv, Created
  PROVE  WalkInv'
<1>0. PICK t : t = cur
  OBVIOUS
<1>1. /\ pc # "dfs" /\ pc' = "visit" /\ path' = t /\ UNCHANGED <<stack, at>> /\ UNCHANGED leafVars
      /\ tree' = tree /\ status' = [status EXCEPT ![t] = "live"] /\ t # NoNode
  BY <1>0 DEF Created, NodeFinished, CreateLive, Emitted, workVars
<1>2. /\ t \in tree.nodes /\ status[t] = "constructing"
      /\ status \in [tree.nodes -> {"absent", "constructing", "live", "pruned"}]
  BY <1>0, <1>1, KnownWalk, KnownNodes DEF ControlTypeOK
<1>3. \A s \in tree.nodes : Finishes(s) => Finishes(s)' /\ s # t
  BY <1>1, <1>2 DEF Finishes
<1>4. Work' = {} /\ KeptLeaves' = KeptLeaves /\ canon_leaf' = canon_leaf
  BY <1>1, KnownWalk, SameWork, SameLeavesKept
<1>5. Waiting'
  <2>1. ASSUME NEW c \in Children(t) PROVE status'[c] = "absent"
    <3>1. c \in tree.nodes \ {Root} /\ Parent(c) = t /\ c # t /\ Above(t, c)
      BY <1>2, KnownWalk, KnownNodes, ChildrenAreNodes, ChildAbove
    <3>2. status[c] = "absent"
      BY <1>2, <3>1, KnownWalk, KnownNodes DEF FinishedAbove
    <3> QED
      BY <1>1, <1>2, <3>1, <3>2
  <2> QED
    BY <1>1, <1>4, <2>1 DEF Waiting, Children
<1>6. Reported'
  <2>1. ASSUME NEW l \in KeptLeaves PROVE l \in tree.nodes /\ Finishes(l)' /\ l # t
    <3>1. l \in tree.nodes /\ Finishes(l)
      BY <2>1, KnownWalk, KnownThere DEF Reported, KeptLeaves, ControlTypeOK
    <3> QED
      BY <1>3, <3>1
  <2>2. t # canon_leaf
    BY <1>1, <2>1 DEF KeptLeaves
  <2> QED
    BY <1>1, <1>4, <2>1, <2>2 DEF Reported
<1> QED
  BY <1>1, <1>5, <1>6, NoBranch DEF WalkInv

LEMMA StartDFSWalk ==
  ASSUME GInv, StartDFS
  PROVE  WalkInv'
<1>0. PICK t : t = path
  OBVIOUS
<1>1. /\ UNCHANGED treeVars /\ pc = "visit" /\ cur = NoNode /\ stack' = <<Elem(t, 0)>>
      /\ dfs_roots' = dfs_roots \cup {t} /\ pc' = "dfs" /\ path' = t /\ at' = at
      /\ Idle /\ t_path' = t_path
  BY <1>0 DEF StartDFS, nodeVars, Free, prunerVars
<1>2. t \in tree.nodes /\ at = NoNode /\ t # canon_leaf
      /\ \A c \in Children(t) : status[c] = "absent"
  BY <1>0, <1>1, KnownWalk, KnownThere DEF Placed, InHand, Waiting, Reported
<1>3. PICK e \in Elems : e = Elem(t, 0)
  BY <1>2 DEF Elem, Elems
<1>4. e.node = t /\ e.next_child = 0
  BY <1>3 DEF Elem
<1>5. Len(stack') = 1 /\ stack'[1] = e
  BY <1>1, <1>3
<1>6. Work' = {e}
  <2>1. \A i \in 1 .. Len(stack') : i = 1
    BY <1>5
  <2>2. 1 \in 1 .. Len(stack')
    BY <1>5
  <2> QED
    BY <1>1, <1>2, <1>5, <2>1, <2>2 DEF Work
<1>7. /\ UNCHANGED <<tree, status, cur, canon_leaf>> /\ KeptLeaves' = KeptLeaves
      /\ \A s : Finishes(s) => Finishes(s)'
  BY <1>1, SameLeaves
<1>8. Waiting'
  BY <1>1, <1>2, <1>4, <1>6, <1>7 DEF Waiting, NotYet, Children
<1>9. Reported'
  BY <1>1, <1>2, <1>4, <1>6, <1>7, KnownWalk DEF Reported
<1>10. OnBranch'
  <2>1. Above(t, t) /\ Level(t) \in Nat
    BY <1>2, KnownWalk, KnownNodes, AboveOn, PathLength
  <2>2. \A i \in 1 .. Len(stack') : stack'[i].node = t /\ Level(t) = Level(t) + i - 1
    BY <1>4, <1>5, <2>1
  <2>3. at' = NoNode /\ cur' = NoNode
    BY <1>1, <1>2, <1>7
  <2>4. \A i \in 1 .. Len(stack') : /\ Above(t, stack'[i].node)
                                    /\ Level(stack'[i].node) = Level(t) + i - 1
    BY <2>1, <2>2
  <2> QED
    BY <1>1, <2>3, <2>4 DEF OnBranch, Level, Above
<1>11. IdleBetween'
  BY <1>1 DEF IdleBetween, Idle
<1> QED
  BY <1>8, <1>9, <1>10, <1>11 DEF WalkInv

(* A leaf is reported: it may be the candidate after that.                 *)
LEMMA ReportedLeaf ==
  ASSUME GInv, cur = NoNode, NEW t \in tree.nodes, UpToDate(t), ReportVisited(t, Held),
         Work' \subseteq Work, \A e \in Work' : e.node # t, pc' \notin {"visit", "extend"}
  PROVE  Waiting' /\ Reported'
<1>1. OnlyPrunes /\ canon_leaf' \in {canon_leaf, t}
  BY KnownWalk, KnownThere, ReportTree
<1>2. /\ tree' = tree
      /\ \A s \in tree.nodes : status[s] = "absent" => status'[s] = "absent"
      /\ \A s \in tree.nodes : Finishes(s) => Finishes(s)'
  BY <1>1, KnownWalk, KnownThere, StillFinished
<1>3. {canon_leaf', canon_graph', extra_graph'} \subseteq {canon_leaf, canon_graph, extra_graph, t}
  BY DEF ReportVisited, ReportLeaf, Reference
<1>4. Finishes(t)
  BY DEF UpToDate, Finishes
<1>5. ASSUME NEW l \in KeptLeaves' PROVE Finishes(l)'
  <2>1. l \in KeptLeaves \cup {t}
    BY <1>3, <1>5 DEF KeptLeaves
  <2>2. l \in tree.nodes /\ Finishes(l)
    BY <1>4, <2>1, KnownWalk, KnownThere DEF Reported, KeptLeaves, ControlTypeOK
  <2> QED
    BY <1>2, <2>2
<1>6. \A e \in Work' : e.node # canon_leaf'
  BY <1>1, KnownWalk DEF Reported
<1>7. Waiting'
  BY <1>2, KnownWalk, WaitingKept
<1>8. Reported'
  BY <1>5, <1>6 DEF Reported
<1> QED
  BY <1>7, <1>8

LEMMA ReportPathWalk ==
  ASSUME GInv, ReportPath
  PROVE  WalkInv'
<1>1. /\ pc = "extend" /\ cur = NoNode /\ ReportVisited(path, Held) /\ pc' \in {"load", "loop"}
      /\ UNCHANGED <<stack, at>>
  BY DEF ReportPath, Free, EndPath, workVars
<1>2. PICK t : t = path
  OBVIOUS
<1>3. t \in tree.nodes /\ UpToDate(t)
  BY <1>1, <1>2, KnownWalk, KnownThere DEF Placed, InHand, Current
<1>4. Work' = {}
  BY <1>1, KnownWalk, SameWork
<1> QED
  BY <1>1, <1>2, <1>3, <1>4, ReportedLeaf, NoBranch DEF WalkInv

-----------------------------------------------------------------------------
(* The stack.                                                              *)

LEMMA StackAppended ==
  ASSUME StackOK, NEW e \in Elems, stack' = Append(stack, e)
  PROVE  /\ Len(stack) \in Nat /\ Len(stack') = Len(stack) + 1 /\ stack'[Len(stack) + 1] = e
         /\ \A i \in 1 .. Len(stack) : stack'[i] = stack[i]
         /\ \A i \in 1 .. Len(stack') : i \in 1 .. Len(stack) \/ i = Len(stack) + 1
         /\ Work' \subseteq {stack[i] : i \in 1 .. Len(stack)} \cup {e}
                              \cup (IF at' = NoNode THEN {} ELSE {at'})
<1>1. /\ Len(stack) \in Nat /\ Len(stack') = Len(stack) + 1 /\ stack'[Len(stack) + 1] = e
      /\ \A i \in 1 .. Len(stack) : stack'[i] = stack[i]
  BY DEF StackOK
<1>2. \A i \in 1 .. Len(stack') : i \in 1 .. Len(stack) \/ i = Len(stack) + 1
  BY <1>1
<1>3. \A i \in 1 .. Len(stack') : stack'[i] \in {stack[j] : j \in 1 .. Len(stack)} \cup {e}
  BY <1>1, <1>2
<1> QED
  BY <1>1, <1>2, <1>3 DEF Work

LEMMA StackPopped ==
  ASSUME StackOK, stack # <<>>, at' = stack[Len(stack)], stack' = SubSeq(stack, 1, Len(stack) - 1)
  PROVE  /\ Len(stack) \in Nat /\ Len(stack) >= 1 /\ Len(stack') = Len(stack) - 1
         /\ Len(stack) \in 1 .. Len(stack)
         /\ \A i \in 1 .. Len(stack') : i \in 1 .. Len(stack) /\ stack'[i] = stack[i]
         /\ Work' \subseteq Work /\ at' \in Work
<1> DEFINE n == Len(stack)
<1>0. n \in Nat /\ n >= 1 /\ n - 1 \in Nat /\ n - 1 <= n /\ n \in 1 .. n /\ n - 1 \in 0 .. n
      /\ stack \in Seq(Elems) /\ \A i \in 1 .. n - 1 : i \in 1 .. n
  BY DEF StackOK
<1> HIDE DEF n
<1>4. Len(SubSeq(stack, 1, n - 1)) = n - 1
  BY <1>0, Prefix DEF n
<1>5. \A i \in 1 .. n - 1 : SubSeq(stack, 1, n - 1)[i] = stack[i]
  BY <1>0, PrefixElements DEF n
<1>1. /\ Len(stack) \in Nat /\ Len(stack) >= 1 /\ Len(stack') = Len(stack) - 1
      /\ Len(stack) \in 1 .. Len(stack)
      /\ \A i \in 1 .. Len(stack') : i \in 1 .. Len(stack) /\ stack'[i] = stack[i]
  BY <1>0, <1>4, <1>5 DEF n
<1>2. \A i \in 1 .. Len(stack) : stack[i] \in Work
  BY DEF Work
<1>3. Work' \subseteq Work /\ at' \in Work
  BY <1>1, <1>2 DEF Work
<1> QED
  BY <1>1, <1>3

LEMMA PushWalk ==
  ASSUME GInv, Push, pc = "dfs", pc' = "dfs", UNCHANGED <<path, dfs_roots>>
  PROVE  WalkInv'
<1>0. PICK t : t = cur
  OBVIOUS
<1>1. /\ stack' = Append(stack, Elem(t, 0)) /\ at' = at /\ UNCHANGED leafVars
      /\ tree' = tree /\ status' = [status EXCEPT ![t] = "live"] /\ t # NoNode /\ cur' = NoNode
      /\ t_path' = t_path
  BY <1>0 DEF Push, NodeFinished, CreateLive, Emitted, prunerVars
<1>2. /\ t \in tree.nodes /\ status[t] = "constructing" /\ at = NoNode /\ Idle
      /\ status \in [tree.nodes -> {"absent", "constructing", "live", "pruned"}]
  BY <1>0, <1>1, KnownWalk, KnownNodes, KnownThere DEF ControlTypeOK, InHand
<1>3. /\ \A s \in tree.nodes : Finishes(s) => Finishes(s)' /\ s # t
      /\ \A s \in tree.nodes : status[s] = "absent" => status'[s] = "absent"
  BY <1>1, <1>2 DEF Finishes
<1>12. PICK e \in Elems : e = Elem(t, 0)
  BY <1>2 DEF Elem, Elems
<1>4. e \in Elems /\ e = Elem(t, 0) /\ e.node = t
  BY <1>12 DEF Elem
<1>5. /\ Len(stack) \in Nat /\ Len(stack') = Len(stack) + 1 /\ stack'[Len(stack) + 1] = e
      /\ \A i \in 1 .. Len(stack) : stack'[i] = stack[i]
      /\ \A i \in 1 .. Len(stack') : i \in 1 .. Len(stack) \/ i = Len(stack) + 1
      /\ Work' \subseteq {stack[i] : i \in 1 .. Len(stack)} \cup {e}
  BY <1>1, <1>2, <1>4, KnownWalk, KnownThere, StackAppended
<1>6. Work' \subseteq Work \cup {e}
  BY <1>5 DEF Work
<1>7. \A c \in Children(t) : status'[c] = "absent"
  <2> SUFFICES ASSUME NEW c \in Children(t) PROVE status'[c] = "absent"
    OBVIOUS
  <2>1. c \in tree.nodes \ {Root} /\ Parent(c) = t /\ c # t /\ Above(t, c)
    BY <1>2, KnownWalk, KnownNodes, ChildrenAreNodes, ChildAbove
  <2>2. status[c] = "absent"
    BY <1>2, <2>1, KnownWalk, KnownNodes DEF FinishedAbove
  <2> QED
    BY <1>3, <2>1, <2>2
<1>8. ASSUME NEW x \in Work' PROVE NotYet(x)' /\ x.node # canon_leaf'
  <2>1. CASE x = e
    <3>1. NotYet(x)'
      BY <1>1, <1>4, <1>7, <2>1 DEF NotYet, Children
    <3>2. canon_leaf # t
      <4>1. canon_leaf # NoNode => canon_leaf \in tree.nodes /\ Finishes(canon_leaf)
        BY KnownWalk, KnownThere DEF Reported, KeptLeaves, ControlTypeOK
      <4> QED
        BY <1>1, <1>3, <4>1
    <3> QED
      BY <1>1, <1>4, <2>1, <3>1, <3>2 DEF leafVars
  <2>2. CASE x \in Work
    <3>1. NotYet(x) /\ x.node \in tree.nodes /\ x.node # canon_leaf
      BY <2>2, KnownWalk, KnownThere, WorkElements DEF Waiting, Reported
    <3>2. \A c \in Children(x.node) : c \in tree.nodes
      BY <3>1, KnownWalk, KnownThere, ChildrenAreNodes
    <3> QED
      BY <1>1, <1>3, <3>1, <3>2 DEF NotYet, Children, leafVars
  <2> QED
    BY <1>6, <1>8, <2>1, <2>2
<1>9. Waiting'
  BY <1>8 DEF Waiting
<1>10. Reported'
  <2>1. KeptLeaves' = KeptLeaves
    BY <1>1, SameLeavesKept
  <2>2. \A l \in KeptLeaves : Finishes(l)'
    BY <1>3, KnownWalk, KnownThere DEF Reported, KeptLeaves, ControlTypeOK
  <2> QED
    BY <1>8, <2>1, <2>2 DEF Reported
<1>11. OnBranch'
  <2>1. /\ path \in dfs_roots /\ Above(path, t) /\ Level(t) = Level(path) + Len(stack)
        /\ \A i \in 1 .. Len(stack) : /\ Above(path, stack[i].node)
                                      /\ Level(stack[i].node) = Level(path) + i - 1
    BY <1>0, <1>1, KnownWalk DEF OnBranch
  <2>2. PICK p : p = path
    OBVIOUS
  <2>3. p \in tree.nodes /\ Level(p) \in Nat
    BY <2>2, KnownWalk, KnownThere, KnownNodes, PathLength DEF Placed, InHand
  <2>4. ASSUME NEW i \in 1 .. Len(stack')
        PROVE  Above(p, stack'[i].node) /\ Level(stack'[i].node) = Level(p) + i - 1
    <3>1. CASE i \in 1 .. Len(stack)
      BY <1>5, <2>1, <2>2, <3>1
    <3>2. CASE i = Len(stack) + 1
      <4>1. stack'[i].node = t
        BY <1>4, <1>5, <3>2
      <4>2. Level(p) + i - 1 = Level(p) + Len(stack)
        BY <1>5, <2>3, <3>2
      <4> QED
        BY <2>1, <2>2, <4>1, <4>2
    <3> QED
      BY <1>5, <3>1, <3>2
  <2>5. at' = NoNode /\ cur' = NoNode /\ path' = p /\ dfs_roots' = dfs_roots
    BY <1>1, <1>2, <2>2
  <2> QED
    BY <2>1, <2>2, <2>4, <2>5 DEF OnBranch, Level, Above
<1> QED
  BY <1>1, <1>2, <1>9, <1>10, <1>11 DEF WalkInv, IdleBetween, Idle

LEMMA PopWalk ==
  ASSUME GInv, Pop, pc = "dfs", pc' = "dfs", UNCHANGED <<path, dfs_roots>>
  PROVE  WalkInv'
<1>0. PICK t : t = at'.node
  OBVIOUS
<1>1. /\ cur = NoNode /\ stack # <<>> /\ at' = stack[Len(stack)]
      /\ stack' = SubSeq(stack, 1, Len(stack) - 1) /\ BeforeDescend(t)
  BY <1>0 DEF Pop
<1>2. /\ Len(stack) \in Nat /\ Len(stack) >= 1 /\ Len(stack') = Len(stack) - 1
      /\ Len(stack) \in 1 .. Len(stack)
      /\ \A i \in 1 .. Len(stack') : i \in 1 .. Len(stack) /\ stack'[i] = stack[i]
      /\ Work' \subseteq Work /\ at' \in Work
  BY <1>1, KnownWalk, KnownThere, StackPopped
<1>3. t \in tree.nodes /\ t \in Working /\ status[t] # "absent"
  <2>1. t \in Working
    BY <1>0, <1>1, <1>2, KnownWalk, KnownThere, WorkingNodes
  <2> QED
    BY <2>1, KnownWalk, KnownThere, WorkingNodes DEF Appeared, Pointed
<1>4. status[t] \in {"live", "pruned"}
  BY <1>1, <1>3, KnownWalk, KnownThere, FinishedNode
<1>5. OnlyPrunes
  BY <1>1, <1>3, <1>4, KnownWalk, KnownThere, BeforeDescendTree
<1>6. Waiting' /\ Reported'
  BY <1>1, <1>2, <1>5, KnownWalk, KnownThere, StillFinished, BeforeLeaves, WaitingKept, ReportedKept
<1>7. OnBranch'
  <2>1. PICK p : p = path
    OBVIOUS
  <2>2. p \in tree.nodes /\ Level(p) \in Nat
    BY <2>1, KnownWalk, KnownThere, KnownNodes, PathLength DEF Placed, InHand
  <2>3. /\ p \in dfs_roots
        /\ \A i \in 1 .. Len(stack) : /\ Above(p, stack[i].node)
                                      /\ Level(stack[i].node) = Level(p) + i - 1
    BY <2>1, KnownWalk DEF OnBranch
  <2>4. /\ Above(p, at'.node) /\ Level(at'.node) = Level(p) + Len(stack')
        /\ \A i \in 1 .. Len(stack') : /\ Above(p, stack'[i].node)
                                       /\ Level(stack'[i].node) = Level(p) + i - 1
    <3>1. Above(p, at'.node) /\ Level(at'.node) = Level(p) + Len(stack) - 1
      BY <1>1, <1>2, <2>3
    <3>2. Level(p) + Len(stack) - 1 = Level(p) + Len(stack')
      BY <1>2, <2>2
    <3> QED
      BY <1>2, <2>3, <3>1, <3>2
  <2>5. cur' = NoNode /\ path' = p /\ dfs_roots' = dfs_roots
    BY <1>5, <2>1, KnownWalk, KnownThere, StillFinished
  <2> QED
    BY <2>3, <2>4, <2>5 DEF OnBranch, Level, Above
<1>8. IdleBetween'
  <2>1. at' \in Elems
    BY <1>1, <1>2, KnownWalk, KnownThere, WorkElements
  <2>2. at' # NoNode
    BY <2>1, KnownWalk, KnownNodes, NothingPoppedAssumption DEF Elems, Symmetric
  <2> QED
    BY <2>2 DEF IdleBetween
<1> QED
  BY <1>6, <1>7, <1>8 DEF WalkInv

(* The elements below the one that was popped are of other nodes.          *)
LEMMA OthersOnStack ==
  ASSUME GInv, pc = "dfs", NEW t, t = at.node, at # NoNode, NEW i \in 1 .. Len(stack)
  PROVE  stack[i].node # t
<1>1. PICK p : p = path
  OBVIOUS
<1>2. p \in tree.nodes /\ Level(p) \in Nat
  BY <1>1, KnownWalk, KnownThere, KnownNodes, PathLength DEF Placed, InHand
<1>3. /\ Level(stack[i].node) = Level(p) + i - 1 /\ Level(t) = Level(p) + Len(stack)
      /\ Len(stack) \in Nat
  BY <1>1, KnownWalk, KnownThere DEF OnBranch, StackOK
<1> QED
  BY <1>2, <1>3

LEMMA DescendWalk ==
  ASSUME GInv, Descend(Held), pc = "dfs", pc' = "dfs", UNCHANGED <<path, dfs_roots>>
  PROVE  WalkInv' /\ NodesInv'
<1>0. PICK t : t = at.node
  OBVIOUS
<1>1. at # NoNode /\ Idle /\ status[t] # "pruned" /\ at' = NoNode
  BY <1>0 DEF Descend, Go, Ready
<1>2. PICK c \in Candidates(Held) :
        stack' = Append(stack, Resume(c)) /\ CreateBegin(c) /\ CountChild(c)
        /\ \A d \in Candidates(Held) : c[Len(c)] <= d[Len(d)]
  BY DEF Descend
<1>3. /\ cur = NoNode /\ t \in tree.nodes /\ t \in Working /\ status[t] # "absent" /\ ~Outdated(t)
      /\ at \in Work /\ at \in Elems /\ NotYet(at) /\ t # canon_leaf
  <2>1. cur = NoNode
    BY <1>1, KnownWalk, KnownThere DEF InHand
  <2>2. t \in Working
    BY <1>0, <1>1, KnownWalk, KnownThere, WorkingNodes
  <2>3. at \in Work /\ at \in Elems
    BY <1>1, KnownWalk, KnownThere, WorkElements
  <2> QED
    BY <1>0, <1>1, <2>1, <2>2, <2>3, KnownWalk, KnownThere, WorkingNodes
       DEF Appeared, Pointed, Current, Waiting, Reported
<1>4. status[t] = "live" /\ c \in Children(t) /\ c \notin child_pruned
      /\ c[Len(c)] >= at.next_child
  BY <1>0, <1>1, <1>2, <1>3, KnownWalk, KnownThere, FinishedNode DEF Candidates, Flagged
<1>5. /\ c \in tree.nodes \ {Root} /\ Parent(c) = t /\ Level(c) = Level(t) + 1 /\ Above(t, c)
      /\ Last(c) = c[Len(c)] /\ Last(c) \in Nat
  BY <1>3, <1>4, KnownWalk, KnownNodes, ChildrenAreNodes, ChildAbove
<1>6. status[c] = "absent"
  BY <1>0, <1>3, <1>4, <1>5 DEF NotYet
<1>7. NodesInv'
  BY <1>1, <1>2, <1>3, <1>4, <1>6, KnownWalk, BegunNodes
<1>8. /\ tree' = tree /\ status' = [status EXCEPT ![c] = "constructing"] /\ UNCHANGED leafVars
      /\ cur' = c
  BY <1>2 DEF CreateBegin
<1>9. status \in [tree.nodes -> {"absent", "constructing", "live", "pruned"}]
  BY KnownWalk, KnownNodes DEF ControlTypeOK
<1>10. /\ \A s \in tree.nodes : Finishes(s) => Finishes(s)'
       /\ \A s \in tree.nodes : s # c /\ status[s] = "absent" => status'[s] = "absent"
  BY <1>6, <1>8, <1>9 DEF Finishes
<1>11. PICK k \in Nat : k = Last(c) + 1
  BY <1>5
<1>12. PICK e \in Elems : e = Elem(t, k)
  BY <1>3 DEF Elem, Elems
<1>13. e = Resume(c) /\ e.node = t /\ e.next_child = k
  BY <1>0, <1>5, <1>11, <1>12 DEF Resume, Elem
<1>14. /\ Len(stack) \in Nat /\ Len(stack') = Len(stack) + 1 /\ stack'[Len(stack) + 1] = e
       /\ \A i \in 1 .. Len(stack) : stack'[i] = stack[i]
       /\ \A i \in 1 .. Len(stack') : i \in 1 .. Len(stack) \/ i = Len(stack) + 1
       /\ Work' \subseteq {stack[i] : i \in 1 .. Len(stack)} \cup {e}
  BY <1>1, <1>2, <1>13, KnownWalk, KnownThere, StackAppended
<1>15. ASSUME NEW x \in Work' PROVE NotYet(x)' /\ x.node # canon_leaf'
  <2>1. CASE x = e
    <3>1. ASSUME NEW b \in Children(t), Last(b) >= k PROVE status'[b] = "absent"
      <4>1. b \in tree.nodes /\ Last(b) \in Nat
        BY <1>3, <3>1, KnownWalk, KnownNodes, ChildrenAreNodes
      <4>2. at.next_child \in Nat
        BY <1>3, KnownWalk, KnownThere, WorkElements
      <4>3. Last(b) >= at.next_child /\ b # c
        BY <1>4, <1>5, <1>11, <3>1, <4>1, <4>2
      <4>4. status[b] = "absent"
        BY <1>0, <1>3, <3>1, <4>3 DEF NotYet
      <4> QED
        BY <1>10, <4>1, <4>3, <4>4
    <3> QED
      BY <1>3, <1>8, <1>13, <2>1, <3>1 DEF NotYet, Children, leafVars
  <2>2. CASE x \in {stack[i] : i \in 1 .. Len(stack)}
    <3>1. PICK i \in 1 .. Len(stack) : x = stack[i]
      BY <2>2
    <3>2. NotYet(x) /\ x.node \in tree.nodes /\ x.node # canon_leaf /\ x.node # t
      BY <1>0, <1>1, <3>1, KnownWalk, KnownThere, WorkElements, OthersOnStack DEF Waiting, Reported
    <3>3. \A b \in Children(x.node) : b \in tree.nodes /\ Parent(b) = x.node
      BY <3>2, KnownWalk, KnownNodes, ChildrenAreNodes
    <3>4. \A b \in Children(x.node) : b # c
      BY <1>5, <3>2, <3>3
    <3>5. \A b \in Children(x.node) : Last(b) >= x.next_child => status'[b] = "absent"
      BY <1>10, <3>2, <3>3, <3>4 DEF NotYet
    <3> QED
      BY <1>8, <3>2, <3>5 DEF NotYet, Children, leafVars
  <2> QED
    BY <1>14, <1>15, <2>1, <2>2
<1>16. Waiting'
  BY <1>15 DEF Waiting
<1>17. Reported'
  <2>1. KeptLeaves' = KeptLeaves
    BY <1>8, SameLeavesKept
  <2>2. \A l \in KeptLeaves : Finishes(l)'
    BY <1>10, KnownWalk, KnownThere DEF Reported, KeptLeaves, ControlTypeOK
  <2> QED
    BY <1>15, <2>1, <2>2 DEF Reported
<1>18. OnBranch'
  <2>1. PICK p : p = path
    OBVIOUS
  <2>2. /\ p \in dfs_roots /\ Above(p, t) /\ Level(t) = Level(p) + Len(stack)
        /\ \A i \in 1 .. Len(stack) : /\ Above(p, stack[i].node)
                                      /\ Level(stack[i].node) = Level(p) + i - 1
    BY <1>0, <1>1, <2>1, KnownWalk DEF OnBranch
  <2>3. p \in tree.nodes /\ Level(p) \in Nat
    BY <2>1, KnownWalk, KnownThere, KnownNodes, PathLength DEF Placed, InHand
  <2>4. ASSUME NEW i \in 1 .. Len(stack')
        PROVE  Above(p, stack'[i].node) /\ Level(stack'[i].node) = Level(p) + i - 1
    <3>1. CASE i \in 1 .. Len(stack)
      BY <1>14, <2>2, <3>1
    <3>2. CASE i = Len(stack) + 1
      <4>1. stack'[i].node = t
        BY <1>13, <1>14, <3>2
      <4>2. Level(p) + i - 1 = Level(p) + Len(stack)
        BY <1>14, <2>3, <3>2
      <4> QED
        BY <2>2, <4>1, <4>2
    <3> QED
      BY <1>14, <3>1, <3>2
  <2>5. Above(p, c) /\ Level(c) = Level(p) + Len(stack')
    <3>1. Above(p, c)
      BY <1>3, <1>5, <2>2, <2>3, KnownWalk, KnownNodes, AboveOn
    <3> QED
      BY <1>5, <1>14, <2>2, <2>3, <3>1
  <2>6. at' = NoNode /\ cur' = c /\ path' = p /\ dfs_roots' = dfs_roots
    BY <1>1, <1>8, <2>1
  <2> QED
    BY <2>2, <2>4, <2>5, <2>6 DEF OnBranch, Level, Above
<1>19. IdleBetween'
  BY <1>1, <1>2 DEF IdleBetween, Idle, CountChild
<1> QED
  BY <1>7, <1>16, <1>17, <1>18, <1>19 DEF WalkInv

LEMMA ReportWalk ==
  ASSUME GInv, Report(Held), pc = "dfs", pc' = "dfs", UNCHANGED <<path, dfs_roots>>
  PROVE  WalkInv' /\ NodesInv'
<1>0. PICK t : t = at.node
  OBVIOUS
<1>1. /\ at # NoNode /\ Idle /\ at' = NoNode /\ stack' = stack /\ status[t] # "pruned" /\ IsLeaf(t)
      /\ ReportVisited(t, Held)
  BY <1>0 DEF Report, Go, Ready
<1>2. cur = NoNode /\ t \in Working /\ t \in tree.nodes /\ t # canon_leaf
  <2>1. cur = NoNode /\ t \in Working
    BY <1>0, <1>1, KnownWalk, KnownThere, WorkingNodes DEF InHand
  <2>2. t # canon_leaf
    BY <1>0, <1>1, KnownWalk, KnownThere, WorkElements DEF Reported
  <2> QED
    BY <2>1, <2>2, KnownWalk, KnownThere, WorkingNodes
<1>3. UpToDate(t)
  <2>1. status[t] # "absent" /\ ~Outdated(t)
    BY <1>0, <1>1, <1>2, KnownWalk, KnownThere DEF Appeared, Pointed, Current
  <2> QED
    BY <1>1, <1>2, <2>1, KnownWalk, KnownThere, FinishedNode
<1>4. NodesInv'
  BY <1>1, <1>2, <1>3, KnownWalk, ReportedNodes
<1>5. Work' \subseteq Work /\ \A e \in Work' : \E i \in 1 .. Len(stack) : e = stack[i]
  BY <1>1 DEF Work
<1>6. \A e \in Work' : e.node # t
  BY <1>0, <1>1, <1>5, OthersOnStack
<1>7. Waiting' /\ Reported'
  BY <1>1, <1>2, <1>3, <1>5, <1>6, ReportedLeaf
<1>8. OnBranch'
  <2>1. OnlyPrunes
    BY <1>1, <1>2, KnownWalk, KnownThere, ReportTree
  <2>2. cur' = NoNode
    BY <2>1, KnownWalk, KnownThere, StillFinished
  <2> QED
    BY <1>1, <2>2, KnownWalk, BranchKept
<1>9. IdleBetween'
  <2>1. t_path' = t_path
    BY <1>1 DEF ReportVisited, AutomorphismLeaf, AddAutomorphism, prunerVars
  <2> QED
    BY <1>1, <2>1 DEF IdleBetween, Idle
<1> QED
  BY <1>4, <1>7, <1>8, <1>9 DEF WalkInv

LEMMA StepDFSInv ==
  ASSUME GInv, StepDFS
  PROVE  WalkInv' /\ NodesInv'
<1>1. pc = "dfs" /\ pc' = "dfs" /\ UNCHANGED <<path, dfs_roots>>
  BY DEF StepDFS, loopVars
<1>2. CASE Push
  <2>1. NodesInv'
    BY <1>2, KnownWalk, FinishedNodes DEF Push
  <2> QED
    BY <1>1, <1>2, <2>1, PushWalk
<1>3. CASE Pop
  <2>1. PICK t : t = at'.node
    OBVIOUS
  <2>2. cur = NoNode /\ at = NoNode /\ BeforeDescend(t) /\ stack # <<>> /\ at' = stack[Len(stack)]
        /\ stack' = SubSeq(stack, 1, Len(stack) - 1)
    BY <1>3, <2>1 DEF Pop
  <2>3. t \in tree.nodes /\ status[t] # "absent"
    <3>1. t \in Working
      BY <2>1, <2>2, KnownWalk, KnownThere, StackPopped, WorkingNodes
    <3> QED
      BY <3>1, KnownWalk, KnownThere, WorkingNodes DEF Appeared, Pointed
  <2>4. NodesInv'
    <3>1. Idle
      BY <1>1, <2>2, KnownWalk DEF IdleBetween
    <3> QED
      BY <2>2, <2>3, <3>1, KnownWalk, BeforeNodes
  <2> QED
    BY <1>1, <1>3, <2>4, PopWalk
<1>4. CASE Skip \/ Leave(Held)
  <2>1. UNCHANGED <<treeVars, prunerVars, chainVars, stack>> /\ at' = NoNode
    BY <1>4 DEF Skip, Leave, Go
  <2>2. UNCHANGED <<tree, implicit, pruner, status, child_pruned, forest, gens, nodeGens, t_path, moves>>
    BY <2>1 DEF treeVars, prunerVars, chainVars, setup
  <2>3. NodesInv'
    BY <2>2, KnownWalk, NodesKept
  <2>4. Idle
    BY <1>4 DEF Skip, Leave, Go, Ready
  <2> QED
    BY <1>1, <2>1, <2>2, <2>3, <2>4, UnmovedWalk
<1>5. CASE Descend(Held)
  BY <1>1, <1>5, DescendWalk
<1>6. CASE Report(Held)
  BY <1>1, <1>6, ReportWalk
<1> QED
  BY <1>2, <1>3, <1>4, <1>5, <1>6 DEF StepDFS

-----------------------------------------------------------------------------
(* All steps.                                                              *)

LEMMA TogetherKept ==
  ASSUME BInv', NodesInv', WalkInv'
  PROVE  GInv'
BY DEF GInv

(* Steps that change nothing of the nodes and are not on the stack.        *)
LEMMA StillGInv ==
  ASSUME GInv, UNCHANGED <<nodeVars, stack, dfs_roots>>, at' = at,
         pc' = "dfs" => pc = "dfs" /\ path' = path,
         pc' = "visit" => pc = "visit" /\ path' = path,
         pc' = "extend" => pc \in {"visit", "extend"} /\ path' = path
  PROVE  NodesInv' /\ WalkInv'
<1>1. /\ UNCHANGED <<tree, implicit, pruner, status, child_pruned, forest>>
      /\ UNCHANGED <<gens, nodeGens, t_path, moves>> /\ UNCHANGED treeVars
  BY DEF nodeVars, treeVars, prunerVars, chainVars, setup
<1>2. NodesInv'
  BY <1>1, KnownWalk, NodesKept
<1>3. WalkInv'
  BY <1>1, UnmovedWalk
<1> QED
  BY <1>2, <1>3

LEMMA ConstructionInv ==
  ASSUME GInv, Refine \/ Tell \/ Prune \/ Created
  PROVE  NodesInv' /\ WalkInv'
<1>1. CASE Refine
  BY <1>1, KnownWalk, RefineNodes, RefineWalk
<1>2. CASE Tell
  <2>1. UNCHANGED <<treeVars, dfs_roots, stack, at, pc, path, t_path>>
    BY <1>2 DEF Tell, AutomorphismImplicit, AddAutomorphism, bfsVars, loopVars, workVars
  <2> QED
    BY <1>2, <2>1, KnownWalk, TellNodes, UnmovedWalk
<1>3. CASE Prune
  BY <1>3, KnownWalk, PruneNodes, PruneWalk
<1>4. CASE Created
  BY <1>4, KnownWalk, FinishedNodes, CreatedWalk DEF Created
<1> QED
  BY <1>1, <1>2, <1>3, <1>4

LEMMA PathInv ==
  ASSUME GInv, Visit \/ ReportPath \/ GiveUp \/ EndDFS \/ StartDFS
  PROVE  NodesInv' /\ WalkInv'
<1>1. CASE Visit
  <2>0. PICK t : t = path
    OBVIOUS
  <2>1. /\ pc = "visit" /\ pc' = "extend" /\ cur = NoNode /\ Idle /\ BeforeDescend(t)
        /\ UNCHANGED <<path, dfs_roots, stack, at>>
    BY <1>1, <2>0 DEF Visit, Free, workVars
  <2>2. t \in tree.nodes /\ UpToDate(t)
    BY <2>0, <2>1, KnownWalk, KnownThere DEF Placed, InHand, Current
  <2>3. UNCHANGED treeVars /\ status[t] # "absent"
    BY <2>1, <2>2 DEF BeforeDescend, UpToDate
  <2>4. NodesInv'
    BY <2>1, <2>2, <2>3, KnownWalk, BeforeNodes
  <2> QED
    BY <2>1, <2>3, <2>4, UnmovedWalk
<1>2. CASE ReportPath
  <2>0. PICK t : t = path
    OBVIOUS
  <2>1. pc = "extend" /\ cur = NoNode /\ Idle /\ IsLeaf(t) /\ ReportVisited(t, Held)
    BY <1>2, <2>0 DEF ReportPath, Free
  <2>2. t \in tree.nodes /\ UpToDate(t) /\ t # canon_leaf
    BY <2>0, <2>1, KnownWalk, KnownThere DEF Placed, InHand, Current, Reported
  <2>3. NodesInv'
    BY <2>1, <2>2, KnownWalk, ReportedNodes
  <2> QED
    BY <1>2, <2>3, ReportPathWalk
<1>3. CASE GiveUp \/ EndDFS
  <2>1. UNCHANGED <<nodeVars, stack, dfs_roots, at>> /\ pc' \in {"load", "loop"}
    BY <1>3 DEF GiveUp, EndDFS, EndPath, workVars
  <2> QED
    BY <2>1, StillGInv
<1>4. CASE StartDFS
  <2>1. /\ UNCHANGED <<tree, implicit, pruner, status, child_pruned, forest>>
        /\ UNCHANGED <<gens, nodeGens, t_path, moves>>
    BY <1>4 DEF StartDFS, nodeVars, treeVars, prunerVars, chainVars, setup
  <2> QED
    BY <1>4, <2>1, KnownWalk, NodesKept, StartDFSWalk
<1> QED
  BY <1>1, <1>2, <1>3, <1>4

(* A child of a node that is alive is created.                             *)
LEMMA BegunInv ==
  ASSUME GInv, cur = NoNode, Idle, pc # "dfs", NEW t \in tree.nodes, status[t] = "live",
         NEW c \in Children(t), status[c] = "absent", c \notin child_pruned,
         CreateBegin(c), CountChild(c), UNCHANGED <<stack, at>>,
         pc' \notin {"dfs", "visit"}, pc' = "extend" => pc \in {"visit", "extend"} /\ path' = path
  PROVE  NodesInv' /\ WalkInv'
<1>1. NodesInv'
  BY KnownWalk, BegunNodes
<1>2. Work' = {}
  BY KnownWalk, SameWork
<1>3. c \in tree.nodes
  BY KnownWalk, KnownThere, ChildrenAreNodes
<1> QED
  BY <1>1, <1>2, <1>3, BegunWalk

LEMMA ExtendInv ==
  ASSUME GInv, Extend
  PROVE  NodesInv' /\ WalkInv'
<1>0. PICK t : t = path
  OBVIOUS
<1>1. pc = "extend" /\ Idle /\ cur = NoNode /\ NewChildren # {} /\ UNCHANGED <<pc, path, stack, at>>
  BY DEF Extend, Free, bfsVars, loopVars, workVars
<1>2. t \in tree.nodes /\ status[t] = "live"
  BY <1>0, <1>1, KnownWalk, KnownThere DEF Placed, InHand, Current, UpToDate
<1>3. PICK c \in NewChildren : CreateBegin(c) /\ CountChild(c)
  <2>1. NewChildren \in SUBSET Children(t)
    BY <1>0 DEF NewChildren
  <2>2. First(NewChildren) \in NewChildren
    BY <1>1, <1>2, <2>1, KnownWalk, KnownThere, FirstIsOne
  <2> QED
    BY <2>2 DEF Extend
<1>4. c \in Children(t) /\ status[c] = "absent" /\ c \notin child_pruned
  BY <1>0 DEF NewChildren
<1> QED
  BY <1>1, <1>2, <1>3, <1>4, BegunInv

LEMMA ChooseInv ==
  ASSUME GInv, Choose
  PROVE  NodesInv' /\ WalkInv'
<1>0. PICK t : t = node
  OBVIOUS
<1>1. pc = "choose" /\ Idle /\ cur = NoNode /\ pc' \in {"load", "loop"} /\ UNCHANGED <<dfs_roots, stack, at>>
  BY DEF Choose, Free, workVars, LeaveNode
<1>2. t \in Pointed /\ t \in tree.nodes /\ status[t] # "absent" /\ ToDo # {}
  BY <1>0, <1>1, KnownWalk, KnownThere, AtLevel DEF Current
<1>3. PICK c : c = First(ToDo)
  OBVIOUS
<1>4. c \in Children(t)
  <2>1. ToDo \in SUBSET Children(t)
    BY <1>0 DEF ToDo
  <2> QED
    BY <1>2, <1>3, <2>1, KnownWalk, KnownThere, FirstIsOne
<1>5. CASE UNCHANGED nodeVars
  BY <1>1, <1>5, StillGInv
<1>6. CASE status[t] # "pruned" /\ ~Flagged(c, Held) /\ status[c] = "absent" /\ CreateBegin(c) /\ CountChild(c)
  <2>1. status[t] = "live" /\ c \notin child_pruned
    BY <1>1, <1>2, <1>6, KnownWalk, KnownThere, FinishedNode DEF Flagged
  <2> QED
    BY <1>1, <1>2, <1>4, <1>6, <2>1, BegunInv
<1> QED
  BY <1>0, <1>3, <1>5, <1>6 DEF Choose, LeaveNode

LEMMA LevelInv ==
  ASSUME GInv, Load \/ NextLevel \/ Enter \/ Iterate
  PROVE  NodesInv' /\ WalkInv'
<1>1. /\ cur = NoNode /\ Idle /\ pc \in {"load", "enter", "loop"} /\ UNCHANGED <<dfs_roots, stack, at>>
      /\ pc' \in {"load", "enter", "loop", "choose"}
  BY DEF Load, NextLevel, Enter, Iterate, LeaveNode, Free, workVars
<1>2. Work' = {}
  BY <1>1, KnownWalk, SameWork
<1>3. CASE UNCHANGED nodeVars
  BY <1>1, <1>3, StillGInv
<1>4. ASSUME NEW t \in Pointed, BeforeDescend(t) PROVE NodesInv' /\ WalkInv'
  <2>1. t \in tree.nodes /\ status[t] # "absent"
    BY <1>4, KnownWalk, AtLevel
  <2> QED
    BY <1>1, <1>2, <1>4, <2>1, KnownWalk, BeforeNodes, BeforeWalk
<1>5. CASE Load
  <2>0. PICK t : t = Head(level_list)
    OBVIOUS
  <2>1. t \in Pointed
    BY <1>5, <2>0, KnownWalk, AtLevel, RangeOfTail DEF Load
  <2>2. UNCHANGED nodeVars \/ BeforeDescend(t)
    BY <1>5, <2>0 DEF Load
  <2> QED
    BY <1>3, <1>4, <2>1, <2>2
<1>6. CASE NextLevel \/ Enter
  BY <1>3, <1>6 DEF NextLevel, Enter, LeaveNode
<1>7. CASE Iterate
  <2>0. PICK t : t = node
    OBVIOUS
  <2>1. t \in Pointed
    BY <1>7, <2>0, KnownWalk, AtLevel DEF Iterate
  <2>2. UNCHANGED nodeVars \/ BeforeDescend(t)
    BY <1>7, <2>0 DEF Iterate, LeaveNode
  <2> QED
    BY <1>3, <1>4, <2>1, <2>2
<1> QED
  BY <1>5, <1>6, <1>7

LEMMA NextGInv == GInv /\ GenerationFits /\ [Next]_vars => GInv'
<1> SUFFICES ASSUME GInv, GenerationFits, [Next]_vars PROVE GInv'
  OBVIOUS
<1>1. BInv'
  BY NextBInv, KnownWalk
<1>2. CASE Refine \/ Tell \/ Prune \/ Created
  BY <1>1, <1>2, ConstructionInv, TogetherKept
<1>3. CASE Visit \/ ReportPath \/ GiveUp \/ EndDFS \/ StartDFS
  BY <1>1, <1>3, PathInv, TogetherKept
<1>4. CASE Extend
  BY <1>1, <1>4, ExtendInv, TogetherKept
<1>5. CASE StepDFS
  BY <1>1, <1>5, StepDFSInv, TogetherKept
<1>6. CASE Load \/ NextLevel \/ Enter \/ Iterate
  BY <1>1, <1>6, LevelInv, TogetherKept
<1>7. CASE Choose
  BY <1>1, <1>7, ChooseInv, TogetherKept
<1>8. CASE Stop \/ UNCHANGED vars
  <2>1. UNCHANGED <<nodeVars, stack, dfs_roots, at, pc, path>>
    BY <1>8 DEF Stop, vars, bfsVars, loopVars, workVars
  <2> QED
    BY <1>1, <2>1, StillGInv, TogetherKept
<1> QED
  BY <1>2, <1>3, <1>4, <1>5, <1>6, <1>7, <1>8 DEF Next

LEMMA InitGInv == Init /\ pruner = "basic" => GInv
<1> SUFFICES ASSUME Init, pruner = "basic" PROVE GInv
  OBVIOUS
<1>1. BInv /\ GensInv /\ PrunerAt(Root)
  BY InitBInv, InitGens, InitPrunerAt DEF Init
<1>2. /\ Idle /\ child_pruned = {} /\ forest = [t \in tree.nodes |-> t] /\ cur = Root
      /\ status = [t \in tree.nodes |-> IF t = Root THEN "constructing" ELSE "absent"]
      /\ canon_leaf = NoNode /\ canon_graph = NoNode /\ extra_graph = NoNode
      /\ stack = <<>> /\ at = NoNode /\ pc = "load"
  BY DEF Init, TreeInit, PrunerInit, Idle
<1>3. IsTree(tree) /\ Root \in tree.nodes
  BY <1>1, KnownThere DEF IsTree
<1>4. ShapeInv
  <2>1. \A t \in tree.nodes : status[t] # "absent" => t = Root
    BY <1>2
  <2>2. \A a \in tree.nodes : Above(a, Root) => a = Root
    BY <1>3, AncestorsAbove, AboveOn
  <2>3. Living /\ FinishedAbove /\ RootLives
    BY <1>2, <1>3, <2>1, <2>2 DEF Living, FinishedAbove, RootLives
  <2>4. PairsCut
    <3> SUFFICES ASSUME NEW t \in tree.nodes, NEW c \in OneOfPair(t)
                 PROVE  status[c] = "absent" /\ (status[t] = "live" => c \in child_pruned)
      BY DEF PairsCut
    <3>1. c \in tree.nodes \ {Root}
      BY <1>3, PairsAreChildren
    <3> QED
      BY <1>2, <3>1
  <2>5. SetsCut
    BY <1>2 DEF SetsCut
  <2> QED
    BY <1>2, <2>3, <2>4, <2>5 DEF ShapeInv
<1>5. NodesInv
  BY <1>1, <1>2, <1>3, <1>4 DEF NodesInv, Updating
<1>6. Work = {}
  BY <1>2 DEF Work
<1>7. WalkInv
  BY <1>2, <1>6 DEF WalkInv, Waiting, Reported, KeptLeaves, OnBranch, IdleBetween
<1> QED
  BY <1>1, <1>5, <1>7 DEF GInv

LEMMA AlwaysGInv == Spec /\ []GenerationFits /\ pruner = "basic" => []GInv
BY InitGInv, NextGInv, PTL DEF Spec

-----------------------------------------------------------------------------

(* The invariant of aut_pruner_basic::tree_data although nodes wait in the *)
(* list of the next level while generators are found elsewhere: one that   *)
(* has seen all of them has an ancestry that has, and was given what its   *)
(* parent has.                                                             *)
THEOREM GeneratorsPassedDownByLevel ==
  Spec /\ [](generation < SizeTypeSize) /\ pruner = "basic" => []GeneratorsPassedDown
<1>1. GInv => GeneratorsPassedDown
  <2> SUFFICES ASSUME GInv PROVE GeneratorsPassedDown
    OBVIOUS
  <2>1. GensSeen
    BY DEF GInv, NodesInv, GensInv
  <2> QED
    BY <2>1 DEF GensSeen, Seen, GeneratorsPassedDown
<1> QED
  BY <1>1, AlwaysGInv, PTL DEF GenerationFits

(* Children that tree_before_descend puts in one set have subtrees that    *)
(* look the same, whichever paths the generators were found on, and when.  *)
THEOREM SetsAreOrbitsByLevel ==
  Spec /\ [](generation < SizeTypeSize) /\ pruner = "basic" => []SetsAreOrbits
<1>1. GInv => SetsAreOrbits
  <2> SUFFICES ASSUME GInv PROVE SetsAreOrbits
    OBVIOUS
  <2>1. PICK t \in tree.nodes : PrunerAt(t)
    BY DEF GInv, NodesInv, Updating
  <2> QED
    BY <2>1 DEF PrunerAt, SameBelow, SetsAreOrbits
<1> QED
  BY <1>1, AlwaysGInv, PTL DEF GenerationFits

-----------------------------------------------------------------------------
(* The nodes that are kept alive.                                          *)

(* What no step undoes.                                                    *)
StaysFinished == tree' = tree /\ \A t \in tree.nodes : Finishes(t) => Finishes(t)'

LEMMA PrunedStaysFinished ==
  ASSUME BInv, OnlyPrunes
  PROVE  StaysFinished
BY KnownThere, StillFinished DEF StaysFinished

LEMMA SameStaysFinished ==
  ASSUME UNCHANGED treeVars
  PROVE  StaysFinished
BY DEF treeVars, StaysFinished, Finishes

LEMMA BeforeStaysFinished ==
  ASSUME BInv, cur = NoNode, NEW t \in Pointed, BeforeDescend(t)
  PROVE  StaysFinished
<1>1. t \in tree.nodes /\ status[t] # "absent"
  BY AtLevel
<1>2. status[t] \in {"live", "pruned"}
  BY <1>1, KnownThere, FinishedNode
<1> QED
  BY <1>1, <1>2, KnownThere, BeforeDescendTree, PrunedStaysFinished

LEMMA NewStaysFinished ==
  ASSUME BInv, NEW c \in tree.nodes, ~Finishes(c), NEW s, tree' = tree,
         status' = [status EXCEPT ![c] = s]
  PROVE  StaysFinished
BY KnownThere DEF StaysFinished, Finishes, ControlTypeOK

LEMMA ConstructionFinishes ==
  ASSUME GInv, Refine \/ Tell \/ Prune \/ NodeFinished
  PROVE  StaysFinished
<1>1. cur # NoNode => cur \in tree.nodes /\ ~Finishes(cur)
  BY KnownWalk, KnownNodes DEF ControlTypeOK, Finishes
<1>2. CASE Refine
  <2>1. Construct
    BY <1>2 DEF Refine, Constructing
  <2>2. /\ cur # NoNode /\ tree' = tree
        /\ UNCHANGED status \/ status' = [status EXCEPT ![cur] = "pruned"]
    BY <2>1, KnownWalk, KnownThere, ConstructStatus
  <2>3. CASE UNCHANGED status
    BY <2>2, <2>3 DEF StaysFinished, Finishes
  <2>4. CASE status' = [status EXCEPT ![cur] = "pruned"]
    BY <1>1, <2>2, <2>4, KnownWalk, NewStaysFinished
  <2> QED
    BY <2>2, <2>3, <2>4
<1>3. CASE Tell
  BY <1>3, SameStaysFinished DEF Tell, AutomorphismImplicit
<1>4. CASE Prune
  <2>1. ~Idle /\ (Update(Held) \/ Merge(Held))
    BY <1>4 DEF Prune, Update, Merge
  <2>2. cur = NoNode
    BY <2>1, KnownWalk, KnownThere DEF InHand
  <2> QED
    BY <2>1, <2>2, KnownWalk, KnownThere, UpdateOrMergeTree, PrunedStaysFinished
<1>5. CASE NodeFinished
  <2>1. cur # NoNode /\ tree' = tree /\ status' = [status EXCEPT ![cur] = "live"]
    BY <1>5 DEF NodeFinished, CreateLive, Emitted
  <2> QED
    BY <1>1, <2>1, KnownWalk, NewStaysFinished
<1> QED
  BY <1>2, <1>3, <1>4, <1>5

LEMMA BegunFinishes ==
  ASSUME BInv, NEW t \in tree.nodes, NEW c \in Children(t), status[c] = "absent", CreateBegin(c)
  PROVE  StaysFinished
<1>1. c \in tree.nodes /\ ~Finishes(c) /\ tree' = tree /\ status' = [status EXCEPT ![c] = "constructing"]
  BY KnownThere, ChildrenAreNodes DEF CreateBegin, Finishes
<1> QED
  BY <1>1, NewStaysFinished

LEMMA StepDFSFinishes ==
  ASSUME GInv, StepDFS
  PROVE  StaysFinished
<1>0. PICK t : t = at.node
  OBVIOUS
<1>1. ASSUME at # NoNode
      PROVE  t \in tree.nodes /\ at \in Work /\ NotYet(at) /\ cur = NoNode
  <2>1. at \in Work
    BY <1>1, KnownWalk, KnownThere, WorkElements
  <2> QED
    BY <1>0, <1>1, <2>1, KnownWalk, KnownThere, WorkElements DEF Waiting, InHand
<1>2. CASE Push
  BY <1>2, ConstructionFinishes DEF Push
<1>3. CASE Pop
  <2>1. PICK u : u = at'.node
    OBVIOUS
  <2>2. cur = NoNode /\ BeforeDescend(u) /\ stack # <<>> /\ at' = stack[Len(stack)]
        /\ stack' = SubSeq(stack, 1, Len(stack) - 1)
    BY <1>3, <2>1 DEF Pop
  <2>3. u \in Working
    BY <2>1, <2>2, KnownWalk, KnownThere, StackPopped, WorkingNodes
  <2> QED
    BY <2>2, <2>3, KnownWalk, BeforeStaysFinished DEF Pointed
<1>4. CASE Skip \/ Leave(Held)
  BY <1>4, SameStaysFinished DEF Skip, Leave
<1>5. CASE Descend(Held)
  <2>1. at # NoNode
    BY <1>5 DEF Descend, Go, Ready
  <2>2. PICK c \in Candidates(Held) : CreateBegin(c)
    BY <1>5 DEF Descend
  <2>3. c \in Children(t) /\ c[Len(c)] >= at.next_child
    BY <1>0, <2>2 DEF Candidates
  <2>4. status[c] = "absent"
    BY <1>0, <1>1, <2>1, <2>3, KnownWalk, KnownThere, ChildrenAreNodes DEF NotYet
  <2> QED
    BY <1>1, <2>1, <2>2, <2>3, <2>4, KnownWalk, BegunFinishes
<1>6. CASE Report(Held)
  <2>1. at # NoNode /\ ReportVisited(t, Held)
    BY <1>0, <1>6 DEF Report, Go, Ready
  <2> QED
    BY <1>1, <2>1, KnownWalk, KnownThere, ReportTree, PrunedStaysFinished
<1> QED
  BY <1>2, <1>3, <1>4, <1>5, <1>6 DEF StepDFS

LEMMA NextFinishes ==
  ASSUME GInv, [Next]_vars
  PROVE  StaysFinished
<1>1. CASE Refine \/ Tell \/ Prune \/ Created
  BY <1>1, ConstructionFinishes DEF Created
<1>2. CASE Visit \/ ReportPath
  <2>0. PICK t : t = path
    OBVIOUS
  <2>1. cur = NoNode /\ t \in tree.nodes /\ t \in Pointed
    BY <1>2, <2>0, KnownWalk, KnownThere DEF Visit, ReportPath, Free, InHand, Placed, Pointed
  <2>2. BeforeDescend(t) \/ ReportVisited(t, Held)
    BY <1>2, <2>0 DEF Visit, ReportPath
  <2> QED
    BY <2>1, <2>2, KnownWalk, KnownThere, BeforeStaysFinished, ReportTree, PrunedStaysFinished
<1>3. CASE Extend
  <2>0. PICK t : t = path
    OBVIOUS
  <2>1. t \in tree.nodes /\ NewChildren # {} /\ CreateBegin(First(NewChildren))
    BY <1>3, <2>0, KnownWalk, KnownThere DEF Extend, InHand, Placed
  <2>2. PICK c : c = First(NewChildren)
    OBVIOUS
  <2>3. NewChildren \in SUBSET Children(t)
    BY <2>0 DEF NewChildren
  <2>4. c \in Children(t) /\ status[c] = "absent"
    BY <2>1, <2>2, <2>3, KnownWalk, KnownThere, FirstIsOne DEF NewChildren
  <2> QED
    BY <2>1, <2>2, <2>4, KnownWalk, BegunFinishes
<1>4. CASE StepDFS
  BY <1>4, StepDFSFinishes
<1>5. CASE Load \/ Iterate
  <2>1. cur = NoNode
    BY <1>5 DEF Load, Iterate, Free
  <2>2. UNCHANGED treeVars \/ \E t \in Pointed : BeforeDescend(t)
    <3>1. CASE Load
      <4>1. Head(level_list) \in Pointed
        BY <3>1, KnownWalk, AtLevel, RangeOfTail DEF Load
      <4> QED
        BY <3>1, <4>1 DEF Load, nodeVars
    <3>2. CASE Iterate
      <4>1. node \in Pointed
        BY <3>2, KnownWalk, AtLevel DEF Iterate
      <4> QED
        BY <3>2, <4>1 DEF Iterate, LeaveNode, nodeVars
    <3> QED
      BY <1>5, <3>1, <3>2
  <2> QED
    BY <2>1, <2>2, KnownWalk, BeforeStaysFinished, SameStaysFinished
<1>6. CASE Choose
  <2>0. PICK t : t = node
    OBVIOUS
  <2>1. t \in tree.nodes /\ ToDo # {} /\ ToDo \in SUBSET Children(t)
    BY <1>6, <2>0, KnownWalk, KnownThere DEF Choose, InHand, Placed, Current, ToDo
  <2>2. PICK c : c = First(ToDo)
    OBVIOUS
  <2>3. c \in Children(t)
    BY <2>1, <2>2, KnownWalk, KnownThere, FirstIsOne
  <2>4. UNCHANGED treeVars \/ (status[c] = "absent" /\ CreateBegin(c))
    BY <1>6, <2>2 DEF Choose, LeaveNode, nodeVars
  <2> QED
    BY <2>1, <2>3, <2>4, KnownWalk, BegunFinishes, SameStaysFinished
<1>7. CASE GiveUp \/ StartDFS \/ EndDFS \/ NextLevel \/ Enter \/ Stop \/ UNCHANGED vars
  <2>1. UNCHANGED treeVars
    BY <1>7 DEF GiveUp, StartDFS, EndDFS, NextLevel, Enter, LeaveNode, Stop, vars, nodeVars
  <2> QED
    BY <2>1, SameStaysFinished
<1> QED
  BY <1>1, <1>2, <1>3, <1>4, <1>5, <1>6, <1>7 DEF Next

(* The child of the node a path is followed from, and the node that is     *)
(* under construction.                                                     *)
ChildFacts ==
  /\ path = NoNode => child = NoNode
  /\ node = NoNode => child = NoNode
  /\ pc = "load" => node = NoNode
  /\ path # NoNode /\ node # NoNode => child # Root /\ Parent(child) = node /\ Above(child, path)
  /\ pc = "load" /\ cur # NoNode => cur = Root /\ Root \in Range(level_list)
  /\ pc = "loop" /\ cur # NoNode => cur # Root /\ Parent(cur) = node

(* A node on a path waits for its list in the hands of another: until its  *)
(* parent is taken from the list of its level, and as long as the loop over*)
(* the children of its parent has not got to it.                           *)
Listed == Range(level_list) \cup Range(next_list) \cup {child}
Covered(t) ==
  \/ t \in Listed
  \/ t # Root /\ (Parent(t) \in kept \/ (Parent(t) = node /\ Last(t) >= next_child))
KeptHeld ==
  /\ \A t \in kept : status[t] = "live" /\ t \notin dfs_roots /\ t # path /\ Covered(t)
  /\ pc \in {"visit", "extend"} => path \notin dfs_roots /\ Covered(path)
  /\ \A t \in dfs_roots : Finishes(t)

KInv == GInv /\ ChildFacts /\ KeptHeld

LEMMA KnownKept ==
  ASSUME KInv
  PROVE  /\ GInv /\ BInv /\ ChildFacts /\ KeptHeld /\ Placed /\ InHand /\ IsTree(tree)
         /\ NoNode \notin tree.nodes /\ Root \in tree.nodes
         /\ kept \subseteq tree.nodes /\ dfs_roots \subseteq tree.nodes
         /\ \A t \in tree.nodes : status[t] = "constructing" <=> t = cur
<1>1. GInv /\ ChildFacts /\ KeptHeld
  BY DEF KInv
<1> QED
  BY <1>1, KnownWalk, KnownThere, KnownNodes DEF Placed

(* The parent of a node that is alive is alive, after a step as well.      *)
LEMMA ParentLives ==
  ASSUME KInv, GInv', tree' = tree, NEW t \in tree.nodes \ {Root}
  PROVE  /\ Parent(t) \in tree.nodes /\ Parent(t) # t
         /\ status[t] = "live" => status[Parent(t)] = "live" /\ t \notin child_pruned
         /\ status'[t] = "live" => status'[Parent(t)] = "live"
<1>1. Living /\ Living'
  BY DEF KInv, GInv, NodesInv, ShapeInv
<1>2. Parent(t) \in tree.nodes /\ Above(Parent(t), t) /\ Parent(t) # t
  BY KnownKept, ChildAbove
<1> QED
  BY <1>1, <1>2 DEF Living, Above

(* A node that goes on to be alive is still covered.                       *)
LEMMA StillCovered ==
  ASSUME KInv, GInv', tree' = tree, NEW t \in tree.nodes, Covered(t), status'[t] = "live",
         \A s \in kept : status'[s] = "live" => s \in kept' \/ (s = node' /\ next_child' = 0),
         t \in Listed => t \in Listed',
         t # Root /\ Parent(t) = node /\ Last(t) >= next_child =>
           t \in Listed' \/ (node' = node /\ Last(t) >= next_child')
  PROVE  Covered(t)'
<1>1. CASE t \in Listed
  BY <1>1 DEF Covered
<1>2. CASE t # Root /\ Parent(t) \in kept
  <2>1. status'[Parent(t)] = "live"
    BY <1>2, ParentLives
  <2>2. CASE Parent(t) \in kept'
    BY <1>2, <2>2 DEF Covered, Parent, Root
  <2>3. CASE Parent(t) = node' /\ next_child' = 0
    <3>1. Last(t) \in Nat
      <4>1. t \in Children(Parent(t)) /\ Parent(t) \in tree.nodes
        BY <1>2, KnownKept, ParentLives DEF Children, IsTree
      <4> QED
        BY <4>1, KnownKept, ChildrenAreNodes
    <3> QED
      BY <1>2, <2>3, <3>1 DEF Covered, Parent, Root
  <2> QED
    BY <1>2, <2>1, <2>2, <2>3
<1>3. CASE t # Root /\ Parent(t) = node /\ Last(t) >= next_child
  BY <1>3 DEF Covered, Parent, Root
<1> QED
  BY <1>1, <1>2, <1>3 DEF Covered

(* What is common to all steps but the end of a construction.              *)
LEMMA KeptStep ==
  ASSUME KInv, GInv', StaysFinished, NEW K \in SUBSET kept,
         kept' = {t \in K : status'[t] # "pruned"},
         dfs_roots' \subseteq dfs_roots \cup ({path} \ {NoNode}), \A t \in dfs_roots' : Finishes(t)',
         path' \in {path, NoNode},
         pc' \in {"visit", "extend"} =>
           /\ pc \in {"visit", "extend"} /\ path' = path /\ dfs_roots' = dfs_roots /\ K = kept
           /\ UNCHANGED <<level_list, next_list, child, node, next_child>>,
         \A s \in kept \ K : (s = node' /\ next_child' = 0) \/ status'[s] = "pruned",
         \A t \in kept' : t \in Listed => t \in Listed',
         \A t \in kept' : t # Root /\ Parent(t) = node /\ Last(t) >= next_child =>
           t \in Listed' \/ (node' = node /\ Last(t) >= next_child')
  PROVE  KeptHeld'
<1>1. tree' = tree
  BY DEF StaysFinished
<1>2. \A t \in kept : status'[t] \in {"live", "pruned"} /\ t \in tree.nodes
  BY KnownKept DEF StaysFinished, Finishes, KeptHeld
<1>3. \A s \in kept : status'[s] = "live" => s \in kept' \/ (s = node' /\ next_child' = 0)
  BY <1>2
<1>4. ASSUME NEW t \in kept'
      PROVE  status'[t] = "live" /\ t \notin dfs_roots' /\ t # path' /\ Covered(t)'
  <2>1. t \in kept /\ status'[t] = "live" /\ t \in tree.nodes
    BY <1>2, <1>4
  <2>2. t \notin dfs_roots /\ t # path /\ Covered(t) /\ t # NoNode
    BY <2>1, KnownKept DEF KeptHeld
  <2>3. Covered(t)'
    BY <1>1, <1>3, <1>4, <2>1, <2>2, StillCovered
  <2> QED
    BY <2>1, <2>2, <2>3
<1>5. ASSUME pc' \in {"visit", "extend"} PROVE path' \notin dfs_roots' /\ Covered(path)'
  <2>1. PICK p : p = path
    OBVIOUS
  <2>2. p \in tree.nodes /\ p \notin dfs_roots /\ Covered(p)
    BY <1>5, <2>1, KnownKept DEF KeptHeld, Placed, InHand
  <2>3. status'[p] = "live"
    <3>1. pc' \in {"visit", "extend"} => status'[path'] = "live"
      BY DEF GInv, BInv, LoopInv, Current, UpToDate
    <3> QED
      BY <1>5, <2>1, <3>1
  <2>4. Listed' = Listed /\ node' = node /\ next_child' = next_child
    BY <1>5 DEF Listed
  <2>5. Covered(p)'
    BY <1>1, <1>3, <2>2, <2>3, <2>4, StillCovered
  <2> QED
    BY <1>5, <2>1, <2>2, <2>5 DEF Covered
<1> QED
  BY <1>4, <1>5 DEF KeptHeld

LEMMA AllKept ==
  ASSUME KInv, StaysFinished, kept' = kept, status' = status
  PROVE  kept' = {t \in kept : status'[t] # "pruned"}
BY DEF KInv, KeptHeld

(* The finished nodes below which there is a depth first traversal.        *)
LEMMA RootsStayFinished ==
  ASSUME KInv, StaysFinished, dfs_roots' \subseteq dfs_roots
  PROVE  \A t \in dfs_roots' : Finishes(t)'
BY KnownKept DEF KeptHeld, StaysFinished

(* Steps that leave the loop where it is.                                  *)
LEMMA SamePlaceKept ==
  ASSUME KInv, GInv', StaysFinished, KeepAlive(kept), dfs_roots' = dfs_roots,
         UNCHANGED <<path, level_list, next_list, child, node, next_child>>,
         pc' \in {"visit", "extend"} => pc \in {"visit", "extend"}
  PROVE  KeptHeld'
<1>1. kept' = {t \in kept : status'[t] # "pruned"}
  BY DEF KeepAlive
<1>2. \A t \in dfs_roots' : Finishes(t)'
  BY RootsStayFinished
<1>3. Listed' = Listed
  BY DEF Listed
<1>4. PICK K \in SUBSET kept : K = kept
  OBVIOUS
<1> QED
  BY <1>1, <1>2, <1>3, <1>4, KeptStep

LEMMA LoopUnchanged ==
  ASSUME UNCHANGED loopVars
  PROVE  /\ UNCHANGED <<path, level_list, next_list, child, node, next_child, pc>>
         /\ UNCHANGED <<head, old_head>>
BY DEF loopVars

(* During a construction no node that is kept changes.                     *)
LEMMA KeptInConstruction ==
  ASSUME KInv, StaysFinished, kept' = kept,
         \A t \in tree.nodes : status'[t] = status[t] \/ t = cur \/ status[t] = "absent"
  PROVE  KeepAlive(kept)
<1>1. ASSUME NEW t \in kept PROVE status'[t] # "pruned"
  <2>1. t \in tree.nodes /\ status[t] = "live"
    BY <1>1, KnownKept DEF KeptHeld
  <2>2. t # cur
    BY <2>1, KnownKept
  <2> QED
    BY <2>1, <2>2
<1> QED
  BY <1>1 DEF KeepAlive

LEMMA ChildFactsKept ==
  ASSUME ChildFacts, UNCHANGED <<path, level_list, child, node>>, pc' = "load" => pc = "load",
         pc' = "loop" => pc = "loop", cur' \in {cur, NoNode}
  PROVE  ChildFacts'
BY DEF ChildFacts, Root, Above, Parent

LEMMA NoChild ==
  ASSUME path' = NoNode, child' = NoNode, pc' = "load" => node' = NoNode,
         cur' # NoNode => pc' = "loop" /\ cur' # Root /\ Parent(cur') = node'
  PROVE  ChildFacts'
BY DEF ChildFacts, Root, Parent

(* The construction of nodes, and what goes on in a path.                  *)
LEMMA ConstructionKept ==
  ASSUME KInv, GInv', Refine \/ Tell \/ Prune \/ Visit \/ StepDFS
  PROVE  ChildFacts' /\ KeptHeld'
<1>0. StaysFinished
  BY KnownKept, NextFinishes DEF Next
<1>1. CASE Refine
  <2>1. Construct /\ UNCHANGED loopVars /\ kept' = kept /\ dfs_roots' = dfs_roots
    BY <1>1 DEF Refine, Constructing, bfsVars
  <2>2. /\ cur # NoNode /\ cur' \in {cur, NoNode}
        /\ UNCHANGED status \/ status' = [status EXCEPT ![cur] = "pruned"]
    BY <2>1, KnownKept, KnownThere, ConstructStatus
  <2>3. KeepAlive(kept)
    BY <1>0, <2>1, <2>2, KnownKept, KnownThere, KeptInConstruction DEF ControlTypeOK
  <2> QED
    BY <1>0, <2>1, <2>2, <2>3, KnownKept, LoopUnchanged, SamePlaceKept, ChildFactsKept
<1>2. CASE Tell
  <2>1. UNCHANGED treeVars /\ UNCHANGED loopVars /\ kept' = kept /\ dfs_roots' = dfs_roots
    BY <1>2 DEF Tell, AutomorphismImplicit, bfsVars
  <2>2. status' = status /\ cur' = cur
    BY <2>1 DEF treeVars
  <2>3. KeepAlive(kept)
    BY <1>0, <2>1, <2>2, KeptInConstruction
  <2> QED
    BY <1>0, <2>1, <2>2, <2>3, KnownKept, LoopUnchanged, SamePlaceKept, ChildFactsKept
<1>3. CASE Prune
  <2>1. /\ ~Idle /\ (Update(Held) \/ Merge(Held)) /\ KeepAlive(kept)
        /\ UNCHANGED loopVars /\ dfs_roots' = dfs_roots
    BY <1>3 DEF Prune, Update, Merge
  <2>2. cur' = cur
    BY <2>1 DEF Update, Merge, Absorb, PruneSubtree, treeVars
  <2> QED
    BY <1>0, <2>1, <2>2, KnownKept, LoopUnchanged, SamePlaceKept, ChildFactsKept
<1>4. CASE Visit
  <2>1. /\ pc = "visit" /\ pc' = "extend" /\ KeepAlive(kept) /\ cur = NoNode /\ BeforeDescend(path)
        /\ UNCHANGED <<path, level_list, next_list, child, node, next_child, dfs_roots>>
    BY <1>4 DEF Visit, Free
  <2>2. cur' = cur
    BY <2>1 DEF BeforeDescend, PruneSubtree, treeVars
  <2> QED
    BY <1>0, <2>1, <2>2, KnownKept, SamePlaceKept, ChildFactsKept
<1>5. CASE StepDFS
  <2>1. /\ pc = "dfs" /\ KeepAlive(kept) /\ UNCHANGED loopVars /\ dfs_roots' = dfs_roots
    BY <1>5 DEF StepDFS
  <2>2. UNCHANGED <<path, level_list, next_list, child, node, next_child, pc>>
    BY <2>1, LoopUnchanged
  <2>3. ChildFacts'
    BY <2>1, <2>2, KnownKept DEF ChildFacts, Root, Above, Parent
  <2> QED
    BY <1>0, <2>1, <2>2, <2>3, KnownKept, SamePlaceKept
<1> QED
  BY <1>1, <1>2, <1>3, <1>4, <1>5

LEMMA ExtendKept ==
  ASSUME KInv, GInv', Extend
  PROVE  ChildFacts' /\ KeptHeld'
<1>0. StaysFinished
  BY KnownKept, NextFinishes DEF Next
<1>1. /\ pc = "extend" /\ UNCHANGED loopVars /\ kept' = kept /\ dfs_roots' = dfs_roots /\ NewChildren # {}
  BY DEF Extend, bfsVars
<1>2. PICK c \in NewChildren : CreateBegin(c)
  <2>1. NewChildren \in SUBSET Children(path) /\ path \in tree.nodes
    BY <1>1, KnownKept DEF NewChildren, Placed, InHand
  <2>2. First(NewChildren) \in NewChildren
    BY <1>1, <2>1, KnownKept, FirstIsOne
  <2> QED
    BY <2>2 DEF Extend
<1>3. status[c] = "absent" /\ status' = [status EXCEPT ![c] = "constructing"]
  BY <1>2 DEF NewChildren, CreateBegin
<1>4. KeepAlive(kept)
  BY <1>0, <1>1, <1>3, KnownKept, KnownThere, KeptInConstruction DEF ControlTypeOK
<1>5. UNCHANGED <<path, level_list, next_list, child, node, next_child, pc>>
  BY <1>1, LoopUnchanged
<1>6. ChildFacts'
  BY <1>1, <1>5, KnownKept DEF ChildFacts, Root, Above, Parent
<1> QED
  BY <1>0, <1>1, <1>4, <1>5, <1>6, KnownKept, SamePlaceKept

LEMMA StartDFSKept ==
  ASSUME KInv, GInv', StartDFS
  PROVE  ChildFacts' /\ KeptHeld'
<1>0. StaysFinished
  BY KnownKept, NextFinishes DEF Next
<1>1. /\ UNCHANGED treeVars /\ pc = "visit" /\ pc' = "dfs" /\ dfs_roots' = dfs_roots \cup {path}
      /\ UNCHANGED <<head, level_list, next_list, old_head, node, next_child, child, path, kept>>
      /\ cur = NoNode
  BY DEF StartDFS, nodeVars, Free
<1>2. status' = status /\ cur' = cur
  BY <1>1 DEF treeVars
<1>3. path \in tree.nodes /\ path # NoNode /\ Finishes(path)
  BY <1>1, KnownKept, KnownThere DEF Placed, InHand, Current, UpToDate, Finishes
<1>4. \A t \in dfs_roots' : Finishes(t)'
  BY <1>1, <1>2, <1>3, KnownKept DEF KeptHeld, Finishes
<1>5. kept' = {t \in kept : status'[t] # "pruned"}
  BY <1>0, <1>1, <1>2, AllKept
<1>6. Listed' = Listed
  BY <1>1 DEF Listed
<1>7. PICK K \in SUBSET kept : K = kept
  OBVIOUS
<1>8. KeptHeld'
  BY <1>0, <1>1, <1>3, <1>4, <1>5, <1>6, <1>7, KeptStep
<1> QED
  BY <1>1, <1>2, <1>8, KnownKept, ChildFactsKept

(* A node is finished and a path goes on from it; the node the path came   *)
(* from is kept.                                                           *)
LEMMA CreatedKept ==
  ASSUME KInv, GInv', Created
  PROVE  ChildFacts' /\ KeptHeld'
<1>0. StaysFinished
  BY KnownKept, NextFinishes DEF Next
<1>1. PICK t : t = cur
  OBVIOUS
<1>2. /\ pc # "dfs" /\ pc' = "visit" /\ path' = t /\ t # NoNode
      /\ child' = IF path = NoNode /\ node # NoNode THEN t ELSE child
      /\ kept' = IF path = NoNode THEN kept ELSE kept \cup {path}
      /\ UNCHANGED <<level_list, next_list, node, next_child, dfs_roots>>
      /\ tree' = tree /\ status' = [status EXCEPT ![t] = "live"] /\ cur' = NoNode
  BY <1>1 DEF Created, NodeFinished, CreateLive, Emitted
<1>3. t \in tree.nodes /\ status[t] = "constructing" /\ pc \in {"load", "extend", "loop"}
  BY <1>1, <1>2, KnownKept, KnownThere DEF InHand, ControlTypeOK
<1>4. /\ path = NoNode <=> pc \in {"load", "loop"}
      /\ path # NoNode => /\ pc = "extend" /\ path \in tree.nodes /\ status[path] = "live"
                          /\ path \notin dfs_roots /\ Covered(path)
                          /\ t # Root /\ Parent(t) = path /\ path # t
  <2>1. path # NoNode => pc = "extend" /\ path \in tree.nodes
    BY <1>3, KnownKept DEF InHand, Placed
  <2>2. path # NoNode => status[path] = "live" /\ path \notin dfs_roots /\ Covered(path)
    BY <2>1, KnownKept, KnownThere DEF KeptHeld, Current, UpToDate
  <2>3. path # NoNode => t # Root /\ Parent(t) = path
    BY <1>1, <1>2, <2>1, KnownKept DEF InHand
  <2>4. path # NoNode => path # t
    BY <1>3, <2>2
  <2> QED
    BY <1>3, <2>1, <2>2, <2>3, <2>4, KnownKept DEF InHand
<1>5. ASSUME node # NoNode, path = NoNode PROVE t # Root /\ Parent(t) = node
  BY <1>1, <1>2, <1>3, <1>4, <1>5, KnownKept DEF ChildFacts
<1>6. ChildFacts'
  <2>1. ASSUME node # NoNode PROVE child' # Root /\ Parent(child') = node /\ Above(child', t)
    <3>1. CASE path = NoNode
      BY <1>2, <1>3, <1>5, <2>1, <3>1, KnownKept, AboveOn
    <3>2. CASE path # NoNode
      <4>1. child # Root /\ Parent(child) = node /\ Above(child, path) /\ child' = child
        BY <1>2, <2>1, <3>2, KnownKept DEF ChildFacts
      <4>2. child \in tree.nodes
        BY <2>1, <3>2, KnownKept DEF InHand, Placed
      <4>3. Above(path, t)
        BY <1>3, <1>4, <3>2, KnownKept, ChildAbove
      <4>4. Above(child, t)
        BY <1>3, <1>4, <3>2, <4>1, <4>2, <4>3, KnownKept, AboveOn
      <4> QED
        BY <4>1, <4>4
    <3> QED
      BY <3>1, <3>2
  <2>2. node = NoNode => child' = NoNode
    BY <1>2, KnownKept DEF ChildFacts
  <2> QED
    BY <1>2, <2>1, <2>2 DEF ChildFacts, Root, Parent, Above
<1>7. /\ \A s \in kept : s \in Listed => s \in Listed'
      /\ path # NoNode /\ path \in Listed => path \in Listed'
  <2>1. child # NoNode => child' = child
    BY <1>2, KnownKept DEF ChildFacts
  <2>2. \A s \in kept : s \in Listed => s \in Listed'
    BY <1>2, <2>1, KnownKept DEF Listed
  <2>3. path # NoNode /\ path \in Listed => path \in Listed'
    BY <1>2, <2>1 DEF Listed
  <2> QED
    BY <2>2, <2>3
<1>8. \A s \in kept : s \in kept'
  BY <1>2
<1>9. ASSUME NEW s \in tree.nodes, Covered(s), status'[s] = "live",
             s \in kept \/ (path # NoNode /\ s = path)
      PROVE  Covered(s)'
  BY <1>2, <1>7, <1>8, <1>9, StillCovered
<1>10. ASSUME NEW s \in kept' PROVE status'[s] = "live" /\ s \notin dfs_roots' /\ s # path' /\ Covered(s)'
  <2>1. s \in kept \/ (path # NoNode /\ s = path)
    BY <1>2, <1>10
  <2>2. s \in tree.nodes /\ status[s] = "live" /\ s \notin dfs_roots /\ Covered(s)
    BY <1>4, <2>1, KnownKept DEF KeptHeld
  <2>3. s # t /\ status'[s] = "live"
    BY <1>2, <1>3, <2>2, KnownKept, KnownThere DEF ControlTypeOK
  <2> QED
    BY <1>2, <1>9, <2>1, <2>2, <2>3
<1>11. t \notin dfs_roots
  BY <1>3, KnownKept DEF KeptHeld, Finishes
<1>12. Covered(t)'
  <2>1. CASE path # NoNode
    BY <1>2, <1>4, <2>1 DEF Covered, Parent, Root
  <2>2. CASE path = NoNode /\ node # NoNode
    BY <1>2, <2>2 DEF Covered, Listed
  <2>3. CASE path = NoNode /\ node = NoNode
    <3>1. pc = "load"
      BY <1>3, <1>4, <2>3, KnownKept DEF InHand
    <3>2. t \in Range(level_list)
      BY <1>1, <1>2, <3>1, KnownKept DEF ChildFacts
    <3> QED
      BY <1>2, <3>2 DEF Covered, Listed
  <2> QED
    BY <2>1, <2>2, <2>3
<1>13. Covered(path)'
  BY <1>2, <1>12 DEF Covered
<1>14. \A s \in dfs_roots' : Finishes(s)'
  BY <1>0, <1>2, RootsStayFinished
<1> QED
  BY <1>2, <1>6, <1>10, <1>11, <1>13, <1>14 DEF KeptHeld

(* The end of a path: the child is put into the list of the next level, if *)
(* the node is not pruned.                                                 *)
LEMMA EndPathKept ==
  ASSUME KInv, GInv', EndPath, StaysFinished, cur' = NoNode, path # NoNode
  PROVE  ChildFacts' /\ KeptHeld'
<1>1. /\ path' = NoNode /\ child' = NoNode /\ KeepAlive(kept) /\ pc' \in {"load", "loop"}
      /\ UNCHANGED <<level_list, next_child, dfs_roots>> /\ tree' = tree
  BY DEF EndPath, StaysFinished
<1>2. pc' = "load" => node' = NoNode
  BY DEF EndPath
<1>3. ChildFacts'
  BY <1>1, <1>2, NoChild
<1>4. kept' = {t \in kept : status'[t] # "pruned"}
  BY <1>1 DEF KeepAlive
<1>5. ASSUME NEW t \in kept'
      PROVE  t \in tree.nodes /\ t # NoNode /\ t \notin dfs_roots /\ status'[t] = "live"
  BY <1>4, <1>5, KnownKept DEF KeptHeld, StaysFinished, Finishes
<1>6. ASSUME NEW t \in kept', t # Root, Parent(t) = node
      PROVE  node' = node /\ node # NoNode /\ next_list' = PutIntoList(next_list, child)
  <2>1. t \in tree.nodes \ {Root} /\ status'[t] = "live"
    BY <1>5, <1>6
  <2>2. node \in tree.nodes /\ node # NoNode /\ status'[node] = "live"
    BY <1>1, <1>6, <2>1, KnownKept, ParentLives
  <2>3. status'[node] # "pruned"
    BY <2>2
  <2> QED
    BY <2>2, <2>3 DEF EndPath
<1>7. ASSUME NEW t \in kept', t \in Listed PROVE t \in Listed'
  <2>1. CASE t \in Range(level_list)
    BY <1>1, <2>1 DEF Listed
  <2>2. next_list \in Seq(tree.nodes) /\ level_list \in Seq(tree.nodes)
    BY KnownKept DEF Placed
  <2>3. t \in tree.nodes
    BY <1>5, <1>7
  <2>4. CASE t \in Range(next_list)
    <3>1. next_list' = next_list \/ next_list' = PutIntoList(next_list, child)
      BY DEF EndPath
    <3>2. CASE next_list' = Append(next_list, child) /\ child \in tree.nodes
      BY <2>2, <2>4, <3>2, RangeAppended DEF Listed
    <3>3. CASE next_list' = next_list
      BY <2>4, <3>3 DEF Listed
    <3>4. next_list' = Append(next_list, child) => child \in tree.nodes
      <4>1. next_list' = PutIntoList(next_list, child) /\ child = NoNode => node = NoNode
        BY KnownKept DEF InHand
      <4>2. child \in tree.nodes \cup {NoNode}
        BY KnownKept DEF Placed
      <4>3. (node = NoNode \/ status'[node] = "pruned") => next_list' = next_list
        BY DEF EndPath
      <4>4. next_list' = Append(next_list, child) => next_list' # next_list
        <5>1. ASSUME NEW x, next_list' = Append(next_list, x) PROVE Len(next_list') = Len(next_list) + 1
          BY <2>2, <5>1
        <5>2. Len(next_list) \in Nat
          BY <2>2
        <5> QED
          BY <5>1, <5>2
      <4>5. child = NoNode => node = NoNode
        BY KnownKept DEF InHand
      <4> QED
        BY <4>2, <4>3, <4>4, <4>5
    <3> QED
      BY <3>1, <3>2, <3>3, <3>4 DEF PutIntoList
  <2>5. CASE t = child
    <3>1. node # NoNode
      BY <1>5, <1>7, <2>5, KnownKept DEF ChildFacts
    <3>2. t # Root /\ Parent(t) = node
      BY <2>5, <3>1, KnownKept DEF ChildFacts
    <3>3. next_list' = PutIntoList(next_list, t)
      BY <1>6, <1>7, <2>5, <3>2
    <3>4. next_list' = Append(next_list, t)
      BY <1>5, <1>7, <3>3 DEF PutIntoList
    <3> QED
      BY <2>2, <2>3, <3>4, RangeAppended DEF Listed
  <2> QED
    BY <1>7, <2>1, <2>4, <2>5 DEF Listed
<1>8. \A t \in dfs_roots' : Finishes(t)'
  BY <1>1, RootsStayFinished
<1>9. PICK K \in SUBSET kept : K = kept
  OBVIOUS
<1>10. \A t \in kept' : t # Root /\ Parent(t) = node /\ Last(t) >= next_child =>
          t \in Listed' \/ (node' = node /\ Last(t) >= next_child')
  BY <1>1, <1>6
<1>11. KeptHeld'
  BY <1>1, <1>4, <1>7, <1>8, <1>9, <1>10, KeptStep
<1> QED
  BY <1>3, <1>11

LEMMA EndKept ==
  ASSUME KInv, GInv', ReportPath \/ GiveUp \/ EndDFS
  PROVE  ChildFacts' /\ KeptHeld'
<1>0. StaysFinished
  BY KnownKept, NextFinishes DEF Next
<1>1. EndPath /\ cur = NoNode /\ pc \in {"extend", "dfs"}
  BY DEF ReportPath, GiveUp, EndDFS, Free, Traversed
<1>2. path # NoNode
  BY <1>1, KnownKept DEF InHand
<1>3. cur' = NoNode
  <2>1. CASE ReportPath
    <3>1. PICK t : t = path
      OBVIOUS
    <3>2. t \in tree.nodes /\ ReportVisited(t, Held)
      BY <1>1, <2>1, <3>1, KnownKept DEF ReportPath, InHand, Placed
    <3> QED
      BY <1>1, <3>2, KnownKept, KnownThere, ReportTree, StillFinished
  <2>2. CASE GiveUp \/ EndDFS
    BY <1>1, <2>2 DEF GiveUp, EndDFS, nodeVars, treeVars
  <2> QED
    BY <2>1, <2>2
<1> QED
  BY <1>0, <1>1, <1>2, <1>3, EndPathKept

(* A node is taken from the list of its level; it need not be kept alive   *)
(* any more, and its children wait for the loop over them.                 *)
LEMMA LoadKept ==
  ASSUME KInv, GInv', Load
  PROVE  ChildFacts' /\ KeptHeld'
<1>0. StaysFinished
  BY KnownKept, NextFinishes DEF Next
<1>1. PICK h : h = Head(level_list)
  OBVIOUS
<1>2. /\ pc = "load" /\ cur = NoNode /\ level_list # <<>> /\ level_list' = Tail(level_list)
      /\ KeepAlive(kept \ {h})
      /\ UNCHANGED <<next_list, child, path, dfs_roots>>
      /\ \/ status[h] = "pruned" /\ UNCHANGED <<nodeVars, pc, node, next_child>>
         \/ /\ status[h] # "pruned" /\ BeforeDescend(h)
            /\ pc' = "enter" /\ node' = h /\ next_child' = 0
  BY <1>1 DEF Load, Free
<1>3. path = NoNode /\ child = NoNode /\ node = NoNode
  BY <1>2, KnownKept DEF ChildFacts, InHand
<1>4. cur' = NoNode
  BY <1>2 DEF nodeVars, treeVars, BeforeDescend, PruneSubtree
<1>5. ChildFacts'
  BY <1>2, <1>3, <1>4, NoChild
<1>6. PICK K \in SUBSET kept : K = kept \ {h}
  OBVIOUS
<1>7. kept' = {t \in K : status'[t] # "pruned"}
  BY <1>2, <1>6 DEF KeepAlive
<1>8. \A t \in dfs_roots' : Finishes(t)'
  BY <1>0, <1>2, RootsStayFinished
<1>9. \A s \in kept \ K : (s = node' /\ next_child' = 0) \/ status'[s] = "pruned"
  <2>1. h \in kept => status[h] # "pruned"
    BY KnownKept DEF KeptHeld
  <2> QED
    BY <1>2, <1>6, <2>1
<1>10. ASSUME NEW t \in kept', t \in Listed PROVE t \in Listed'
  <2>1. t # h /\ t # NoNode
    BY <1>6, <1>7, <1>10, KnownKept
  <2>2. level_list \in Seq(tree.nodes)
    BY KnownKept DEF Placed
  <2>3. Range(level_list) \subseteq Range(level_list') \cup {h}
    BY <1>1, <1>2, <2>2, RangeOfTail
  <2> QED
    BY <1>2, <1>10, <2>1, <2>3 DEF Listed
<1>11. ASSUME NEW t \in kept', t # Root, Parent(t) = node PROVE FALSE
  <2>1. t \in tree.nodes
    BY <1>6, <1>7, <1>11, KnownKept
  <2> QED
    BY <1>3, <1>11, <2>1, KnownKept, ChildAbove
<1>12. pc' \notin {"visit", "extend"}
  BY <1>2
<1>13. KeptHeld'
  BY <1>0, <1>2, <1>7, <1>8, <1>9, <1>10, <1>11, <1>12, KeptStep
<1> QED
  BY <1>5, <1>13

LEMMA NextLevelKept ==
  ASSUME KInv, GInv', NextLevel
  PROVE  ChildFacts' /\ KeptHeld'
<1>0. StaysFinished
  BY KnownKept, NextFinishes DEF Next
<1>1. /\ pc = "load" /\ pc' = "load" /\ cur = NoNode /\ level_list = <<>> /\ level_list' = next_list
      /\ UNCHANGED <<treeVars, node, next_child, child, path, kept, dfs_roots>>
  BY DEF NextLevel, Free, nodeVars
<1>2. status' = status /\ cur' = NoNode
  BY <1>1 DEF treeVars
<1>3. path = NoNode /\ child = NoNode /\ node = NoNode
  BY <1>1, KnownKept DEF ChildFacts, InHand
<1>4. ChildFacts'
  BY <1>1, <1>2, <1>3, NoChild
<1>5. kept' = {t \in kept : status'[t] # "pruned"}
  BY <1>0, <1>1, <1>2, AllKept
<1>6. \A t \in dfs_roots' : Finishes(t)'
  BY <1>0, <1>1, RootsStayFinished
<1>7. Listed \subseteq Listed'
  <2>1. Range(level_list) = {}
    BY <1>1 DEF Range
  <2> QED
    BY <1>1, <2>1 DEF Listed
<1>8. ASSUME NEW t \in kept', t # Root, Parent(t) = node PROVE FALSE
  <2>1. t \in tree.nodes
    BY <1>1, <1>8, KnownKept
  <2> QED
    BY <1>3, <1>8, <2>1, KnownKept, ChildAbove
<1>9. PICK K \in SUBSET kept : K = kept
  OBVIOUS
<1>10. KeptHeld'
  BY <1>0, <1>1, <1>5, <1>6, <1>7, <1>8, <1>9, KeptStep
<1> QED
  BY <1>4, <1>10

(* A node is left when no child that is kept waits for it any more.        *)
LEMMA LeaveNodeKept ==
  ASSUME KInv, GInv', StaysFinished, LeaveNode, dfs_roots' = dfs_roots, path = NoNode, cur = NoNode,
         \A t \in kept : t # Root /\ Parent(t) = node /\ Last(t) >= next_child => FALSE
  PROVE  ChildFacts' /\ KeptHeld'
<1>1. /\ pc' = "load" /\ node' = NoNode
      /\ UNCHANGED <<treeVars, level_list, next_list, next_child, child, path, kept>>
  BY DEF LeaveNode, nodeVars
<1>2. status' = status /\ cur' = NoNode
  BY <1>1 DEF treeVars
<1>3. child = NoNode
  BY KnownKept DEF ChildFacts
<1>4. ChildFacts'
  BY <1>1, <1>2, <1>3, NoChild
<1>5. kept' = {t \in kept : status'[t] # "pruned"}
  BY <1>1, <1>2, AllKept
<1>6. \A t \in dfs_roots' : Finishes(t)'
  BY RootsStayFinished
<1>7. Listed' = Listed
  BY <1>1 DEF Listed
<1>8. PICK K \in SUBSET kept : K = kept
  OBVIOUS
<1>9. KeptHeld'
  BY <1>1, <1>5, <1>6, <1>7, <1>8, KeptStep
<1> QED
  BY <1>4, <1>9

LEMMA NoneWaits ==
  ASSUME KInv, GInv', tree' = tree, NEW n \in tree.nodes, status[n] = "pruned" \/ IsLeaf(n)
  PROVE  \A t \in kept : t # Root => Parent(t) # n
<1>1. ASSUME NEW t \in kept, t # Root, Parent(t) = n PROVE FALSE
  <2>1. t \in tree.nodes \ {Root} /\ status[t] = "live"
    BY <1>1, KnownKept DEF KeptHeld
  <2>2. status[n] = "live"
    BY <1>1, <2>1, ParentLives
  <2>3. t \in Children(n)
    BY <1>1, <2>1, KnownKept DEF Children, IsTree
  <2> QED
    BY <2>2, <2>3 DEF IsLeaf
<1> QED
  BY <1>1

LEMMA EnterKept ==
  ASSUME KInv, GInv', Enter
  PROVE  ChildFacts' /\ KeptHeld'
<1>0. StaysFinished
  BY KnownKept, NextFinishes DEF Next
<1>1. PICK n : n = node
  OBVIOUS
<1>2. /\ pc = "enter" /\ cur = NoNode /\ dfs_roots' = dfs_roots
      /\ \/ (status[n] = "pruned" \/ IsLeaf(n)) /\ LeaveNode
         \/ /\ pc' = "loop"
            /\ UNCHANGED <<treeVars, level_list, next_list, node, next_child, child, path, kept>>
  BY <1>1 DEF Enter, Free, nodeVars
<1>3. path = NoNode /\ n \in tree.nodes /\ tree' = tree /\ child = NoNode
  BY <1>0, <1>1, <1>2, KnownKept DEF InHand, Placed, StaysFinished, ChildFacts
<1>4. CASE (status[n] = "pruned" \/ IsLeaf(n)) /\ LeaveNode
  BY <1>0, <1>1, <1>2, <1>3, <1>4, NoneWaits, LeaveNodeKept
<1>5. CASE /\ pc' = "loop"
           /\ UNCHANGED <<treeVars, level_list, next_list, node, next_child, child, path, kept>>
  <2>1. status' = status /\ cur' = NoNode
    BY <1>2, <1>5 DEF treeVars
  <2>2. KeepAlive(kept)
    BY <1>0, <1>5, <2>1, AllKept DEF KeepAlive
  <2>3. ChildFacts'
    BY <1>3, <1>5, <2>1, NoChild
  <2> QED
    BY <1>0, <1>2, <1>5, <2>2, <2>3, SamePlaceKept
<1> QED
  BY <1>2, <1>4, <1>5

LEMMA IterateKept ==
  ASSUME KInv, GInv', Iterate
  PROVE  ChildFacts' /\ KeptHeld'
<1>0. StaysFinished
  BY KnownKept, NextFinishes DEF Next
<1>1. /\ pc = "loop" /\ cur = NoNode /\ dfs_roots' = dfs_roots
      /\ \/ ToDo = {} /\ LeaveNode
         \/ /\ pc' = "choose" /\ BeforeDescend(node) /\ KeepAlive(kept)
            /\ UNCHANGED <<level_list, next_list, node, next_child, child, path>>
  BY DEF Iterate, Free
<1>2. path = NoNode /\ node \in tree.nodes /\ child = NoNode
  BY <1>1, KnownKept DEF InHand, Placed, ChildFacts
<1>3. CASE ToDo = {} /\ LeaveNode
  <2>1. ASSUME NEW t \in kept, t # Root, Parent(t) = node, Last(t) >= next_child PROVE FALSE
    <3>1. t \in Children(node)
      BY <1>2, <2>1, KnownKept DEF Children, IsTree
    <3> QED
      BY <1>3, <2>1, <3>1 DEF ToDo
  <2> QED
    BY <1>0, <1>1, <1>2, <1>3, <2>1, LeaveNodeKept
<1>4. CASE /\ pc' = "choose" /\ BeforeDescend(node) /\ KeepAlive(kept)
           /\ UNCHANGED <<level_list, next_list, node, next_child, child, path>>
  <2>1. cur' = NoNode
    BY <1>1, <1>4 DEF BeforeDescend, PruneSubtree, treeVars
  <2>2. ChildFacts'
    BY <1>2, <1>4, <2>1, NoChild
  <2> QED
    BY <1>0, <1>1, <1>4, <2>2, SamePlaceKept
<1> QED
  BY <1>1, <1>3, <1>4

(* The loop gets to a child: if it is kept it exists, and is put into the  *)
(* list.                                                                   *)
LEMMA ChooseKept ==
  ASSUME KInv, GInv', Choose
  PROVE  ChildFacts' /\ KeptHeld'
<1>0. StaysFinished
  BY KnownKept, NextFinishes DEF Next
<1>1. PICK n : n = node
  OBVIOUS
<1>2. PICK c : c = First(ToDo)
  OBVIOUS
<1>3. /\ pc = "choose" /\ cur = NoNode /\ dfs_roots' = dfs_roots
      /\ \/ status[n] = "pruned" /\ LeaveNode
         \/ /\ pc' = "loop" /\ next_child' = Last(c) + 1
            /\ UNCHANGED <<level_list, node, child, path, kept>>
            /\ \/ Flagged(c, Held) /\ UNCHANGED <<nodeVars, next_list>>
               \/ ~Flagged(c, Held) /\ status[c] # "absent" /\ next_list' = PutIntoList(next_list, c)
                  /\ UNCHANGED nodeVars
               \/ status[c] = "absent" /\ CreateBegin(c) /\ next_list' = next_list
  BY <1>1, <1>2 DEF Choose, Free
<1>4. path = NoNode /\ n \in tree.nodes /\ tree' = tree /\ child = NoNode /\ ToDo # {}
  BY <1>0, <1>1, <1>3, KnownKept, KnownThere DEF InHand, Placed, StaysFinished, ChildFacts, Current
<1>5. c \in Children(n) /\ c \in ToDo /\ \A d \in ToDo : Last(c) <= Last(d)
  <2>1. ToDo \in SUBSET Children(n)
    BY <1>1 DEF ToDo
  <2> QED
    BY <1>2, <1>4, <2>1, KnownKept, FirstIsOne
<1>6. c \in tree.nodes \ {Root} /\ Parent(c) = n /\ Last(c) \in Nat
  BY <1>4, <1>5, KnownKept, ChildrenAreNodes
<1>7. CASE status[n] = "pruned" /\ LeaveNode
  BY <1>0, <1>1, <1>3, <1>4, <1>7, NoneWaits, LeaveNodeKept
<1>8. CASE ~(status[n] = "pruned" /\ LeaveNode)
  <2>1. /\ pc' = "loop" /\ next_child' = Last(c) + 1
        /\ UNCHANGED <<level_list, node, child, path, kept>>
    BY <1>3, <1>8
  <2>2. c \in kept => status[c] = "live" /\ ~Flagged(c, Held)
    <3>1. ASSUME c \in kept PROVE c \notin child_pruned /\ status[c] = "live" /\ Exists(c, Held)
      <4>1. status[c] = "live" /\ c \notin child_pruned
        BY <1>4, <1>6, <3>1, KnownKept, ParentLives DEF KeptHeld
      <4>2. c \in Held /\ c # NoNode /\ Above(c, c)
        BY <1>6, <3>1, KnownKept, AboveOn DEF Held
      <4> QED
        BY <4>1, <4>2 DEF Exists, ExistsAmong, Holders
    <3> QED
      BY <3>1 DEF Flagged
  <2>3. c \in kept => next_list' = Append(next_list, c)
    BY <1>3, <1>8, <2>2, KnownKept DEF PutIntoList, KeptHeld
  <2>4. next_list \in Seq(tree.nodes)
    BY KnownKept DEF Placed
  <2>5. Range(next_list) \subseteq Range(next_list') /\ (c \in kept => c \in Range(next_list'))
    <3>1. next_list' = next_list \/ next_list' = Append(next_list, c)
      BY <1>3, <1>8 DEF PutIntoList
    <3>2. Range(Append(next_list, c)) = Range(next_list) \cup {c}
      BY <1>6, <2>4, RangeAppended
    <3>3. CASE next_list' = Append(next_list, c)
      BY <3>2, <3>3
    <3>4. CASE next_list' = next_list /\ next_list' # Append(next_list, c)
      BY <2>3, <3>4
    <3> QED
      BY <3>1, <3>3, <3>4
  <2>6. Listed \subseteq Listed'
    BY <2>1, <2>5 DEF Listed
  <2>7. ASSUME NEW t \in kept, t # Root, Parent(t) = node, Last(t) >= next_child
        PROVE  t \in Listed' \/ (node' = node /\ Last(t) >= next_child')
    <3>1. t \in Children(n) /\ t \in ToDo
      BY <1>1, <1>4, <2>7, KnownKept DEF Children, IsTree, ToDo
    <3>2. Last(c) <= Last(t) /\ Last(t) \in Nat
      BY <1>4, <1>5, <3>1, KnownKept, ChildrenAreNodes
    <3>3. CASE Last(t) = Last(c)
      <4>1. Symmetric
        BY KnownKept, KnownWalk, KnownNodes
      <4>2. t = c
        BY <1>4, <1>5, <3>1, <3>3, <4>1, SameLast
      <4> QED
        BY <2>5, <2>7, <4>2 DEF Listed
    <3>4. CASE Last(t) # Last(c)
      BY <1>6, <2>1, <3>2, <3>4
    <3> QED
      BY <3>3, <3>4
  <2>8. KeepAlive(kept)
    <3>1. status' = status \/ (status[c] = "absent" /\ status' = [status EXCEPT ![c] = "constructing"])
      BY <1>3, <1>8 DEF nodeVars, treeVars, CreateBegin
    <3>2. \A t \in tree.nodes : status'[t] = status[t] \/ t = cur \/ status[t] = "absent"
      BY <1>6, <3>1, KnownKept, KnownThere DEF ControlTypeOK
    <3> QED
      BY <1>0, <2>1, <3>2, KeptInConstruction
  <2>9. kept' = {t \in kept : status'[t] # "pruned"}
    BY <2>8 DEF KeepAlive
  <2>10. \A t \in dfs_roots' : Finishes(t)'
    BY <1>0, <1>3, RootsStayFinished
  <2>11. PICK K \in SUBSET kept : K = kept
    OBVIOUS
  <2>12. \A t \in kept' : t # Root /\ Parent(t) = node /\ Last(t) >= next_child =>
           t \in Listed' \/ (node' = node /\ Last(t) >= next_child')
    BY <2>1, <2>7
  <2>13. KeptHeld'
    BY <1>0, <1>3, <2>1, <2>6, <2>9, <2>10, <2>11, <2>12, KeptStep
  <2>14. cur' \in {NoNode, c}
    BY <1>3, <1>8 DEF nodeVars, treeVars, CreateBegin
  <2>15. ChildFacts'
    BY <1>1, <1>4, <1>6, <2>1, <2>14, NoChild
  <2> QED
    BY <2>13, <2>15
<1> QED
  BY <1>7, <1>8

LEMMA NextKInv == KInv /\ GenerationFits /\ [Next]_vars => KInv'
<1> SUFFICES ASSUME KInv, GenerationFits, [Next]_vars PROVE KInv'
  OBVIOUS
<1>1. GInv'
  BY KnownKept, NextGInv
<1>2. ASSUME Refine \/ Tell \/ Prune \/ Visit \/ StepDFS PROVE ChildFacts' /\ KeptHeld'
  BY <1>1, <1>2, ConstructionKept
<1>3. ASSUME Created \/ Extend \/ StartDFS PROVE ChildFacts' /\ KeptHeld'
  BY <1>1, <1>3, CreatedKept, ExtendKept, StartDFSKept
<1>4. ASSUME ReportPath \/ GiveUp \/ EndDFS PROVE ChildFacts' /\ KeptHeld'
  BY <1>1, <1>4, EndKept
<1>5. ASSUME Load \/ NextLevel \/ Enter \/ Iterate \/ Choose PROVE ChildFacts' /\ KeptHeld'
  BY <1>1, <1>5, LoadKept, NextLevelKept, EnterKept, IterateKept, ChooseKept
<1>6. CASE Stop \/ UNCHANGED vars
  <2>1. UNCHANGED <<nodeVars, loopVars, kept, dfs_roots>>
    BY <1>6 DEF Stop, vars, bfsVars
  <2>2. UNCHANGED <<pc, level_list, next_list, node, next_child, child, path, kept, dfs_roots, status, cur, tree>>
    BY <2>1 DEF nodeVars, treeVars, loopVars
  <2> QED
    BY <1>1, <2>2 DEF KInv, ChildFacts, KeptHeld, Covered, Listed, Finishes, Root, Parent, Above
<1> QED
  BY <1>1, <1>2, <1>3, <1>4, <1>5, <1>6 DEF Next, KInv

LEMMA InitKInv == Init /\ pruner = "basic" => KInv
<1> SUFFICES ASSUME Init, pruner = "basic" PROVE KInv
  OBVIOUS
<1>1. GInv
  BY InitGInv
<1>2. /\ pc = "load" /\ level_list = <<Root>> /\ node = NoNode /\ child = NoNode /\ path = NoNode
      /\ kept = {} /\ dfs_roots = {} /\ cur = Root
  BY DEF Init, TreeInit
<1>3. Root \in Range(level_list)
  BY <1>2 DEF Range
<1> QED
  BY <1>1, <1>2, <1>3 DEF KInv, ChildFacts, KeptHeld

LEMMA AlwaysKInv == Spec /\ []GenerationFits /\ pruner = "basic" => []KInv
<1>1. Init /\ pruner = "basic" => KInv
  BY InitKInv
<1>2. KInv /\ GenerationFits /\ [Next]_vars => KInv'
  BY NextKInv
<1> QED
  BY <1>1, <1>2, PTL DEF Spec

(* A kept node waits for its list: when the traversal is over there is     *)
(* none, for one that is nearest to the root would have to be in a list.   *)
LEMMA KeptReleased ==
  ASSUME KInv
  PROVE  KeptAreReleased
<1>1. ASSUME NEW t \in kept
      PROVE  \/ t \in Range(level_list) \cup Range(next_list) \cup {child}
             \/ (t # Root /\ Parent(t) \in Held)
  <2>1. Covered(t) /\ t \in tree.nodes
    BY <1>1, KnownKept DEF KeptHeld
  <2>2. CASE t # Root /\ (Parent(t) \in kept \/ Parent(t) = node)
    <3>1. Parent(t) # NoNode
      BY <2>1, <2>2, KnownKept, ChildAbove
    <3> QED
      BY <2>2, <3>1 DEF Held
  <2> QED
    BY <2>1, <2>2 DEF Covered, Listed
<1>2. ASSUME Finished PROVE kept = {}
  <2>1. pc = "load" /\ level_list = <<>> /\ next_list = <<>> /\ Range(level_list) = {} /\ Range(next_list) = {}
    BY <1>2 DEF Finished, Range
  <2>2. node = NoNode /\ child = NoNode
    BY <2>1, KnownKept DEF ChildFacts, InHand
  <2>3. \A t \in kept : t \in tree.nodes \ {Root} /\ Parent(t) \in kept
    BY <2>1, <2>2, KnownKept, ChildAbove DEF KeptHeld, Covered, Listed
  <2>4. SUFFICES ASSUME NEW u \in kept PROVE FALSE
    OBVIOUS
  <2> DEFINE L == {Len(t) : t \in kept}
  <2>5. L \subseteq Nat /\ L # {}
    <3>1. \A t \in kept : t \in Seq(Nat)
      BY KnownKept DEF IsTree
    <3>2. \A t \in kept : Len(t) \in Nat
      BY <3>1
    <3> QED
      BY <2>4, <3>2
  <2>6. PICK m \in L : \A k \in L : m <= k
    BY <2>5, LeastNatural
  <2>7. PICK t \in kept : Len(t) = m
    BY <2>6
  <2>8. Parent(t) \in kept /\ Len(t) = Len(Parent(t)) + 1 /\ Len(Parent(t)) \in Nat
    BY <2>3, <2>5, <2>7, KnownKept, ChildAbove
  <2>9. m <= Len(Parent(t))
    BY <2>6, <2>8
  <2> QED
    BY <2>7, <2>8, <2>9
<1> QED
  BY <1>1, <1>2 DEF KeptAreReleased

(* However the order of events, a node that was made to point to itself    *)
(* lets go again: until the traversal takes it from a list or prunes it,   *)
(* it is in a list or its parent is on the way to one.                     *)
THEOREM KeptAlwaysReleased ==
  Spec /\ [](generation < SizeTypeSize) /\ pruner = "basic" => []KeptAreReleased
<1>1. KInv => KeptAreReleased
  BY KeptReleased
<1> QED
  BY <1>1, AlwaysKInv, PTL DEF GenerationFits

-----------------------------------------------------------------------------
(* The count of nodes.                                                     *)

LEMMA PathsUp ==
  ASSUME IsTree(tree), NEW t \in tree.nodes, NEW s \in PathTo(t)
  PROVE  /\ s \in tree.nodes /\ Above(s, t) /\ PathTo(s) \subseteq PathTo(t) /\ t \in PathTo(t)
         /\ s = t \/ (t # Root /\ s \in PathTo(Parent(t)))
<1>1. PICK l \in 0 .. Len(t) : s = Ancestor(t, l)
  BY DEF PathTo
<1>2. /\ s \in tree.nodes /\ Len(s) = l /\ Above(s, t) /\ Ancestor(t, Len(t)) = t /\ Len(t) \in Nat
  BY <1>1, AncestorsAbove
<1>3. PathTo(s) \subseteq PathTo(t)
  <2>1. ASSUME NEW k \in 0 .. Len(s) PROVE Ancestor(s, k) = Ancestor(t, k) /\ k \in 0 .. Len(t)
    BY <1>1, <1>2, <2>1, AncestorOfAncestor
  <2> QED
    BY <2>1 DEF PathTo
<1>4. t \in PathTo(t)
  BY <1>2 DEF PathTo
<1>5. ASSUME s # t PROVE t # Root /\ s \in PathTo(Parent(t))
  <2>1. l \in 0 .. Len(t) - 1 /\ Len(t) # 0
    BY <1>1, <1>2, <1>5
  <2>2. t # Root
    BY <2>1, RootLevel DEF Level
  <2>3. Parent(t) = Ancestor(t, Len(t) - 1) /\ Len(Parent(t)) = Len(t) - 1 /\ Len(t) - 1 \in 0 .. Len(t)
    BY <1>2, <2>1, <2>2, ParentIsAncestor, ParentFacts DEF Level
  <2>4. Ancestor(Parent(t), l) = Ancestor(t, l)
    BY <2>1, <2>3, AncestorOfAncestor
  <2> QED
    BY <1>1, <2>1, <2>2, <2>3, <2>4 DEF PathTo
<1> QED
  BY <1>2, <1>3, <1>4, <1>5

LEMMA HeldAreNodes ==
  ASSUME BInv
  PROVE  /\ Holders(Held) \ {NoNode} \subseteq tree.nodes
         /\ Root \in Holders(Held) \ {NoNode} /\ Root \in tree.nodes
         /\ \A t \in Holders(Held) \ {NoNode} :
              t \in Pointed \/ t = cur \/ t = Root \/ t \in KeptLeaves
<1>1. Pointed \subseteq tree.nodes
  BY AtLevel
<1>2. /\ {cur, canon_leaf, canon_graph, extra_graph} \subseteq tree.nodes \cup {NoNode}
      /\ Root \in tree.nodes /\ NoNode \notin tree.nodes
  BY KnownThere, NoNodeAssumption DEF ControlTypeOK, IsTree, TreeInv, Input
<1>3. \A t \in Holders(Held) \ {NoNode} : t \in Pointed \/ t = cur \/ t = Root \/ t \in KeptLeaves
  BY DEF Holders, Held, Pointed, KeptLeaves
<1>4. Root \in Holders(Held)
  BY <1>2 DEF Holders, Held
<1> QED
  BY <1>1, <1>2, <1>3, <1>4 DEF KeptLeaves

LEMMA ExistingNodes ==
  ASSUME BInv
  PROVE  /\ Existing \subseteq tree.nodes /\ Root \in Existing
         /\ Holders(Held) \ {NoNode} \subseteq Existing
         /\ \A t \in Existing : PathTo(t) \subseteq Existing
         /\ \A t \in Existing : Exists(t, Held)
         /\ \A t \in tree.nodes : Exists(t, Held) => t \in Existing
<1> DEFINE H == Holders(Held) \ {NoNode}
<1>1. Existing = UNION {PathTo(h) : h \in H}
  BY DEF Existing, PathOf
<1>2. H \subseteq tree.nodes /\ Root \in H /\ IsTree(tree)
  BY HeldAreNodes, KnownThere
<1>3. \A h \in H : h \in PathTo(h) /\ \A t \in PathTo(h) : t \in tree.nodes /\ Above(t, h) /\ PathTo(t) \subseteq PathTo(h)
  <2>1. ASSUME NEW h \in H PROVE h \in PathTo(h)
    BY <1>2, AncestorsAbove DEF PathTo
  <2> QED
    BY <1>2, <2>1, PathsUp
<1>4. \A t \in tree.nodes : Exists(t, Held) <=> \E h \in H : Above(t, h)
  BY DEF Exists, ExistsAmong
<1>5. ASSUME NEW t \in tree.nodes, NEW h \in H, Above(t, h) PROVE t \in PathTo(h)
  <2>1. Len(t) \in 0 .. Len(h) /\ t = Ancestor(h, Len(t))
    BY <1>2, <1>5, AncestorsAbove DEF Above, Ancestor
  <2> QED
    BY <2>1 DEF PathTo
<1> HIDE DEF H
<1>6. /\ Existing \subseteq tree.nodes /\ H \subseteq Existing
      /\ \A t \in Existing : PathTo(t) \subseteq Existing
  BY <1>1, <1>3
<1>7. \A t \in tree.nodes : t \in Existing <=> Exists(t, Held)
  BY <1>1, <1>3, <1>4, <1>5
<1> QED
  BY <1>2, <1>6, <1>7 DEF H

PointersIn(S) ==
  /\ {cur, head, node, child, path, canon_leaf, canon_graph, extra_graph} \subseteq S \cup {NoNode}
  /\ next_list = <<>> => old_head \in S \cup {NoNode}
  /\ Range(level_list) \cup Range(next_list) \cup kept \cup Working \subseteq S

(* What a step makes of the nodes that exist: what is pointed to after it  *)
(* was there, or is the new node.                                          *)
LEMMA ExistingFrom ==
  ASSUME BInv, tree' = tree, NEW c, NEW E, E = Existing \cup ({c} \ {NoNode}),
         c # NoNode => c \in tree.nodes /\ (c \in Existing \/ (c # Root /\ Parent(c) \in Existing)),
         PointersIn(E)'
  PROVE  Existing' \subseteq E
<1>1. Root \in E /\ E \subseteq tree.nodes /\ IsTree(tree) /\ Root' = Root
  BY ExistingNodes, KnownThere DEF Root
<1>2. \A h \in Holders(Held)' : h = NoNode \/ h \in E
  BY <1>1 DEF Holders, Held, PointersIn
<1>3. \A h \in E : PathTo(h) \subseteq E
  <2>1. ASSUME NEW h \in Existing PROVE PathTo(h) \subseteq E
    BY <2>1, ExistingNodes
  <2>2. ASSUME c # NoNode, c \notin Existing PROVE PathTo(c) \subseteq E
    <3>1. c \in tree.nodes \ {Root} /\ Parent(c) \in Existing
      BY <2>2
    <3>2. PathTo(Parent(c)) \subseteq Existing
      BY <3>1, ExistingNodes
    <3>3. ASSUME NEW s \in PathTo(c) PROVE s = c \/ s \in PathTo(Parent(c))
      BY <1>1, <3>1, <3>3, PathsUp
    <3> QED
      BY <2>2, <3>2, <3>3
  <2> QED
    BY <2>1, <2>2
<1>4. Existing' = UNION {PathOf(h) : h \in Holders(Held)'}
  BY DEF Existing, PathOf, PathTo, Ancestor
<1> QED
  BY <1>2, <1>3, <1>4 DEF PathOf

(* What is pointed to exists.                                              *)
LEMMA PointersExist ==
  ASSUME BInv
  PROVE  /\ {cur, head, node, child, path, canon_leaf, canon_graph, extra_graph} \subseteq Existing \cup {NoNode}
         /\ next_list = <<>> => old_head \in Existing \cup {NoNode}
         /\ Range(level_list) \cup Range(next_list) \cup kept \cup Working \subseteq Existing
         /\ NoNode \notin tree.nodes
<1>1. Holders(Held) \ {NoNode} \subseteq Existing
  BY ExistingNodes
<1>2. {cur, head, node, child, path, canon_leaf, canon_graph, extra_graph} \subseteq Holders(Held) \cup {NoNode}
  BY DEF Holders, Held
<1>3. next_list = <<>> => old_head \in Holders(Held) \cup {NoNode}
  BY DEF Holders, Held
<1>4. NoNode \notin tree.nodes
  BY KnownThere, NoNodeAssumption DEF TreeInv, Input
<1>5. Range(level_list) \cup Range(next_list) \cup kept \cup Working \subseteq Pointed
  BY DEF Pointed
<1>6. Range(level_list) \cup Range(next_list) \cup kept \cup Working \subseteq Holders(Held) \ {NoNode}
  <2>1. Pointed \subseteq tree.nodes
    BY AtLevel
  <2> QED
    BY <1>4, <1>5, <2>1 DEF Holders, Held
<1> QED
  BY <1>1, <1>2, <1>3, <1>4, <1>6

LEMMA WorkingIs ==
  /\ Working = {e.node : e \in Work}
  /\ Working' = {e.node : e \in Work'}
BY DEF Working, Work

LEMMA WorkingMoves ==
  ASSUME BInv, StepDFS
  PROVE  Working' \subseteq Working \cup ({cur} \ {NoNode})
<1>0. StackOK /\ \A e \in Work : e.node \in Working
  BY KnownThere, WorkingIs
<1>1. CASE Push
  <2>0. PICK t : t = cur
    OBVIOUS
  <2>1. /\ t # NoNode /\ t \in tree.nodes /\ stack' = Append(stack, Elem(t, 0)) /\ at' = at
    BY <1>1, <2>0, KnownThere DEF Push, NodeFinished, CreateLive, Emitted, ControlTypeOK
  <2>2. PICK e \in Elems : e = Elem(t, 0)
    BY <2>1 DEF Elem, Elems
  <2>3. e.node = t
    BY <2>2 DEF Elem
  <2>4. Work' \subseteq Work \cup {e}
    BY <1>0, <2>1, <2>2, StackAppended DEF Work
  <2> QED
    BY <1>0, <2>0, <2>1, <2>3, <2>4, WorkingIs
<1>2. CASE Pop
  <2>1. Work' \subseteq Work
    BY <1>0, <1>2, StackPopped DEF Pop
  <2> QED
    BY <2>1, WorkingIs
<1>3. CASE Skip \/ Leave(Held) \/ Report(Held)
  <2>1. stack' = stack /\ at' = NoNode
    BY <1>3 DEF Skip, Leave, Report, Go
  <2>2. Work' \subseteq Work
    BY <2>1 DEF Work
  <2> QED
    BY <2>2, WorkingIs
<1>4. CASE Descend(Held)
  <2>0. PICK t : t = at.node
    OBVIOUS
  <2>1. at # NoNode /\ at' = NoNode
    BY <1>4 DEF Descend, Go, Ready
  <2>2. PICK c \in Candidates(Held) : stack' = Append(stack, Resume(c))
    BY <1>4 DEF Descend
  <2>3. t \in Working /\ t \in tree.nodes
    BY <1>0, <2>0, <2>1, WorkingNodes
  <2>4. PICK e \in Elems : e = Resume(c) /\ e.node = t
    <3>1. c \in Children(t) /\ IsTree(tree)
      BY <2>0, <2>2, KnownThere DEF Candidates
    <3>2. c[Len(c)] \in Nat
      BY <2>3, <3>1, ChildrenAreNodes
    <3>3. PICK k \in Nat : k = c[Len(c)] + 1
      BY <3>2
    <3>4. Resume(c) = Elem(t, k)
      BY <2>0, <3>3 DEF Resume
    <3>5. Elem(t, k) \in Elems /\ Elem(t, k).node = t
      BY <2>3 DEF Elem, Elems
    <3> QED
      BY <3>4, <3>5
  <2>5. Work' \subseteq Work \cup {e}
    BY <1>0, <2>1, <2>2, <2>4, StackAppended DEF Work
  <2> QED
    BY <1>0, <2>3, <2>4, <2>5, WorkingIs
<1> QED
  BY <1>1, <1>2, <1>3, <1>4 DEF StepDFS

LEMMA LeavesReported ==
  ASSUME NEW t, NEW held, ReportVisited(t, held)
  PROVE  /\ canon_leaf' \in {canon_leaf, t}
         /\ {canon_graph', extra_graph'} \subseteq {canon_leaf, canon_graph, extra_graph, t}
         /\ tree' = tree /\ cur' = cur
BY DEF ReportVisited, ReportLeaf, Reference, AutomorphismLeaf, PruneSubtree

LEMMA LeavesVisited ==
  ASSUME NEW t, BeforeDescend(t)
  PROVE  /\ canon_leaf' \in {canon_leaf, NoNode} /\ UNCHANGED <<canon_graph, extra_graph>>
         /\ tree' = tree /\ cur' = cur
BY DEF BeforeDescend, PruneCanonLeafBelow, PruneCanonLeaf, PruneSubtree, treeVars, leafVars

(* Steps that create no node.                                              *)
LEMMA ExistingStays ==
  ASSUME BInv, tree' = tree, cur' \in {cur, NoNode},
         {head', node', child', path', canon_leaf', canon_graph', extra_graph'} \subseteq Existing \cup {NoNode},
         next_list' = <<>> => old_head' \in Existing \cup {NoNode},
         Range(level_list') \subseteq Existing, Range(next_list') \subseteq Existing,
         kept' \subseteq Existing, Working' \subseteq Existing
  PROVE  Existing' \subseteq Existing
<1>1. PICK c : c = cur'
  OBVIOUS
<1>2. PICK E : E = Existing \cup ({c} \ {NoNode})
  OBVIOUS
<1>3. c # NoNode => c \in tree.nodes /\ c \in Existing
  BY <1>1, PointersExist, ExistingNodes
<1>4. E = Existing
  BY <1>2, <1>3
<1>5. PointersIn(E)'
  BY <1>3, <1>4, PointersExist DEF PointersIn
<1>6. Existing' \subseteq E
  BY <1>2, <1>3, <1>5, ExistingFrom
<1> QED
  BY <1>4, <1>6

(* The loop is where it was.                                               *)
LEMMA ExistingInPlace ==
  ASSUME BInv, tree' = tree, cur' \in {cur, NoNode}, UNCHANGED loopVars,
         {canon_leaf', canon_graph', extra_graph'} \subseteq Existing \cup {NoNode},
         kept' \subseteq kept, Working' \subseteq Existing
  PROVE  Existing' \subseteq Existing
BY ExistingStays, PointersExist DEF loopVars

LEMMA ExistingAdds ==
  ASSUME BInv, cur = NoNode, NEW t \in tree.nodes, t \in Existing, NEW c \in Children(t), CreateBegin(c),
         UNCHANGED <<head, level_list, next_list, old_head, node, child, path>>, kept' \subseteq kept,
         Working' \subseteq Existing
  PROVE  Existing' \subseteq Existing \cup ({cur'} \ {NoNode}) /\ cur' = c /\ tree' = tree
<1>1. c \in tree.nodes \ {Root} /\ Parent(c) = t
  BY KnownThere, ChildrenAreNodes
<1>2. cur' = c /\ tree' = tree /\ UNCHANGED <<canon_leaf, canon_graph, extra_graph>>
  BY DEF CreateBegin, leafVars
<1>3. PICK E : E = Existing \cup ({c} \ {NoNode})
  OBVIOUS
<1>4. {cur', head', node', child', path', canon_leaf', canon_graph', extra_graph'} \subseteq E \cup {NoNode}
  BY <1>1, <1>2, <1>3, PointersExist
<1>5. /\ next_list' = <<>> => old_head' \in E \cup {NoNode}
      /\ Range(level_list') \subseteq E /\ Range(next_list') \subseteq E /\ kept' \subseteq E /\ Working' \subseteq E
  BY <1>3, PointersExist
<1>6. c # NoNode => c \in tree.nodes /\ (c \in Existing \/ (c # Root /\ Parent(c) \in Existing))
  BY <1>1
<1>7. tree' = tree /\ PointersIn(E)'
  BY <1>2, <1>4, <1>5 DEF PointersIn
<1>8. Existing' \subseteq E
  BY <1>3, <1>6, <1>7, ExistingFrom
<1> QED
  BY <1>2, <1>3, <1>8

Grows == Existing' \subseteq Existing \cup ({cur'} \ {NoNode})

LEMMA ConstructionExisting ==
  ASSUME BInv, Refine \/ Tell \/ Prune \/ Visit
  PROVE  Grows
<1>1. CASE Refine
  <2>1. Construct /\ UNCHANGED loopVars /\ kept' = kept /\ stack' = stack /\ at' = at
    BY <1>1 DEF Refine, Constructing, bfsVars, workVars
  <2>2. cur' \in {cur, NoNode} /\ tree' = tree /\ canon_leaf' \in {canon_leaf, NoNode} /\ UNCHANGED <<canon_graph, extra_graph>>
    BY <2>1, KnownThere, ConstructStatus
  <2>3. Working' = Working
    BY <2>1 DEF Working
  <2> QED
    BY <2>1, <2>2, <2>3, PointersExist, ExistingInPlace DEF Grows
<1>2. CASE Tell
  <2>1. UNCHANGED treeVars /\ UNCHANGED loopVars /\ kept' = kept /\ stack' = stack /\ at' = at
    BY <1>2 DEF Tell, AutomorphismImplicit, bfsVars, workVars
  <2>2. Working' = Working /\ tree' = tree /\ cur' = cur /\ UNCHANGED <<canon_leaf, canon_graph, extra_graph>>
    BY <2>1 DEF Working, treeVars, leafVars
  <2> QED
    BY <2>1, <2>2, PointersExist, ExistingInPlace DEF Grows
<1>3. CASE Prune
  <2>1. /\ ~Idle /\ (Update(Held) \/ Merge(Held)) /\ KeepAlive(kept)
        /\ UNCHANGED loopVars /\ stack' = stack /\ at' = at
    BY <1>3 DEF Prune, Update, Merge, workVars
  <2>2. cur' = cur /\ tree' = tree /\ UNCHANGED <<canon_leaf, canon_graph, extra_graph>>
    BY <2>1 DEF Update, Merge, Absorb, PruneSubtree, treeVars, leafVars
  <2>3. Working' = Working /\ kept' \subseteq kept
    BY <2>1, KeepsAlive DEF Working
  <2> QED
    BY <2>1, <2>2, <2>3, PointersExist, ExistingInPlace DEF Grows
<1>4. CASE Visit
  <2>1. PICK t : t = path
    OBVIOUS
  <2>2. /\ BeforeDescend(t) /\ KeepAlive(kept) /\ stack' = stack /\ at' = at
        /\ UNCHANGED <<head, level_list, next_list, old_head, node, child, path>>
    BY <1>4, <2>1 DEF Visit, workVars
  <2>3. Working' = Working /\ kept' \subseteq kept
    BY <2>2, KeepsAlive DEF Working
  <2>4. cur' = cur /\ tree' = tree /\ canon_leaf' \in {canon_leaf, NoNode} /\ UNCHANGED <<canon_graph, extra_graph>>
    BY <2>2, LeavesVisited
  <2> QED
    BY <2>2, <2>3, <2>4, PointersExist, ExistingStays DEF Grows
<1> QED
  BY <1>1, <1>2, <1>3, <1>4

LEMMA PathExisting ==
  ASSUME BInv, Created \/ Extend \/ StartDFS \/ StepDFS
  PROVE  Grows
<1>1. CASE Created
  <2>1. /\ cur # NoNode /\ cur' = NoNode /\ tree' = tree /\ path' = cur /\ child' \in {child, cur}
        /\ kept' \subseteq kept \cup ({path} \ {NoNode}) /\ UNCHANGED <<head, level_list, next_list, old_head, node>>
        /\ stack' = stack /\ at' = at /\ UNCHANGED <<canon_leaf, canon_graph, extra_graph>>
    BY <1>1 DEF Created, NodeFinished, CreateLive, Emitted, workVars, leafVars
  <2>2. Working' = Working
    BY <2>1 DEF Working
  <2> QED
    BY <2>1, <2>2, PointersExist, ExistingStays DEF Grows
<1>2. CASE Extend
  <2>1. PICK t : t = path
    OBVIOUS
  <2>2. /\ pc = "extend" /\ cur = NoNode /\ UNCHANGED loopVars /\ kept' = kept /\ stack' = stack /\ at' = at
        /\ NewChildren # {} /\ CreateBegin(First(NewChildren))
    BY <1>2 DEF Extend, Free, bfsVars, workVars
  <2>3. t \in tree.nodes /\ t \in Existing
    BY <2>1, <2>2, KnownThere, PointersExist DEF InHand, Placed
  <2>4. PICK c \in Children(t) : CreateBegin(c)
    <3>1. NewChildren \in SUBSET Children(t)
      BY <2>1 DEF NewChildren
    <3> QED
      BY <2>2, <2>3, <3>1, KnownThere, FirstIsOne
  <2>5. Working' = Working
    BY <2>2 DEF Working
  <2>6. UNCHANGED <<head, level_list, next_list, old_head, node, child, path>>
    BY <2>2 DEF loopVars
  <2> QED
    BY <2>2, <2>3, <2>4, <2>5, <2>6, PointersExist, ExistingAdds DEF Grows
<1>3. CASE StartDFS
  <2>1. /\ UNCHANGED treeVars /\ UNCHANGED <<head, level_list, next_list, old_head, node, child, path, kept>>
        /\ stack' = <<Elem(path, 0)>> /\ at' = at /\ pc = "visit"
    BY <1>3 DEF StartDFS, nodeVars
  <2>2. at = NoNode /\ path # NoNode
    BY <2>1, KnownThere DEF InHand
  <2>3. Working' = {path}
    BY <2>1, <2>2 DEF Working, Elem
  <2>4. tree' = tree /\ cur' = cur /\ UNCHANGED <<canon_leaf, canon_graph, extra_graph>>
    BY <2>1 DEF treeVars, leafVars
  <2> QED
    BY <2>1, <2>2, <2>3, <2>4, PointersExist, ExistingStays DEF Grows
<1>4. CASE StepDFS
  <2>1. Working' \subseteq Existing
    BY <1>4, WorkingMoves, PointersExist
  <2>2. KeepAlive(kept) /\ UNCHANGED loopVars
    BY <1>4 DEF StepDFS
  <2>3. kept' \subseteq kept
    BY <2>2, KeepsAlive
  <2>4. PICK t : t = at.node
    OBVIOUS
  <2>5. at # NoNode => t \in Existing /\ t \in tree.nodes /\ t # NoNode
    BY <2>4, KnownThere, WorkingNodes, PointersExist
  <2>6. CASE Descend(Held)
    <3>1. at # NoNode /\ cur = NoNode
      BY <2>6, KnownThere DEF Descend, Go, Ready, InHand
    <3>2. PICK c \in Candidates(Held) : CreateBegin(c)
      BY <2>6 DEF Descend
    <3>3. c \in Children(t)
      BY <2>4, <3>2 DEF Candidates
    <3>4. UNCHANGED <<head, level_list, next_list, old_head, node, child, path>>
      BY <2>2 DEF loopVars
    <3> QED
      BY <2>1, <2>3, <2>5, <3>1, <3>2, <3>3, <3>4, ExistingAdds DEF Grows
  <2>7. CASE ~Descend(Held)
    <3>1. /\ tree' = tree /\ cur' \in {cur, NoNode}
          /\ {canon_leaf', canon_graph', extra_graph'} \subseteq Existing \cup {NoNode}
      <4>1. CASE Push \/ Skip \/ Leave(Held)
        BY <4>1, PointersExist DEF Push, NodeFinished, CreateLive, Emitted, Skip, Leave, treeVars, leafVars
      <4>2. CASE Pop
        <5>1. PICK u : u = at'.node
          OBVIOUS
        <5>2. BeforeDescend(u)
          BY <4>2, <5>1 DEF Pop
        <5> QED
          BY <5>2, LeavesVisited, PointersExist
      <4>3. CASE Report(Held)
        <5>1. at # NoNode /\ ReportVisited(t, Held)
          BY <2>4, <4>3 DEF Report, Go, Ready
        <5> QED
          BY <2>5, <5>1, LeavesReported, PointersExist
      <4> QED
        BY <1>4, <2>7, <4>1, <4>2, <4>3 DEF StepDFS
    <3> QED
      BY <2>1, <2>2, <2>3, <3>1, ExistingInPlace DEF Grows
  <2> QED
    BY <2>6, <2>7
<1> QED
  BY <1>1, <1>2, <1>3, <1>4

LEMMA PutFacts ==
  ASSUME BInv, NEW c \in tree.nodes, next_list' = PutIntoList(next_list, c)
  PROVE  /\ Range(next_list') \subseteq Range(next_list) \cup {c}
         /\ next_list' = <<>> => next_list = <<>>
<1>1. next_list \in Seq(tree.nodes)
  BY AtLevel
<1>2. Append(next_list, c) # <<>> /\ Range(Append(next_list, c)) = Range(next_list) \cup {c}
  BY <1>1, RangeAppended
<1> QED
  BY <1>2 DEF PutIntoList

LEMMA EndExisting ==
  ASSUME BInv, ReportPath \/ GiveUp \/ EndDFS
  PROVE  Grows
<1>0. PICK t : t = path
  OBVIOUS
<1>1. EndPath /\ cur = NoNode /\ pc \in {"extend", "dfs"}
  BY DEF ReportPath, GiveUp, EndDFS, Free, Traversed
<1>2. t \in tree.nodes /\ t \in Existing /\ (node # NoNode => child \in tree.nodes)
  BY <1>0, <1>1, KnownThere, PointersExist DEF InHand, Placed
<1>3. /\ path' = NoNode /\ child' = NoNode /\ node' \in {node, NoNode} /\ KeepAlive(kept)
      /\ UNCHANGED <<head, level_list, old_head, stack, at>>
      /\ next_list' = next_list \/ (child \in tree.nodes /\ next_list' = PutIntoList(next_list, child))
  BY <1>1, <1>2 DEF EndPath, workVars
<1>4. Range(next_list') \subseteq Existing /\ (next_list' = <<>> => next_list = <<>>)
  BY <1>3, PutFacts, PointersExist
<1>5. Working' = Working /\ kept' \subseteq kept
  BY <1>3, KeepsAlive DEF Working
<1>6. /\ tree' = tree /\ cur' = cur
      /\ {canon_leaf', canon_graph', extra_graph'} \subseteq Existing \cup {NoNode}
  <2>1. CASE ReportPath
    <3>1. ReportVisited(t, Held)
      BY <1>0, <2>1 DEF ReportPath
    <3> QED
      BY <1>2, <3>1, LeavesReported, PointersExist
  <2>2. CASE GiveUp \/ EndDFS
    BY <2>2, PointersExist DEF GiveUp, EndDFS, nodeVars, treeVars, leafVars
  <2> QED
    BY <2>1, <2>2
<1>7. {head', node', child', path', canon_leaf', canon_graph', extra_graph'} \subseteq Existing \cup {NoNode}
  BY <1>3, <1>6, PointersExist
<1>8. Range(level_list') \subseteq Existing /\ kept' \subseteq Existing /\ Working' \subseteq Existing
  BY <1>3, <1>5, PointersExist
<1>9. next_list' = <<>> => old_head' \in Existing \cup {NoNode}
  BY <1>3, <1>4, PointersExist
<1> QED
  BY <1>4, <1>6, <1>7, <1>8, <1>9, ExistingStays DEF Grows

LEMMA LevelExisting ==
  ASSUME BInv, Load \/ NextLevel \/ Enter \/ Iterate
  PROVE  Grows
<1>1. /\ UNCHANGED <<child, path, stack, at>> /\ kept' \subseteq kept
      /\ UNCHANGED nodeVars \/ \E t : BeforeDescend(t)
  <2>1. UNCHANGED <<child, path, stack, at>>
    BY DEF Load, NextLevel, Enter, Iterate, LeaveNode, workVars
  <2>2. kept' = kept \/ \E K \in SUBSET kept : KeepAlive(K)
    BY DEF Load, NextLevel, Enter, Iterate, LeaveNode
  <2>3. UNCHANGED nodeVars \/ \E t : BeforeDescend(t)
    BY DEF Load, NextLevel, Enter, Iterate, LeaveNode
  <2> QED
    BY <2>1, <2>2, <2>3, KeepsAlive
<1>2. /\ tree' = tree /\ cur' = cur
      /\ {canon_leaf', canon_graph', extra_graph'} \subseteq Existing \cup {NoNode}
  BY <1>1, LeavesVisited, PointersExist DEF nodeVars, treeVars, leafVars
<1>3. Working' = Working
  BY <1>1 DEF Working
<1>4. /\ {head', node'} \subseteq Existing \cup {NoNode}
      /\ Range(level_list') \subseteq Existing /\ Range(next_list') \subseteq Existing
      /\ next_list' = <<>> => old_head' \in Existing \cup {NoNode}
  <2>1. CASE Load
    <3>1. level_list \in Seq(tree.nodes) /\ level_list # <<>>
      BY <2>1, AtLevel DEF Load
    <3>2. Head(level_list) \in Existing /\ Range(Tail(level_list)) \subseteq Existing
      BY <3>1, RangeOfTail, PointersExist
    <3> QED
      BY <2>1, <3>2, PointersExist DEF Load
  <2>2. CASE NextLevel
    <3>1. next_list \in Seq(tree.nodes) /\ next_list # <<>>
      BY <2>2, AtLevel DEF NextLevel
    <3>2. Head(next_list) \in Existing
      BY <3>1, RangeOfTail, PointersExist
    <3>3. Range(next_list') = {} /\ level_list' = next_list /\ old_head' = head /\ head' = Head(next_list) /\ node' = node
      BY <2>2 DEF NextLevel, Range
    <3> QED
      BY <3>2, <3>3, PointersExist
  <2>3. CASE Enter \/ Iterate
    BY <2>3, PointersExist DEF Enter, Iterate, LeaveNode
  <2> QED
    BY <2>1, <2>2, <2>3
<1>5. {head', node', child', path', canon_leaf', canon_graph', extra_graph'} \subseteq Existing \cup {NoNode}
  BY <1>1, <1>2, <1>4, PointersExist
<1>6. kept' \subseteq Existing /\ Working' \subseteq Existing
  BY <1>1, <1>3, PointersExist
<1> QED
  BY <1>2, <1>4, <1>5, <1>6, ExistingStays DEF Grows

LEMMA ChooseExisting ==
  ASSUME BInv, Choose
  PROVE  Grows
<1>1. PICK t : t = node
  OBVIOUS
<1>2. PICK c : c = First(ToDo)
  OBVIOUS
<1>3. /\ pc = "choose" /\ cur = NoNode
      /\ UNCHANGED <<head, level_list, old_head, child, path, kept, stack, at>> /\ node' \in {node, NoNode}
      /\ \/ UNCHANGED <<nodeVars, next_list>>
         \/ /\ ~Flagged(c, Held) /\ status[c] # "absent" /\ next_list' = PutIntoList(next_list, c)
            /\ UNCHANGED nodeVars
         \/ CreateBegin(c) /\ UNCHANGED <<next_list, node>>
  BY <1>1, <1>2 DEF Choose, Free, LeaveNode, workVars
<1>4. t \in tree.nodes /\ t \in Existing /\ ToDo # {}
  BY <1>1, <1>3, KnownThere, PointersExist DEF InHand, Placed, Current
<1>5. c \in Children(t) /\ c \in tree.nodes
  <2>1. ToDo \in SUBSET Children(t)
    BY <1>1 DEF ToDo
  <2> QED
    BY <1>2, <1>4, <2>1, KnownThere, FirstIsOne, ChildrenAreNodes
<1>6. Working' = Working
  BY <1>3 DEF Working
<1>7. CASE CreateBegin(c) /\ UNCHANGED <<next_list, node>>
  BY <1>3, <1>4, <1>5, <1>6, <1>7, PointersExist, ExistingAdds DEF Grows
<1>8. ASSUME \/ UNCHANGED <<nodeVars, next_list>>
             \/ /\ ~Flagged(c, Held) /\ status[c] # "absent" /\ next_list' = PutIntoList(next_list, c)
                /\ UNCHANGED nodeVars
      PROVE  Grows
  <2>1. tree' = tree /\ cur' = cur /\ UNCHANGED <<canon_leaf, canon_graph, extra_graph>>
    BY <1>8 DEF nodeVars, treeVars, leafVars
  <2>2. ~Flagged(c, Held) /\ status[c] # "absent" => c \in Existing
    <3>1. status[c] # "absent" => status[c] \in {"live", "pruned"}
      BY <1>3, <1>5, KnownThere, FinishedNode
    <3>2. ~Flagged(c, Held) /\ status[c] # "absent" => Exists(c, Held)
      BY <3>1 DEF Flagged
    <3> QED
      BY <1>5, <3>2, ExistingNodes
  <2>3. Range(next_list') \subseteq Existing /\ (next_list' = <<>> => next_list = <<>>)
    BY <1>5, <1>8, <2>2, PutFacts, PointersExist
  <2>4. {head', node', child', path', canon_leaf', canon_graph', extra_graph'} \subseteq Existing \cup {NoNode}
    BY <1>3, <2>1, PointersExist
  <2>5. Range(level_list') \subseteq Existing /\ kept' \subseteq Existing /\ Working' \subseteq Existing
    BY <1>3, <1>6, PointersExist
  <2>6. next_list' = <<>> => old_head' \in Existing \cup {NoNode}
    BY <1>3, <2>3, PointersExist
  <2> QED
    BY <2>1, <2>3, <2>4, <2>5, <2>6, ExistingStays DEF Grows
<1> QED
  BY <1>3, <1>7, <1>8

LEMMA NextGrows ==
  ASSUME BInv, [Next]_vars
  PROVE  /\ Grows
         /\ CountNodes \/ (Existing' = Existing /\ UNCHANGED <<use_dfs, max_nodes>>)
<1>1. CASE Stop \/ UNCHANGED vars
  <2>1. UNCHANGED <<nodeVars, loopVars, kept, workVars, use_dfs, max_nodes>>
    BY <1>1 DEF Stop, vars, bfsVars
  <2>2. Existing' = Existing
    BY <2>1 DEF Existing, Holders, Held, Working, PathOf, PathTo, Ancestor, Root, nodeVars, treeVars,
                leafVars, loopVars, workVars
  <2> QED
    BY <2>1, <2>2 DEF Grows
<1>2. CASE ~(Stop \/ UNCHANGED vars)
  <2>1. CountNodes
    BY <1>2 DEF Next, Refine, Tell, Prune, Created, Visit, Extend, ReportPath, GiveUp, EndPath, StartDFS,
                StepDFS, EndDFS, Load, NextLevel, Enter, Iterate, Choose
  <2>2. Grows
    BY <1>2, ConstructionExisting, PathExisting, EndExisting, LevelExisting, ChooseExisting DEF Next
  <2> QED
    BY <2>1, <2>2
<1> QED
  BY <1>1, <1>2

-----------------------------------------------------------------------------
(* How many nodes exist, with either pruner.                               *)

NodesCounted ==
  /\ max_nodes \in Nat \ {0}
  /\ IsFiniteSet(Existing)
  /\ use_dfs \in BOOLEAN
  /\ use_dfs <=> Cardinality(Existing) >= max_nodes

LEMMA CountStep ==
  ASSUME NEW A, NEW B, NEW x, IsFiniteSet(A), B \subseteq A \cup {x}
  PROVE  /\ IsFiniteSet(B) /\ IsFiniteSet(A \cup B)
         /\ Cardinality(A) \in Nat /\ Cardinality(B) \in Nat
         /\ B \subseteq A => Cardinality(B) <= Cardinality(A) /\ A \cup B = A
         /\ ~(B \subseteq A) => Cardinality(A \cup B) = Cardinality(A) + 1
         /\ Cardinality(B) <= Cardinality(A \cup B)
<1>1. IsFiniteSet(A \cup {x}) /\ Cardinality(A \cup {x}) \in Nat /\ Cardinality(A) \in Nat
  BY FS_AddElement, FS_CardinalityType
<1>2. A \cup B \subseteq A \cup {x} /\ B \subseteq A \cup B
  OBVIOUS
<1>3. IsFiniteSet(A \cup B)
  BY <1>1, <1>2, FS_Subset
<1>4. IsFiniteSet(B) /\ Cardinality(B) <= Cardinality(A \cup B)
  BY <1>2, <1>3, FS_Subset
<1>5. Cardinality(B) \in Nat
  BY <1>4, FS_CardinalityType
<1>6. ASSUME B \subseteq A PROVE Cardinality(B) <= Cardinality(A) /\ A \cup B = A
  <2>1. A \cup B = A
    BY <1>6
  <2> QED
    BY <1>4, <2>1
<1>7. ASSUME ~(B \subseteq A) PROVE Cardinality(A \cup B) = Cardinality(A) + 1
  <2>1. x \notin A /\ A \cup B = A \cup {x}
    BY <1>7
  <2> QED
    BY <2>1, FS_AddElement
<1> QED
  BY <1>1, <1>3, <1>4, <1>5, <1>6, <1>7

(* The switch is set when the count gets to the limit and reset when it    *)
(* leaves it.                                                              *)
LEMMA CountKept ==
  ASSUME NodesCounted, Grows, CountNodes
  PROVE  NodesCounted'
<1>1. PICK A : A = Existing
  OBVIOUS
<1>2. PICK B : B = Existing'
  OBVIOUS
<1>3. PICK c : c = cur'
  OBVIOUS
<1>4. PICK m : m = max_nodes
  OBVIOUS
<1>5. /\ m \in Nat \ {0} /\ max_nodes' = m /\ IsFiniteSet(A) /\ B \subseteq A \cup {c}
      /\ use_dfs \in BOOLEAN /\ (use_dfs <=> Cardinality(A) >= m)
  BY <1>1, <1>2, <1>3, <1>4 DEF NodesCounted, Grows, CountNodes
<1>6. PICK most : most = Cardinality(A \cup B)
  OBVIOUS
<1>7. use_dfs' = /\ use_dfs \/ (most = m /\ ~(B \subseteq A))
                 /\ ~(m \in Cardinality(B) + 1 .. most)
  BY <1>1, <1>2, <1>4, <1>6 DEF CountNodes, SwitchedOff
<1>8. /\ IsFiniteSet(B) /\ Cardinality(A) \in Nat /\ Cardinality(B) \in Nat
      /\ B \subseteq A => Cardinality(B) <= Cardinality(A) /\ most = Cardinality(A)
      /\ ~(B \subseteq A) => most = Cardinality(A) + 1
      /\ Cardinality(B) <= most
  <2>1. /\ IsFiniteSet(B) /\ Cardinality(A) \in Nat /\ Cardinality(B) \in Nat
        /\ B \subseteq A => Cardinality(B) <= Cardinality(A) /\ A \cup B = A
        /\ ~(B \subseteq A) => Cardinality(A \cup B) = Cardinality(A) + 1
        /\ Cardinality(B) <= Cardinality(A \cup B)
    BY <1>5, CountStep
  <2> QED
    BY <1>6, <2>1
<1>9. use_dfs' \in BOOLEAN
  BY <1>7
<1>10. m \in Cardinality(B) + 1 .. most <=> Cardinality(B) + 1 <= m /\ m <= most
  <2>1. most \in Nat
    BY <1>8
  <2> QED
    BY <1>5, <1>8, <2>1
<1>11. use_dfs' <=> Cardinality(B) >= m
  <2>1. CASE use_dfs
    <3>1. Cardinality(A) >= m /\ most >= m
      BY <1>5, <1>8, <2>1
    <3>2. use_dfs' <=> ~(Cardinality(B) + 1 <= m)
      BY <1>7, <1>10, <2>1, <3>1
    <3> QED
      BY <1>5, <1>8, <3>2
  <2>2. CASE ~use_dfs /\ B \subseteq A
    <3>1. ~use_dfs'
      BY <1>7, <2>2
    <3>2. Cardinality(B) <= Cardinality(A) /\ ~(Cardinality(A) >= m)
      BY <1>5, <1>8, <2>2
    <3> QED
      BY <1>5, <1>8, <3>1, <3>2
  <2>3. CASE ~use_dfs /\ ~(B \subseteq A)
    <3>1. most = Cardinality(A) + 1 /\ ~(Cardinality(A) >= m)
      BY <1>5, <1>8, <2>3
    <3>2. use_dfs' <=> most = m /\ ~(Cardinality(B) + 1 <= m)
      BY <1>7, <1>10, <2>3, <3>1
    <3> QED
      BY <1>5, <1>8, <3>1, <3>2
  <2> QED
    BY <1>5, <2>1, <2>2, <2>3
<1> QED
  BY <1>2, <1>5, <1>8, <1>9, <1>11 DEF NodesCounted

LEMMA InitHasRoot ==
  ASSUME Init
  PROVE  Existing = {Root}
<1>1. BInv /\ Root \in tree.nodes /\ IsTree(tree) /\ NoNode # Root
  BY InitBInv, KnownThere, HeldAreNodes, PointersExist
<1>2. /\ cur = Root /\ head = Root /\ level_list = <<Root>> /\ next_list = <<>> /\ old_head = NoNode
      /\ node = NoNode /\ child = NoNode /\ path = NoNode /\ kept = {} /\ stack = <<>> /\ at = NoNode
      /\ canon_leaf = NoNode /\ canon_graph = NoNode /\ extra_graph = NoNode
  BY DEF Init, TreeInit
<1>3. Range(level_list) = {Root} /\ Range(next_list) = {} /\ Working = {}
  BY <1>2 DEF Range, Working
<1>4. Holders(Held) \ {NoNode} = {Root}
  BY <1>1, <1>2, <1>3 DEF Holders, Held
<1>5. \A s \in PathTo(Root) : s = Root
  BY <1>1, PathsUp
<1>6. Existing = UNION {PathTo(t) : t \in {Root}}
  BY <1>4 DEF Existing, PathOf
<1> QED
  BY <1>1, <1>5, <1>6, ExistingNodes

LEMMA InitNodesCounted == Init => NodesCounted
<1> SUFFICES ASSUME Init PROVE NodesCounted
  OBVIOUS
<1>7. Existing = {Root}
  BY InitHasRoot
<1>8. IsFiniteSet(Existing) /\ Cardinality(Existing) = 1
  BY <1>7, FS_Singleton
<1>9. max_nodes \in Nat \ {0} /\ use_dfs = (max_nodes = 1)
  BY LimitsAssumption DEF Init, TreeInit
<1>10. max_nodes = 1 <=> Cardinality(Existing) >= max_nodes
  BY <1>8, <1>9
<1> QED
  BY <1>8, <1>9, <1>10, Zenon DEF NodesCounted

LEMMA NextNodesCounted == BInv /\ NodesCounted /\ [Next]_vars => NodesCounted'
<1> SUFFICES ASSUME BInv, NodesCounted, [Next]_vars PROVE NodesCounted'
  OBVIOUS
<1>1. Grows /\ (CountNodes \/ (Existing' = Existing /\ UNCHANGED <<use_dfs, max_nodes>>))
  BY NextGrows
<1>2. CASE CountNodes
  BY <1>1, <1>2, CountKept
<1>3. CASE Existing' = Existing /\ UNCHANGED <<use_dfs, max_nodes>>
  BY <1>3 DEF NodesCounted
<1> QED
  BY <1>1, <1>2, <1>3

LEMMA AlwaysNodesCounted == Spec /\ []GenerationFits => []NodesCounted
BY AlwaysBInv, InitNodesCounted, NextNodesCounted, PTL DEF Spec

(* The traversal is switched to depth first if and only if as many nodes   *)
(* exist as fit in the memory, although at most one is created at a time   *)
(* and many may be freed when a pointer is dropped: the test for equality  *)
(* by which explore_tree counts never misses the limit.                    *)
THEOREM SwitchedAtLimit ==
  Spec /\ [](generation < SizeTypeSize) => [](use_dfs <=> Cardinality(Existing) >= max_nodes)
<1>1. NodesCounted => (use_dfs <=> Cardinality(Existing) >= max_nodes)
  BY DEF NodesCounted
<1> QED
  BY <1>1, AlwaysNodesCounted, PTL DEF GenerationFits

-----------------------------------------------------------------------------
(* How many nodes there can be at most, with aut_pruner_basic.             *)

(* The nodes that are held, but for those on the way to the node in hand.  *)
InLists == Range(level_list) \cup Range(next_list) \cup ({head, old_head, node} \ {NoNode})
Others == InLists \cup kept \cup {Root}

(* What has been, or is, traversed depth first.                            *)
InDFS(t) == \E r \in dfs_roots : Above(r, t)

(* Nothing but cur points to the node under construction, and nothing but  *)
(* path to the one that was created last.                                  *)
NewNodes ==
  /\ cur \notin {NoNode, Root} => cur \notin Pointed
  /\ pc = "visit" => path = Root \/ path \notin InLists

(* What is held is not below a node that was traversed depth first.        *)
Apart ==
  /\ \A h \in Others : ~InDFS(h)
  /\ pc \in {"visit", "extend"} => ~InDFS(path)

Settled ==
  {t \in Existing : t # cur /\ (pc = "visit" => t # path) /\ ~InDFS(t)}

OthersMove ==
  /\ tree' = tree
  /\ dfs_roots' = dfs_roots \/ (StartDFS /\ dfs_roots' = dfs_roots \cup {path})
  /\ \A h \in Others' :
       \/ h \in Others
       \/ Created /\ h = path /\ path # NoNode
       \/ h \notin dfs_roots /\ h \in tree.nodes \ {Root} /\ Parent(h) = node /\ node # NoNode

LEMMA ListsShrink ==
  ASSUME KInv, Load \/ NextLevel \/ Enter \/ Iterate
  PROVE  kept' \subseteq kept /\ InLists' \subseteq InLists
<1>1. kept' \subseteq kept
  <2>1. kept' = kept \/ \E K \in SUBSET kept : KeepAlive(K)
    BY DEF Load, NextLevel, Enter, Iterate, LeaveNode
  <2> QED
    BY <2>1, KeepsAlive
<1>2. InLists' \subseteq InLists
  <2>1. CASE Load
    <3>1. level_list \in Seq(tree.nodes) /\ level_list # <<>>
      BY <2>1, KnownKept, AtLevel DEF Load
    <3>2. Head(level_list) \in Range(level_list) /\ Range(Tail(level_list)) \subseteq Range(level_list)
      BY <3>1, RangeOfTail
    <3>3. /\ level_list' = Tail(level_list) /\ UNCHANGED <<head, next_list, old_head>>
          /\ node' \in {node, Head(level_list)}
      BY <2>1 DEF Load
    <3> QED
      BY <3>2, <3>3 DEF InLists
  <2>2. CASE NextLevel
    <3>1. next_list \in Seq(tree.nodes) /\ next_list # <<>>
      BY <2>2, KnownKept, AtLevel DEF NextLevel
    <3>2. Head(next_list) \in Range(next_list)
      BY <3>1, RangeOfTail
    <3>3. Range(next_list') = {} /\ level_list' = next_list /\ old_head' = head /\ head' = Head(next_list) /\ node' = node
      BY <2>2 DEF NextLevel, Range
    <3> QED
      BY <3>2, <3>3 DEF InLists
  <2>3. CASE Enter \/ Iterate
    <3>1. UNCHANGED <<level_list, next_list, head, old_head>> /\ node' \in {node, NoNode}
      BY <2>3 DEF Enter, Iterate, LeaveNode
    <3> QED
      BY <3>1 DEF InLists
  <2> QED
    BY <2>1, <2>2, <2>3
<1> QED
  BY <1>1, <1>2

LEMMA ListsMove ==
  ASSUME KInv, Load \/ NextLevel \/ Enter \/ Iterate
  PROVE  OthersMove
<1>1. tree' = tree /\ dfs_roots' = dfs_roots
  BY KnownKept, LevelInv, NextFinishes DEF StaysFinished, Load, NextLevel, Enter, Iterate, LeaveNode, Next
<1>2. Root' = Root
  BY DEF Root
<1> QED
  BY <1>1, <1>2, ListsShrink DEF OthersMove, Others

LEMMA ChildMoves ==
  ASSUME KInv, dfs_roots' = dfs_roots, tree' = tree, kept' \subseteq kept,
         UNCHANGED <<head, level_list, old_head>>, node' \in {node, NoNode},
         NEW c \in tree.nodes,
         next_list' = next_list \/
           (next_list' = PutIntoList(next_list, c) /\ node # NoNode /\ c # Root /\ Parent(c) = node)
  PROVE  OthersMove
<1>1. next_list \in Seq(tree.nodes)
  BY KnownKept, AtLevel
<1>2. \A h \in Range(next_list') :
        h \in Range(next_list) \/ (h = c /\ c \notin dfs_roots /\ node # NoNode /\ c # Root /\ Parent(c) = node)
  <2>1. CASE next_list' = Append(next_list, c) /\ c \notin dfs_roots /\ node # NoNode /\ c # Root /\ Parent(c) = node
    BY <1>1, <2>1, RangeAppended
  <2>2. CASE next_list' = next_list
    BY <2>2
  <2> QED
    BY <2>1, <2>2 DEF PutIntoList
<1>3. Root' = Root
  BY DEF Root
<1> QED
  BY <1>2, <1>3 DEF OthersMove, Others, InLists

LEMMA NextOthers ==
  ASSUME KInv, [Next]_vars
  PROVE  OthersMove
<1>0. tree' = tree /\ Root' = Root
  BY KnownKept, NextFinishes DEF StaysFinished, Root
<1>1. ASSUME UNCHANGED <<head, level_list, next_list, old_head, node, dfs_roots>>, kept' \subseteq kept PROVE OthersMove
  BY <1>0, <1>1 DEF OthersMove, Others, InLists
<1>2. CASE Refine \/ Tell \/ Extend \/ Stop \/ UNCHANGED vars
  <2>1. UNCHANGED <<loopVars, dfs_roots, kept>>
    BY <1>2 DEF Refine, Tell, Extend, Stop, vars, bfsVars
  <2> QED
    BY <1>1, <2>1 DEF loopVars
<1>3. CASE Prune \/ Visit \/ StepDFS
  <2>1. UNCHANGED <<head, level_list, next_list, old_head, node, dfs_roots>> /\ KeepAlive(kept)
    BY <1>3 DEF Prune, Visit, StepDFS, loopVars
  <2>2. PICK K \in SUBSET kept : K = kept
    OBVIOUS
  <2> QED
    BY <1>1, <2>1, <2>2, KeepsAlive
<1>4. CASE Created
  <2>1. /\ UNCHANGED <<head, level_list, next_list, old_head, node, dfs_roots>>
        /\ kept' \subseteq kept \cup ({path} \ {NoNode})
    BY <1>4 DEF Created
  <2> QED
    BY <1>0, <1>4, <2>1 DEF OthersMove, Others, InLists
<1>5. CASE StartDFS
  <2>1. UNCHANGED <<head, level_list, next_list, old_head, node, kept>> /\ dfs_roots' = dfs_roots \cup {path}
    BY <1>5 DEF StartDFS
  <2> QED
    BY <1>0, <1>5, <2>1 DEF OthersMove, Others, InLists
<1>6. CASE ReportPath \/ GiveUp \/ EndDFS
  <2>1. EndPath /\ pc \in {"extend", "dfs"}
    BY <1>6 DEF ReportPath, GiveUp, EndDFS
  <2>2. path # NoNode
    BY <2>1, KnownKept DEF InHand
  <2>3. /\ dfs_roots' = dfs_roots /\ UNCHANGED <<head, level_list, old_head>> /\ node' \in {node, NoNode}
        /\ next_list' = next_list \/ (next_list' = PutIntoList(next_list, child) /\ node # NoNode)
        /\ KeepAlive(kept)
    BY <2>1 DEF EndPath
  <2>4. kept' \subseteq kept
    BY <2>3, KeepsAlive
  <2>5. node # NoNode => child \in tree.nodes /\ child # Root /\ Parent(child) = node
    BY <2>2, KnownKept DEF ChildFacts, InHand, Placed
  <2>6. PICK c \in tree.nodes : node # NoNode => c = child
    BY <2>5, KnownKept
  <2>7. \/ next_list' = next_list
        \/ next_list' = PutIntoList(next_list, c) /\ node # NoNode /\ c # Root /\ Parent(c) = node
    BY <2>3, <2>5, <2>6
  <2> QED
    BY <1>0, <2>3, <2>4, <2>7, ChildMoves
<1>7. CASE Load \/ NextLevel \/ Enter \/ Iterate
  BY <1>7, ListsMove
<1>8. CASE Choose
  <2>1. PICK c : c = First(ToDo)
    OBVIOUS
  <2>2. PICK n : n = node
    OBVIOUS
  <2>3. /\ pc = "choose" /\ dfs_roots' = dfs_roots /\ UNCHANGED <<head, level_list, old_head, kept>>
        /\ node' \in {node, NoNode}
        /\ next_list' = next_list \/ next_list' = PutIntoList(next_list, c)
    BY <1>8, <2>1 DEF Choose, LeaveNode
  <2>4. n \in tree.nodes /\ n # NoNode /\ ToDo # {} /\ ToDo \in SUBSET Children(n)
    BY <2>2, <2>3, KnownKept, KnownThere DEF InHand, Placed, Current, ToDo
  <2>5. c \in Children(n)
    BY <2>1, <2>4, KnownKept, FirstIsOne
  <2>6. c \in tree.nodes \ {Root} /\ Parent(c) = n
    BY <2>4, <2>5, KnownKept, ChildrenAreNodes
  <2> QED
    BY <1>0, <2>2, <2>3, <2>4, <2>6, ChildMoves
<1> QED
  BY <1>2, <1>3, <1>4, <1>5, <1>6, <1>7, <1>8 DEF Next

(* The node under construction: where it comes from and what becomes of it.*)
CurMoves ==
  \/ cur' = cur /\ Pointed' \subseteq Pointed
  \/ /\ Refine /\ cur # NoNode /\ cur' = NoNode
  \/ /\ cur # NoNode /\ Created
  \/ /\ cur # NoNode /\ Push /\ pc = "dfs"
  \/ /\ cur = NoNode /\ cur' # NoNode /\ status[cur'] = "absent" /\ cur' \in tree.nodes
     /\ Pointed' \subseteq Pointed
  \/ cur = NoNode /\ cur' = NoNode

LEMMA SamePointed ==
  ASSUME UNCHANGED <<head, level_list, next_list, old_head, node, child, path, dfs_roots>>,
         kept' \subseteq kept, Working' \subseteq Working
  PROVE  Pointed' \subseteq Pointed
BY DEF Pointed

LEMMA NextCur ==
  ASSUME KInv, [Next]_vars
  PROVE  CurMoves
<1>0. BInv
  BY KnownKept
<1>1. CASE Refine \/ Tell
  <2>1. /\ UNCHANGED <<loopVars, dfs_roots>> /\ kept' = kept /\ stack' = stack /\ at' = at
    BY <1>1 DEF Refine, Tell, bfsVars, workVars
  <2>2. cur' \in {cur, NoNode} /\ (Tell => cur' = cur)
    <3>1. CASE Refine
      <4>1. Construct
        BY <3>1 DEF Refine, Constructing
      <4>2. ~Tell
        BY <4>1, <3>1 DEF Refine, Constructing, Tell, AutomorphismImplicit
      <4> QED
        BY <1>0, <4>1, <4>2, KnownThere, ConstructStatus
    <3>2. CASE Tell
      BY <3>2 DEF Tell, AutomorphismImplicit, treeVars
    <3> QED
      BY <1>1, <3>1, <3>2
  <2>3. Working' = Working
    BY <2>1 DEF Working
  <2>4. Pointed' \subseteq Pointed
    BY <2>1, <2>3, SamePointed DEF loopVars
  <2> QED
    BY <1>1, <2>2, <2>4 DEF CurMoves
<1>2. CASE Created
  <2>1. cur # NoNode
    BY <1>2 DEF Created, NodeFinished, CreateLive, Emitted
  <2> QED
    BY <1>2, <2>1 DEF CurMoves
<1>3. CASE Prune \/ Visit \/ ReportPath \/ GiveUp \/ StartDFS \/ EndDFS \/ Load \/ NextLevel \/ Enter \/ Iterate
  <2>1. cur = NoNode
    <3>1. CASE Prune
      BY <1>0, <3>1, KnownThere DEF Prune, Update, Merge, InHand
    <3>2. CASE ~Prune
      BY <1>3, <3>2 DEF Visit, ReportPath, GiveUp, StartDFS, EndDFS, Load, NextLevel, Enter, Iterate, Free,
                  Traversed
    <3> QED
      BY <3>1, <3>2
  <2>2. cur' = NoNode
    <3>1. CASE Prune
      BY <2>1, <3>1 DEF Prune, Update, Merge, Absorb, PruneSubtree, treeVars
    <3>2. CASE ReportPath
      <4>1. PICK t : t = path
        OBVIOUS
      <4>2. t \in tree.nodes /\ ReportVisited(t, Held)
        BY <1>0, <3>2, <4>1, KnownThere DEF ReportPath, InHand, Placed
      <4> QED
        BY <1>0, <2>1, <4>1, <4>2, PointersExist, LeavesReported, <3>2, KnownThere DEF InHand, ReportPath
    <3>3. CASE ~Prune /\ ~ReportPath
      <4>1. UNCHANGED nodeVars \/ \E t : BeforeDescend(t)
        BY <1>3, <3>3 DEF Visit, GiveUp, StartDFS, EndDFS, Load, NextLevel, Enter, Iterate, LeaveNode
      <4> QED
        BY <1>0, <2>1, <4>1, LeavesVisited DEF nodeVars, treeVars
    <3> QED
      BY <3>1, <3>2, <3>3
  <2> QED
    BY <2>1, <2>2 DEF CurMoves
<1>4. CASE Extend
  <2>1. PICK t : t = path
    OBVIOUS
  <2>2. /\ cur = NoNode /\ UNCHANGED <<loopVars, dfs_roots>> /\ kept' = kept /\ stack' = stack /\ at' = at
        /\ pc = "extend" /\ NewChildren # {} /\ CreateBegin(First(NewChildren))
    BY <1>4 DEF Extend, Free, bfsVars, workVars
  <2>3. t \in tree.nodes /\ NewChildren \in SUBSET Children(t)
    BY <1>0, <2>1, <2>2, KnownThere DEF InHand, Placed, NewChildren
  <2>4. PICK c : c = First(NewChildren)
    OBVIOUS
  <2>5. c \in NewChildren /\ c \in Children(t)
    BY <1>0, <2>2, <2>3, <2>4, KnownThere, FirstIsOne
  <2>6. cur' = c /\ status[c] = "absent" /\ c \in tree.nodes
    BY <1>0, <2>2, <2>3, <2>4, <2>5, KnownThere, ChildrenAreNodes DEF CreateBegin, NewChildren
  <2>7. Working' = Working
    BY <2>2 DEF Working
  <2>8. Pointed' \subseteq Pointed
    BY <2>2, <2>7, SamePointed DEF loopVars
  <2> QED
    BY <1>0, <2>2, <2>6, <2>8, PointersExist DEF CurMoves
<1>5. CASE Choose
  <2>1. PICK c : c = First(ToDo)
    OBVIOUS
  <2>2. PICK n : n = node
    OBVIOUS
  <2>3. /\ pc = "choose" /\ cur = NoNode /\ dfs_roots' = dfs_roots /\ stack' = stack /\ at' = at
        /\ UNCHANGED <<head, level_list, old_head, child, path, kept>>
        /\ \/ UNCHANGED nodeVars
           \/ /\ UNCHANGED <<next_list, node>> /\ CreateBegin(c) /\ status[c] = "absent"
    BY <1>5, <2>1 DEF Choose, LeaveNode, Free, workVars
  <2>4. n \in tree.nodes /\ ToDo # {} /\ ToDo \in SUBSET Children(n)
    BY <1>0, <2>2, <2>3, KnownThere DEF InHand, Placed, Current, ToDo
  <2>5. c \in Children(n)
    BY <1>0, <2>1, <2>4, KnownThere, FirstIsOne
  <2>6. c \in tree.nodes \ {Root} /\ c # NoNode
    BY <1>0, <2>4, <2>5, KnownThere, PointersExist, ChildrenAreNodes
  <2>7. CASE UNCHANGED nodeVars
    BY <2>3, <2>7 DEF nodeVars, treeVars, CurMoves
  <2>8. CASE /\ UNCHANGED <<next_list, node>> /\ CreateBegin(c) /\ status[c] = "absent"
    <3>1. Working' = Working
      BY <2>3 DEF Working
    <3>2. Pointed' \subseteq Pointed
      BY <2>3, <2>8, <3>1, SamePointed
    <3> QED
      BY <2>3, <2>6, <2>8, <3>2 DEF CreateBegin, CurMoves
  <2> QED
    BY <2>3, <2>7, <2>8
<1>6. CASE StepDFS
  <2>1. pc = "dfs" /\ KeepAlive(kept) /\ UNCHANGED <<loopVars, dfs_roots>>
    BY <1>6 DEF StepDFS
  <2>2. CASE Push
    <3>1. cur # NoNode
      BY <2>2 DEF Push, NodeFinished, CreateLive, Emitted
    <3> QED
      BY <2>1, <2>2, <3>1 DEF CurMoves
  <2>3. CASE Descend(Held)
    <3>1. PICK t : t = at.node
      OBVIOUS
    <3>2. at # NoNode /\ cur = NoNode /\ status[t] # "pruned"
      BY <1>0, <2>3, <3>1, KnownThere DEF Descend, Go, Ready, InHand
    <3>3. PICK c \in Candidates(Held) : CreateBegin(c) /\ CountChild(c)
      BY <2>3 DEF Descend
    <3>4. t \in tree.nodes /\ c \in Children(t)
      BY <1>0, <3>1, <3>2, <3>3, KnownThere, WorkingNodes, PointersExist DEF Candidates
    <3>5. c \in tree.nodes /\ c # NoNode
      BY <1>0, <3>4, KnownThere, PointersExist, ChildrenAreNodes
    <3>6. status[c] = "absent"
      <4>1. at \in Work /\ NotYet(at)
        BY <1>0, <3>2, KnownKept, KnownWalk, KnownThere, WorkElements DEF Waiting
      <4>2. Last(c) = c[Len(c)] /\ c[Len(c)] >= at.next_child
        BY <1>0, <3>3, <3>4, KnownThere, ChildrenAreNodes DEF Candidates
      <4> QED
        BY <3>1, <3>4, <4>1, <4>2 DEF NotYet
    <3>7. cur' = c
      BY <3>3 DEF CreateBegin
    <3>8. Working' \subseteq Working
      BY <1>0, <1>6, <3>2, WorkingMoves
    <3>9. PICK K \in SUBSET kept : K = kept
      OBVIOUS
    <3>10. kept' \subseteq kept
      BY <2>1, <3>9, KeepsAlive
    <3>11. Pointed' \subseteq Pointed
      BY <2>1, <3>8, <3>10, SamePointed DEF loopVars
    <3> QED
      BY <3>2, <3>5, <3>6, <3>7, <3>11 DEF CurMoves
  <2>4. CASE Pop \/ Skip \/ Leave(Held) \/ Report(Held)
    <3>1. cur = NoNode
      BY <1>0, <2>4, KnownThere DEF Pop, Skip, Leave, Report, Go, Ready, InHand
    <3>2. cur' = NoNode
      <4>1. CASE Skip \/ Leave(Held)
        BY <3>1, <4>1 DEF Skip, Leave, treeVars
      <4>2. CASE Pop
        <5>1. PICK u : u = at'.node
          OBVIOUS
        <5>2. BeforeDescend(u)
          BY <4>2, <5>1 DEF Pop
        <5> QED
          BY <3>1, <5>2, LeavesVisited
      <4>3. CASE Report(Held)
        <5>1. PICK t : t = at.node
          OBVIOUS
        <5>2. at # NoNode /\ ReportVisited(t, Held)
          BY <4>3, <5>1 DEF Report, Go, Ready
        <5>3. t \in Existing /\ t \in tree.nodes
          BY <1>0, <5>1, <5>2, KnownThere, WorkingNodes, PointersExist
        <5> QED
          BY <1>0, <3>1, <5>2, <5>3, LeavesReported
      <4> QED
        BY <2>4, <4>1, <4>2, <4>3
    <3> QED
      BY <3>1, <3>2 DEF CurMoves
  <2> QED
    BY <1>6, <2>2, <2>3, <2>4 DEF StepDFS
<1>7. CASE Stop \/ UNCHANGED vars
  <2>1. UNCHANGED <<nodeVars, loopVars, dfs_roots, kept, workVars>>
    BY <1>7 DEF Stop, vars, bfsVars
  <2>2. Working' = Working
    BY <2>1 DEF workVars, Working
  <2>3. Pointed' \subseteq Pointed /\ cur' = cur
    BY <2>1, <2>2, SamePointed DEF loopVars, nodeVars, treeVars
  <2> QED
    BY <2>3 DEF CurMoves
<1> QED
  BY <1>1, <1>2, <1>3, <1>4, <1>5, <1>6, <1>7 DEF Next

LEMMA NextNew ==
  ASSUME KInv, NewNodes, [Next]_vars
  PROVE  NewNodes'
<1>0. tree' = tree /\ Root' = Root /\ CurMoves /\ Pointed \subseteq tree.nodes /\ \A t \in Pointed : status[t] # "absent"
  BY KnownKept, NextFinishes, NextCur, AtLevel DEF StaysFinished, Root
<1>1. cur' \notin {NoNode, Root} => cur' \notin Pointed'
  <2>1. CASE cur' = cur /\ Pointed' \subseteq Pointed
    BY <1>0, <2>1 DEF NewNodes
  <2>2. CASE cur' = NoNode
    BY <2>2
  <2>3. CASE status[cur'] = "absent" /\ Pointed' \subseteq Pointed
    BY <1>0, <2>3
  <2>4. CASE Created \/ Push
    BY <2>2, <2>4 DEF Created, Push, NodeFinished, CreateLive
  <2> QED
    BY <1>0, <2>1, <2>2, <2>3, <2>4 DEF CurMoves
<1>2. ASSUME pc' = "visit" PROVE path' = Root \/ path' \notin InLists'
  <2>1. CASE Created
    <3>1. path' = cur /\ UNCHANGED <<head, level_list, next_list, old_head, node>> /\ cur # NoNode
      BY <2>1 DEF Created, NodeFinished, CreateLive, Emitted
    <3>2. InLists' = InLists /\ InLists \subseteq Pointed
      BY <3>1 DEF InLists, Pointed
    <3> QED
      BY <3>1, <3>2 DEF NewNodes
  <2>2. CASE ~Created
    <3>1. pc = "visit" /\ UNCHANGED loopVars
      <4>1. CASE Refine \/ Tell \/ Extend \/ Prune \/ StepDFS \/ Stop \/ UNCHANGED vars
        <5>1. UNCHANGED loopVars
          BY <4>1 DEF Refine, Tell, Extend, Prune, StepDFS, Stop, vars, bfsVars
        <5> QED
          BY <1>2, <5>1 DEF loopVars
      <4>2. CASE Visit \/ StartDFS \/ Load \/ NextLevel \/ Enter \/ Iterate \/ Choose
        BY <1>2, <4>2 DEF Visit, StartDFS, Load, NextLevel, Enter, Iterate, Choose, LeaveNode
      <4>3. CASE ReportPath \/ GiveUp \/ EndDFS
        BY <1>2, <4>3 DEF ReportPath, GiveUp, EndDFS, EndPath
      <4> QED
        BY <2>2, <4>1, <4>2, <4>3 DEF Next
    <3>2. path' = path /\ InLists' = InLists
      BY <3>1 DEF loopVars, InLists
    <3> QED
      BY <1>0, <3>1, <3>2 DEF NewNodes
  <2> QED
    BY <2>1, <2>2
<1> QED
  BY <1>0, <1>1, <1>2 DEF NewNodes

(* Below a node that is not finished, or without children that were        *)
(* created, nothing has been created.                                      *)
LEMMA NothingBelow ==
  ASSUME KInv, NEW t \in tree.nodes,
         status[t] \notin {"live", "pruned"} \/ \A c \in Children(t) : status[c] = "absent",
         NEW h \in tree.nodes, status[h] # "absent", Above(t, h)
  PROVE  h = t
<1>1. IsTree(tree) /\ FinishedAbove
  BY KnownKept, KnownWalk, KnownNodes
<1> SUFFICES ASSUME h # t PROVE FALSE
  OBVIOUS
<1>2. status[t] \in {"live", "pruned"}
  BY <1>1 DEF FinishedAbove
<1>3. /\ Len(t) \in Nat /\ Len(h) \in Nat /\ Len(t) <= Len(h) /\ t = Ancestor(h, Len(t)) /\ Len(t) # Len(h)
  BY <1>1, AboveFacts, AboveOn
<1>4. Len(t) + 1 \in 1 .. Len(h) /\ Len(t) + 1 \in 0 .. Len(h) /\ (Len(t) + 1) - 1 = Len(t)
  BY <1>3
<1>5. PICK c : c = Ancestor(h, Len(t) + 1)
  OBVIOUS
<1>6. c \in tree.nodes \ {Root} /\ Above(c, h) /\ Parent(c) = t
  BY <1>1, <1>3, <1>4, <1>5, AncestorsAbove
<1>7. c \in Children(t)
  BY <1>1, <1>6 DEF Children, IsTree
<1>8. status[c] # "absent"
  <2>1. CASE c = h
    BY <2>1
  <2>2. CASE c # h
    BY <1>1, <1>6, <2>2 DEF FinishedAbove
  <2> QED
    BY <2>1, <2>2
<1> QED
  BY <1>2, <1>7, <1>8

LEMMA ApartStays ==
  ASSUME KInv, Apart, tree' = tree, dfs_roots' = dfs_roots,
         \A h \in Others' : h \in Others \/ ~InDFS(h),
         pc' \in {"visit", "extend"} => ~InDFS(path')
  PROVE  Apart'
<1>1. \A h : InDFS(h)' <=> InDFS(h)
  BY DEF InDFS, Above
<1>2. \A h \in Others' : ~InDFS(h)
  BY DEF Apart
<1>3. pc' \in {"visit", "extend"} => ~(\E r \in dfs_roots' : Above(r, path)')
  BY DEF InDFS, Above
<1> QED
  BY <1>1, <1>2, <1>3 DEF Apart, InDFS

LEMMA ChildApart ==
  ASSUME KInv, Apart, NEW c \in tree.nodes \ {Root}, c \notin dfs_roots, ~InDFS(Parent(c))
  PROVE  ~InDFS(c)
<1>1. IsTree(tree) /\ dfs_roots \subseteq tree.nodes
  BY KnownKept
<1>2. ASSUME NEW r \in dfs_roots, Above(r, c) PROVE FALSE
  <2>1. r # c /\ r \in tree.nodes
    BY <1>1, <1>2
  <2>2. Above(r, Parent(c))
    BY <1>1, <1>2, <2>1, ChildAbove
  <2> QED
    BY <1>2, <2>2 DEF InDFS
<1> QED
  BY <1>2 DEF InDFS

(* A node that is not finished was not traversed.                          *)
LEMMA NewApart ==
  ASSUME KInv, Apart, cur # NoNode
  PROVE  pc # "dfs" => ~InDFS(cur)
<1>1. PICK c : c = cur
  OBVIOUS
<1>2. c \in tree.nodes /\ status[c] = "constructing"
  BY <1>1, KnownKept, PointersExist, ExistingNodes
<1>3. c \notin dfs_roots
  BY <1>2, KnownKept DEF KeptHeld, Finishes
<1>4. CASE c = Root
  <2>1. ASSUME NEW r \in dfs_roots PROVE ~Above(r, c)
    <3>1. r \in tree.nodes /\ IsTree(tree) /\ Above(Root, r)
      BY KnownKept, AncestorsAbove
    <3> QED
      BY <1>2, <1>3, <1>4, <2>1, <3>1, AboveOn
  <2> QED
    BY <1>1, <2>1 DEF InDFS
<1>5. CASE c # Root /\ pc # "dfs"
  <2>1. pc \in {"extend", "loop"}
    BY <1>1, <1>5, KnownKept DEF InHand, ChildFacts
  <2>2. ~InDFS(Parent(c))
    <3>1. CASE pc = "extend"
      <4>1. Parent(c) = path
        BY <1>1, <1>5, <3>1, KnownKept DEF InHand
      <4> QED
        BY <3>1, <4>1 DEF Apart
    <3>2. CASE pc = "loop"
      <4>1. Parent(c) = node /\ node # NoNode
        BY <1>1, <1>5, <3>2, KnownKept DEF InHand, ChildFacts
      <4> QED
        BY <4>1 DEF Apart, Others, InLists
    <3> QED
      BY <2>1, <3>1, <3>2
  <2> QED
    BY <1>1, <1>2, <1>3, <1>5, <2>2, ChildApart
<1> QED
  BY <1>1, <1>4, <1>5

(* What pointers are to, and the leaves that are kept, has been created.   *)
LEMMA HolderAppeared ==
  ASSUME KInv
  PROVE  \A h \in Holders(Held) \ {NoNode} : h \in tree.nodes /\ status[h] # "absent"
<1>1. /\ Holders(Held) \ {NoNode} \subseteq tree.nodes
      /\ \A t \in Holders(Held) \ {NoNode} :
           t \in Pointed \/ t = cur \/ t = Root \/ t \in KeptLeaves
  BY KnownKept, HeldAreNodes
<1>2. \A t \in Pointed : status[t] # "absent"
  BY KnownKept, AtLevel
<1>3. status[Root] # "absent" /\ \A t \in KeptLeaves : status[t] # "absent"
  BY KnownKept, KnownWalk, KnownNodes DEF RootLives, Reported, Finishes
<1>4. \A t \in tree.nodes : t = cur => status[t] # "absent"
  BY KnownKept
<1> QED
  BY <1>1, <1>2, <1>3, <1>4

LEMMA StartApart ==
  ASSUME KInv, NodesCounted, NewNodes, max_nodes > 1, Apart, StartDFS
  PROVE  Apart'
<1>1. PICK p : p = path
  OBVIOUS
<1>2. /\ pc = "visit" /\ use_dfs /\ dfs_roots' = dfs_roots \cup {p} /\ pc' = "dfs" /\ cur = NoNode
      /\ UNCHANGED <<head, level_list, next_list, old_head, node, kept>> /\ tree' = tree
  BY <1>1 DEF StartDFS, Free, nodeVars, treeVars
<1>3. p \in tree.nodes /\ \A c \in Children(p) : status[c] = "absent"
  BY <1>1, <1>2, KnownKept, KnownWalk DEF InHand, Placed, Waiting
<1>4. p # Root
  <2> SUFFICES ASSUME p = Root PROVE FALSE
    OBVIOUS
  <2>1. ASSUME NEW t \in Existing PROVE t = Root
    <3>1. t \in tree.nodes /\ Exists(t, Held) /\ IsTree(tree)
      BY <2>1, KnownKept, ExistingNodes
    <3>2. PICK h \in Holders(Held) \ {NoNode} : Above(t, h)
      BY <3>1 DEF Exists, ExistsAmong
    <3>3. h \in tree.nodes /\ status[h] # "absent" /\ Above(Root, h)
      BY <3>1, <3>2, HolderAppeared, AncestorsAbove
    <3>4. h = Root
      BY <1>3, <3>3, NothingBelow
    <3>5. Above(Root, t) /\ Root \in tree.nodes
      BY <3>1, AncestorsAbove
    <3> QED
      BY <3>1, <3>2, <3>4, <3>5, AboveOn
  <2>2. Existing = {Root}
    BY <2>1, KnownKept, ExistingNodes
  <2>3. Cardinality(Existing) = 1
    BY <2>2, FS_Singleton
  <2>4. use_dfs => Cardinality(Existing) >= max_nodes
    BY DEF NodesCounted
  <2>5. Cardinality(Existing) >= max_nodes /\ max_nodes \in Nat
    BY <1>2, <2>4 DEF NodesCounted
  <2> QED
    BY <2>3, <2>5
<1>5. ASSUME NEW h \in Others PROVE ~Above(p, h)
  <2>1. h \in tree.nodes /\ status[h] # "absent"
    <3>1. h \in Pointed \/ h = Root
      BY <1>5 DEF Others, InLists, Pointed
    <3>2. RootLives /\ Root \in tree.nodes
      BY KnownKept, KnownWalk, KnownNodes
    <3> QED
      BY <3>1, <3>2, KnownKept, AtLevel DEF RootLives
  <2>2. p \notin Others
    BY <1>1, <1>2, <1>4, KnownKept DEF NewNodes, Others, KeptHeld
  <2> QED
    BY <1>3, <1>5, <2>1, <2>2, NothingBelow
<1>6. Others' = Others
  BY <1>2 DEF Others, InLists, Root
<1>7. \A h \in Others : \A r \in dfs_roots' : ~Above(r, h)
  BY <1>2, <1>5 DEF Apart, InDFS
<1>8. \A h \in Others' : ~(\E r \in dfs_roots' : Above(r, h)')
  BY <1>2, <1>6, <1>7 DEF Above
<1> QED
  BY <1>2, <1>8 DEF Apart, InDFS

LEMMA NextApart ==
  ASSUME KInv, NodesCounted, NewNodes, max_nodes > 1, Apart, [Next]_vars
  PROVE  Apart'
<1>1. OthersMove
  BY NextOthers
<1>2. CASE StartDFS
  BY <1>2, StartApart
<1>3. CASE ~StartDFS
  <2>1. tree' = tree /\ dfs_roots' = dfs_roots
    BY <1>1, <1>3 DEF OthersMove
  <2>2. ASSUME NEW h \in Others' PROVE h \in Others \/ ~InDFS(h)
    <3>1. CASE Created /\ h = path /\ path # NoNode
      <4>1. cur # NoNode /\ pc # "dfs"
        BY <3>1 DEF Created, NodeFinished, CreateLive, Emitted
      <4>2. pc = "extend"
        BY <3>1, <4>1, KnownKept DEF InHand
      <4> QED
        BY <3>1, <4>2 DEF Apart
    <3>2. CASE h \notin dfs_roots /\ h \in tree.nodes \ {Root} /\ Parent(h) = node /\ node # NoNode
      <4>1. ~InDFS(Parent(h))
        BY <3>2 DEF Apart, Others, InLists
      <4> QED
        BY <3>2, <4>1, ChildApart
    <3> QED
      BY <1>1, <2>2, <3>1, <3>2 DEF OthersMove
  <2>3. ASSUME pc' \in {"visit", "extend"} PROVE ~InDFS(path')
    <3>1. CASE Created
      <4>1. cur # NoNode /\ pc # "dfs" /\ path' = cur
        BY <3>1 DEF Created, NodeFinished, CreateLive, Emitted
      <4> QED
        BY <4>1, NewApart
    <3>2. CASE ~Created
      <4>1. pc \in {"visit", "extend"} /\ path' = path
        <5>1. CASE Refine \/ Tell \/ Extend \/ Prune \/ StepDFS \/ Stop \/ UNCHANGED vars
          <6>1. UNCHANGED loopVars
            BY <5>1 DEF Refine, Tell, Extend, Prune, StepDFS, Stop, vars, bfsVars
          <6> QED
            BY <2>3, <6>1 DEF loopVars
        <5>2. CASE Visit \/ Load \/ NextLevel \/ Enter \/ Iterate \/ Choose
          BY <2>3, <5>2 DEF Visit, Load, NextLevel, Enter, Iterate, Choose, LeaveNode
        <5>3. CASE ReportPath \/ GiveUp \/ EndDFS
          BY <2>3, <5>3 DEF ReportPath, GiveUp, EndDFS, EndPath
        <5> QED
          BY <1>3, <3>2, <5>1, <5>2, <5>3 DEF Next
      <4> QED
        BY <4>1 DEF Apart
    <3> QED
      BY <3>1, <3>2
  <2> QED
    BY <2>1, <2>2, <2>3, ApartStays
<1> QED
  BY <1>2, <1>3

(* A node that is discarded is freed.                                      *)
LEMMA DiscardedGone ==
  ASSUME KInv, KInv', NewNodes, Refine, cur # NoNode, cur' = NoNode, NEW t, t = cur
  PROVE  t \notin Existing'
<1>1. Construct /\ UNCHANGED loopVars /\ kept' = kept /\ stack' = stack /\ at' = at /\ dfs_roots' = dfs_roots
  BY DEF Refine, Constructing, bfsVars, workVars
<1>2. tree' = tree /\ canon_leaf' \in {canon_leaf, NoNode} /\ UNCHANGED <<canon_graph, extra_graph>>
  BY <1>1, KnownKept, KnownThere, ConstructStatus
<1>3. t \in tree.nodes /\ status[t] = "constructing"
  BY KnownKept, PointersExist, ExistingNodes
<1>4. t # Root
  BY <1>1, KnownKept, KnownThere, ConstructStatus
<1>5. Working' = Working
  BY <1>1 DEF Working
<1>6. \A h \in Holders(Held)' : h = NoNode \/ h \in Pointed \/ h = Root \/ h \in KeptLeaves
  BY <1>1, <1>2, <1>5 DEF loopVars, Holders, Held, Pointed, KeptLeaves, Root
<1> SUFFICES ASSUME t \in Existing' PROVE FALSE
  OBVIOUS
<1>7. PICK h \in Holders(Held)' : t \in PathOf(h)'
  BY DEF Existing
<1>8. h # NoNode /\ t \in PathTo(h)
  BY <1>2, <1>7 DEF PathOf, PathTo, Ancestor
<1>9. h \in tree.nodes /\ status[h] # "absent"
  <2>1. CASE h \in Pointed
    BY <2>1, KnownKept, AtLevel
  <2>2. CASE h \in KeptLeaves \/ h = Root
    <3>1. h \in Holders(Held) \ {NoNode}
      BY <1>8, <2>2, KnownKept, HeldAreNodes DEF Holders, KeptLeaves
    <3> QED
      BY <3>1, HolderAppeared
  <2> QED
    BY <1>6, <1>7, <1>8, <2>1, <2>2
<1>11. h = t
  BY <1>3, <1>8, <1>9, KnownKept, PathsUp, NothingBelow
<1>12. t \notin Pointed
  BY <1>3, <1>4, KnownKept DEF NewNodes
<1>13. t \notin KeptLeaves
  BY <1>3, KnownKept, KnownWalk DEF Reported, Finishes
<1> QED
  BY <1>4, <1>6, <1>7, <1>8, <1>11, <1>12, <1>13

LEMMA SettledStays ==
  ASSUME KInv, KInv', NewNodes, [Next]_vars, ~Visit
  PROVE  Settled' \subseteq Settled
<1>0. OthersMove /\ CurMoves /\ Existing' \subseteq Existing \cup ({cur'} \ {NoNode})
  BY KnownKept, NextOthers, NextCur, NextGrows DEF Grows
<1>1. tree' = tree /\ dfs_roots \subseteq dfs_roots'
  BY <1>0 DEF OthersMove
<1>2. \A t : InDFS(t) => (\E r \in dfs_roots' : Above(r, t)')
  BY <1>1 DEF InDFS, Above
<1> SUFFICES ASSUME NEW t \in Settled' PROVE t \in Settled
  OBVIOUS
<1>3. /\ t \in Existing' /\ t # cur' /\ (pc' = "visit" => t # path')
      /\ ~(\E r \in dfs_roots' : Above(r, t)')
  BY DEF Settled, InDFS
<1>4. t \in Existing /\ ~InDFS(t) /\ t \in tree.nodes
  BY <1>0, <1>2, <1>3, KnownKept, ExistingNodes
<1>5. t # cur
  <2> SUFFICES ASSUME t = cur PROVE FALSE
    OBVIOUS
  <2>1. cur # NoNode /\ cur' # cur
    BY <1>3, <1>4, KnownKept
  <2>2. CASE Refine /\ cur' = NoNode
    BY <1>3, <2>1, <2>2, DiscardedGone
  <2>3. CASE Created
    BY <1>3, <2>3 DEF Created
  <2>4. CASE Push /\ pc = "dfs"
    <3>1. path \in dfs_roots /\ Above(path, cur)
      BY <2>1, <2>4, KnownKept, KnownWalk DEF OnBranch
    <3> QED
      BY <1>4, <3>1 DEF InDFS
  <2> QED
    BY <1>0, <2>1, <2>2, <2>3, <2>4 DEF CurMoves
<1>6. ASSUME pc = "visit", t = path PROVE FALSE
  <2>1. IsTree(tree) /\ Above(t, t)
    BY <1>4, KnownKept, AboveOn
  <2>2. cur = NoNode /\ Idle
    BY <1>6, KnownKept, KnownThere DEF InHand, Current
  <2>3. CASE StartDFS
    <3>1. t \in dfs_roots' /\ Above(t, t)'
      BY <1>1, <1>6, <2>1, <2>3 DEF StartDFS, Above
    <3> QED
      BY <1>3, <3>1
  <2>4. CASE Stop \/ UNCHANGED vars
    <3>1. pc' = pc /\ path' = path
      BY <2>4 DEF Stop, vars, bfsVars, loopVars
    <3> QED
      BY <1>3, <1>6, <3>1
  <2>5. CASE ~StartDFS /\ ~(Stop \/ UNCHANGED vars)
    <3>1. ~Refine /\ ~Created
      BY <2>2 DEF Refine, Constructing, Construct, EmitExtending, EmitBetterByVisitor, EmitBetterByValue, EmitSame,
                  EmitWorseVisitor, EmitWorseValue, CreateShort, SameVisitor, Emitting, Emitted, Created, NodeFinished, CreateLive
    <3>2. ~Tell
      BY <2>2 DEF Tell, AutomorphismImplicit, MustTell, Emitted
    <3>3. ~Prune
      BY <2>2 DEF Prune, Update, Merge
    <3>4. ~(Extend \/ ReportPath \/ GiveUp \/ StepDFS \/ EndDFS \/ Load \/ NextLevel \/ Enter \/ Iterate \/ Choose)
      BY <1>6 DEF Extend, ReportPath, GiveUp, StepDFS, EndDFS, Load, NextLevel, Enter, Iterate, Choose
    <3> QED
      BY <2>5, <3>1, <3>2, <3>3, <3>4 DEF Next
  <2> QED
    BY <2>3, <2>4, <2>5
<1> QED
  BY <1>4, <1>5, <1>6 DEF Settled

FewSettled == Cardinality(Settled) <= max_nodes

LEMMA NextFew ==
  ASSUME KInv, KInv', NodesCounted, NodesCounted', NewNodes, FewSettled, [Next]_vars
  PROVE  FewSettled'
<1>1. /\ Settled \subseteq Existing /\ Settled' \subseteq Existing'
      /\ IsFiniteSet(Existing) /\ IsFiniteSet(Existing') /\ max_nodes \in Nat
  BY DEF Settled, NodesCounted
<1>2. max_nodes' = max_nodes
  BY KnownKept, NextGrows DEF CountNodes
<1>3. CASE Visit
  <2>1. ~use_dfs
    BY <1>3 DEF Visit
  <2>2. cur' = NoNode
    BY <1>3, LeavesVisited DEF Visit, Free
  <2>3. Existing' \subseteq Existing
    BY <2>2, KnownKept, NextGrows DEF Grows
  <2>4. ~(Cardinality(Existing) >= max_nodes)
    BY <2>1 DEF NodesCounted
  <2>5. PICK A : A = Existing
    OBVIOUS
  <2>6. PICK B : B = Settled'
    OBVIOUS
  <2>7. Cardinality(B) <= Cardinality(A) /\ Cardinality(A) \in Nat /\ Cardinality(B) \in Nat
    <3>1. IsFiniteSet(A) /\ B \in SUBSET A
      BY <1>1, <2>3, <2>5, <2>6
    <3> QED
      BY <3>1, FS_Subset, FS_CardinalityType
  <2>8. Cardinality(B) <= max_nodes
    BY <1>1, <2>4, <2>5, <2>7
  <2> QED
    BY <1>2, <2>6, <2>8 DEF FewSettled
<1>4. CASE ~Visit
  <2>1. Settled' \subseteq Settled
    BY <1>4, SettledStays
  <2>2. PICK A : A = Settled
    OBVIOUS
  <2>3. PICK B : B = Settled'
    OBVIOUS
  <2>4. PICK E : E = Existing
    OBVIOUS
  <2>5. Cardinality(B) <= Cardinality(A) /\ Cardinality(A) \in Nat /\ Cardinality(B) \in Nat
    <3>1. IsFiniteSet(E) /\ A \in SUBSET E /\ B \in SUBSET A
      BY <1>1, <2>1, <2>2, <2>3, <2>4
    <3>2. IsFiniteSet(A)
      BY <3>1, FS_Subset
    <3> QED
      BY <3>1, <3>2, FS_Subset, FS_CardinalityType
  <2>6. Cardinality(A) <= max_nodes
    BY <2>2 DEF FewSettled
  <2>7. Cardinality(B) <= max_nodes
    BY <1>1, <2>5, <2>6
  <2> QED
    BY <1>2, <2>3, <2>7 DEF FewSettled
<1> QED
  BY <1>3, <1>4

MInv == KInv /\ NodesCounted /\ NewNodes /\ (max_nodes > 1 => Apart) /\ FewSettled

LEMMA InitMInv == Init /\ pruner = "basic" => MInv
<1> SUFFICES ASSUME Init, pruner = "basic" PROVE MInv
  OBVIOUS
<1>1. KInv /\ NodesCounted
  BY InitKInv, InitNodesCounted
<1>2. /\ cur = Root /\ pc = "load" /\ dfs_roots = {}
  BY DEF Init, TreeInit
<1>3. NewNodes /\ Apart
  BY <1>2 DEF NewNodes, Apart, InDFS
<1>4. FewSettled
  <2>1. max_nodes \in Nat \ {0} /\ use_dfs = (max_nodes = 1) /\ IsFiniteSet(Existing)
        /\ (use_dfs <=> Cardinality(Existing) >= max_nodes)
    BY <1>1 DEF NodesCounted, Init
  <2>2. PICK A : A = Existing
    OBVIOUS
  <2>3. PICK B : B = Settled
    OBVIOUS
  <2>4. B \in SUBSET A /\ IsFiniteSet(A)
    BY <2>1, <2>2, <2>3 DEF Settled
  <2>5. Cardinality(B) <= Cardinality(A) /\ Cardinality(A) \in Nat /\ Cardinality(B) \in Nat
    BY <2>4, FS_Subset, FS_CardinalityType
  <2>6. Cardinality(A) = 1
    BY <2>2, InitHasRoot, FS_Singleton
  <2>7. Cardinality(B) <= max_nodes
    BY <2>1, <2>5, <2>6
  <2> QED
    BY <2>3, <2>7 DEF FewSettled
<1> QED
  BY <1>1, <1>3, <1>4 DEF MInv

LEMMA NextMInv == MInv /\ GenerationFits /\ [Next]_vars => MInv'
<1> SUFFICES ASSUME MInv, GenerationFits, [Next]_vars PROVE MInv'
  OBVIOUS
<1>1. KInv /\ NodesCounted /\ NewNodes /\ FewSettled /\ BInv
  BY KnownKept DEF MInv
<1>2. KInv' /\ NodesCounted' /\ NewNodes'
  BY <1>1, NextKInv, NextNodesCounted, NextNew
<1>3. FewSettled'
  BY <1>1, <1>2, NextFew
<1>4. max_nodes' = max_nodes
  BY <1>1, NextGrows DEF CountNodes
<1>5. ASSUME max_nodes > 1 PROVE Apart'
  <2>1. Apart
    BY <1>5 DEF MInv
  <2> QED
    BY <1>1, <1>5, <2>1, NextApart
<1> QED
  BY <1>2, <1>3, <1>4, <1>5 DEF MInv

(* What is neither on the way to the node in hand nor to a leaf that is    *)
(* kept is settled.                                                        *)
Ways == {cur, path, canon_leaf, canon_graph, extra_graph} \cup Working

LEMMA OffWays ==
  ASSUME KInv, NEW t \in Existing, \A w \in Ways : t \notin PathOf(w)
  PROVE  /\ t \in tree.nodes /\ t # cur /\ t # path
         /\ \A w \in Ways : w \in tree.nodes => ~Above(t, w)
         /\ \E h \in Others : h \in tree.nodes /\ Above(t, h)
<1>1. /\ t \in tree.nodes /\ t # NoNode /\ IsTree(tree) /\ Exists(t, Held)
      /\ Holders(Held) \ {NoNode} \subseteq tree.nodes
  BY KnownKept, ExistingNodes, HeldAreNodes
<1>2. ASSUME NEW w \in Ways, w \in tree.nodes PROVE ~Above(t, w)
  <2>1. ASSUME Above(t, w) PROVE FALSE
    <3>1. Len(t) \in 0 .. Len(w) /\ t = Ancestor(w, Len(t))
      BY <1>1, <1>2, <2>1, AboveFacts
    <3>2. w # NoNode
      BY <1>2, KnownKept
    <3>3. t \in PathOf(w)
      BY <3>1, <3>2 DEF PathOf, PathTo
    <3> QED
      BY <3>3
  <2> QED
    BY <2>1
<1>3. Above(t, t)
  BY <1>1, AboveOn
<1>4. t # cur /\ t # path
  BY <1>1, <1>2, <1>3 DEF Ways
<1>5. PICK h \in Holders(Held) \ {NoNode} : Above(t, h)
  BY <1>1 DEF Exists, ExistsAmong
<1>6. h \in tree.nodes /\ h \notin Ways
  BY <1>1, <1>2, <1>5
<1>7. h # child
  <2> SUFFICES ASSUME h = child PROVE FALSE
    OBVIOUS
  <2>1. path # NoNode /\ node # NoNode /\ Above(h, path)
    BY <1>5, KnownKept DEF ChildFacts
  <2>2. PICK p : p = path
    OBVIOUS
  <2>3. p \in tree.nodes /\ p \in Ways
    BY <2>1, <2>2, KnownKept DEF Placed, Ways
  <2>4. Above(t, p)
    BY <1>1, <1>5, <1>6, <2>1, <2>2, <2>3, AboveOn
  <2> QED
    BY <1>2, <2>3, <2>4
<1>8. h \in Others
  BY <1>5, <1>6, <1>7 DEF Holders, Held, Ways, Others, InLists
<1> QED
  BY <1>1, <1>2, <1>4, <1>5, <1>6, <1>8

LEMMA OffTheWays ==
  ASSUME KInv, Apart
  PROVE  Existing \ UNION {PathOf(t) : t \in Ways} \subseteq Settled
<1> SUFFICES ASSUME NEW t \in Existing, \A w \in Ways : t \notin PathOf(w) PROVE t \in Settled
  OBVIOUS
<1>1. /\ t \in tree.nodes /\ t # cur /\ t # path /\ IsTree(tree) /\ dfs_roots \subseteq tree.nodes
      /\ \E h \in Others : h \in tree.nodes /\ Above(t, h)
  BY OffWays, KnownKept
<1>2. PICK h \in Others : h \in tree.nodes /\ Above(t, h)
  BY <1>1
<1>3. ASSUME NEW r \in dfs_roots, Above(r, t) PROVE FALSE
  <2>1. Above(r, h)
    BY <1>1, <1>2, <1>3, AboveOn
  <2> QED
    BY <1>2, <2>1 DEF Apart, InDFS
<1> QED
  BY <1>1, <1>3 DEF Settled, InDFS

LEMMA FewOffTheWays ==
  ASSUME NodesCounted, FewSettled, Existing \ UNION {PathOf(t) : t \in Ways} \subseteq Settled
  PROVE  MemoryIsLimited
<1>1. PICK A : A = Settled
  OBVIOUS
<1>2. PICK B : B = Existing \ UNION {PathOf(t) : t \in Ways}
  OBVIOUS
<1>3. B \in SUBSET A /\ IsFiniteSet(A)
  <2>1. PICK E : E = Existing
    OBVIOUS
  <2>2. IsFiniteSet(E) /\ A \in SUBSET E
    BY <1>1, <2>1 DEF NodesCounted, Settled
  <2>3. IsFiniteSet(A)
    BY <2>2, FS_Subset
  <2> QED
    BY <1>1, <1>2, <2>3
<1>4. Cardinality(B) <= Cardinality(A) /\ Cardinality(A) \in Nat /\ Cardinality(B) \in Nat
  BY <1>3, FS_Subset, FS_CardinalityType
<1>5. Cardinality(A) <= max_nodes /\ max_nodes \in Nat
  BY <1>1 DEF FewSettled, NodesCounted
<1>6. Cardinality(B) <= max_nodes
  BY <1>4, <1>5
<1>7. Cardinality(Existing \ UNION {PathOf(t) : t \in Ways}) <= max_nodes
  BY <1>2, <1>6
<1> QED
  BY <1>7 DEF MemoryIsLimited, NodesCounted, Ways

LEMMA AlwaysMInv == Spec /\ []GenerationFits /\ pruner = "basic" => []MInv
<1>1. Init /\ pruner = "basic" => MInv
  BY InitMInv
<1>2. MInv /\ GenerationFits /\ [Next]_vars => MInv'
  BY NextMInv
<1> QED
  BY <1>1, <1>2, PTL DEF Spec

-----------------------------------------------------------------------------
(* The types, with aut_pruner_basic.                                       *)

LEMMA StepOfWalk ==
  ASSUME KInv, [Next]_vars
  PROVE  ChainsStep /\ WalkStep
<1>0. /\ pruner = "basic" /\ Placed /\ InHand /\ BInv
      /\ path \in tree.nodes \cup {NoNode} /\ node \in tree.nodes \cup {NoNode}
  BY KnownKept, KnownNodes, KnownWalk DEF Placed
<1>1. CASE Refine \/ Tell \/ Created
  BY <1>0, <1>1, ConstructionTyped DEF Refine, Tell, Created
<1>2. CASE Prune
  BY <1>0, <1>2, UpdateTyped DEF Prune
<1>3. CASE Visit
  <2>1. path \in tree.nodes /\ BeforeDescend(path)
    BY <1>0, <1>3 DEF Visit, InHand
  <2> QED
    BY <1>0, <2>1, DescentTyped
<1>4. CASE Extend
  BY <1>4, BeginTyped DEF Extend
<1>5. CASE ReportPath
  BY <1>0, <1>5, ReportTyped DEF ReportPath
<1>6. CASE StepDFS
  <2>1. CASE Push
    BY <1>0, <2>1, ConstructionTyped DEF Push
  <2>2. CASE Pop
    <3>1. PICK e : e = stack[Len(stack)]
      OBVIOUS
    <3>2. stack \in Seq(Elems) /\ stack # <<>> /\ BeforeDescend(e.node)
      BY <1>0, <2>2, <3>1 DEF Pop, Placed, StackOK
    <3>3. e \in Elems
      BY <3>1, <3>2, ElementOf
    <3>4. e.node \in tree.nodes
      BY <3>3 DEF Elems
    <3> QED
      BY <1>0, <3>2, <3>4, DescentTyped
  <2>3. CASE Skip \/ Leave(Held)
    <3>1. UNCHANGED <<prunerVars, chainVars>>
      BY <2>3 DEF Skip, Leave
    <3> QED
      BY <3>1, NothingTyped
  <2>4. CASE Descend(Held)
    BY <2>4, BeginTyped DEF Descend
  <2>5. CASE Report(Held)
    BY <1>0, <2>5, ReportTyped DEF Report
  <2> QED
    BY <1>6, <2>1, <2>2, <2>3, <2>4, <2>5 DEF StepDFS
<1>7. CASE Load
  <2>1. PICK t : t = Head(level_list)
    OBVIOUS
  <2>2. t \in tree.nodes
    BY <1>0, <1>7, <2>1, RangeOfTail DEF Load, Placed
  <2>3. CASE BeforeDescend(t)
    BY <1>0, <2>2, <2>3, DescentTyped
  <2>4. CASE UNCHANGED nodeVars
    BY <2>4, NothingTyped DEF nodeVars
  <2> QED
    BY <1>7, <2>1, <2>3, <2>4 DEF Load
<1>8. CASE Iterate
  <2>1. node \in tree.nodes
    BY <1>0, <1>8 DEF Iterate, InHand
  <2>2. CASE BeforeDescend(node)
    BY <1>0, <2>1, <2>2, DescentTyped
  <2>3. CASE UNCHANGED nodeVars
    BY <2>3, NothingTyped DEF nodeVars
  <2> QED
    BY <1>8, <2>2, <2>3 DEF Iterate, LeaveNode
<1>9. CASE Choose
  <2>1. PICK c : c = First(ToDo)
    OBVIOUS
  <2>2. CountChild(c) \/ UNCHANGED nodeVars
    BY <1>9, <2>1 DEF Choose, LeaveNode
  <2> QED
    BY <2>2, BeginTyped, NothingTyped DEF nodeVars
<1>10. CASE GiveUp \/ StartDFS \/ EndDFS \/ NextLevel \/ Enter \/ Stop \/ UNCHANGED vars
  <2>1. UNCHANGED nodeVars
    BY <1>10 DEF GiveUp, StartDFS, EndDFS, NextLevel, Enter, LeaveNode, Stop, vars
  <2> QED
    BY <2>1, NothingTyped DEF nodeVars
<1> QED
  BY <1>1, <1>2, <1>3, <1>4, <1>5, <1>6, <1>7, <1>8, <1>9, <1>10 DEF Next

TypedInv == MInv /\ ChainsTyped /\ WalkTyped /\ max_nodes \in tree.limits

LEMMA InitTyped == Init /\ pruner = "basic" => TypedInv
<1> SUFFICES ASSUME Init, pruner = "basic" PROVE TypedInv
  OBVIOUS
<1>1. MInv
  BY InitMInv
<1>2. ChainsTyped /\ WalkTyped
  BY StartsTyped DEF Init
<1> QED
  BY <1>1, <1>2 DEF TypedInv, Init

LEMMA NextTypedInv == TypedInv /\ GenerationFits /\ [Next]_vars => TypedInv'
<1> SUFFICES ASSUME TypedInv, GenerationFits, [Next]_vars PROVE TypedInv'
  OBVIOUS
<1>1. MInv'
  BY NextMInv DEF TypedInv
<1>2. KInv /\ BInv /\ GensInv /\ NodesInv /\ ControlTypeOK
  BY KnownKept, KnownWalk, KnownNodes, KnownThere DEF TypedInv, MInv
<1>3. tree' = tree /\ max_nodes' = max_nodes
  <2>1. tree' = tree
    BY <1>2, NextFinishes, KnownKept DEF StaysFinished
  <2> QED
    BY <1>2, <2>1, NextGrows DEF CountNodes
<1>4. PICK u \in tree.nodes : PrunerAt(u)
  BY <1>2 DEF NodesInv, Updating
<1>5. ChainsTyped' /\ WalkTyped'
  BY <1>2, <1>3, <1>4, StepOfWalk, TypedStep DEF TypedInv, ControlTypeOK
<1> QED
  BY <1>1, <1>3, <1>5 DEF TypedInv

(* Type correctness of the traversal by levels: the lists, what is kept,   *)
(* the nodes in hand, the work stack of the depth first fallback, and all  *)
(* that coordinator, providers and pruner keep.                            *)
THEOREM AlwaysTypedByLevel ==
  Spec /\ [](generation < SizeTypeSize) /\ pruner = "basic" => []BfsTypeOK
<1>1. TypedInv => BfsTypeOK
  <2> SUFFICES ASSUME TypedInv PROVE BfsTypeOK
    OBVIOUS
  <2>1. /\ ControlTypeOK /\ RecordInv /\ GensInv /\ ShapeInv /\ Placed /\ ChildrenCounted /\ NodesCounted
        /\ NodesInv
    BY KnownKept, KnownWalk, KnownNodes, KnownThere DEF TypedInv, MInv
  <2>2. TypeOK
    BY <2>1 DEF TypeOK, RecordInv, ValuesTyped, AllValues, ShapeInv
  <2>3. forest \in [tree.nodes -> tree.nodes]
    BY <2>1 DEF NodesInv, Updating, PrunerAt
  <2>4. PrunerTypeOK
    BY <2>1, <2>3 DEF TypedInv, ChainsTyped, WalkTyped, PathsTyped, MovesTyped, ToldTyped, GensInv, GensTyped,
       ChildrenCounted, PrunerTypeOK
  <2>5. use_dfs \in BOOLEAN
    BY <2>1, Zenon DEF NodesCounted
  <2>6. max_nodes \in tree.limits
    BY DEF TypedInv
  <2> QED
    BY <2>1, <2>2, <2>4, <2>5, <2>6, Zenon DEF BfsTypeOK, Placed
<1> QED
  BY <1>1, InitTyped, NextTypedInv, PTL DEF GenerationFits, Spec

-----------------------------------------------------------------------------
(* The candidate is not pruned, with aut_pruner_basic: neither with the    *)
(* other leaf of an automorphism, nor with a set of children that is given *)
(* up for another.                                                         *)

DInv == KInv /\ CanonPath /\ CandLive

LEMMA PruneCand ==
  ASSUME KInv, CanonPath, CandLive, Prune
  PROVE  CanonPath' /\ CandLive'
<1>0. /\ BInv /\ NodesInv /\ GensInv /\ TreeInv /\ canon_leaf \in tree.nodes \cup {NoNode} /\ IsTree(tree)
      /\ NoNode \notin tree.nodes
  BY KnownKept, KnownWalk, KnownNodes DEF ControlTypeOK
<1>1. PICK t \in tree.nodes : PrunerAt(t) /\ (Idle \/ Finishes(t))
  BY <1>0 DEF NodesInv, Updating
<1>2. ~Idle /\ canon_leaf' = canon_leaf /\ UpdatePathTo(t) /\ Finishes(t)
  BY <1>1 DEF Prune, Update, Merge, Absorb, treeVars, leafVars, PrunerAt
<1>3. StopUpdate \/ NextUpdate \/ SameUpdate
  BY DEF Prune, Update, Merge
<1>4. CanonPath'
  BY <1>0, <1>2, <1>3, UpdateCanon
<1>5. CASE UNCHANGED treeVars
  BY <1>4, <1>5, CandSame
<1>6. CASE Merge(Held) /\ ~UNCHANGED treeVars
  <2>1. PICK h : h = Highest
    OBVIOUS
  <2>2. h \in tree.nodes
    BY <1>0, <1>1, <1>2, <2>1, HighestFinishes
  <2>3. PICK keep \in Children(h), other \in Children(h) :
          /\ keep # other
          /\ keep = Keep(keep, other, Held) \/ keep = Keep(other, keep, Held)
          /\ PruneSubtree(other, {other})
    BY <1>0, <1>1, <1>6, <2>1, <2>2, MergedSets
  <2>4. /\ keep \in tree.nodes \ {Root} /\ Parent(keep) = Highest
        /\ other \in tree.nodes \ {Root} /\ Parent(other) = Highest
    BY <1>0, <2>1, <2>2, <2>3, ChildrenAreNodes
  <2>5. ASSUME canon_leaf # NoNode PROVE ~Above(other, canon_leaf)
    <3>1. CASE keep = Keep(keep, other, Held)
      BY <1>0, <1>2, <2>3, <2>4, <2>5, <3>1, OtherIsNotAbove
    <3>2. CASE keep = Keep(other, keep, Held)
      BY <1>0, <1>2, <2>3, <2>4, <2>5, <3>2, OtherIsNotAbove
    <3> QED
      BY <2>3, <3>1, <3>2
  <2>6. /\ \A s \in tree.nodes : ~Above(other, s) => status'[s] = status[s]
        /\ UNCHANGED <<tree, node_gen, generations>>
    BY <2>3, SubtreeSpares
  <2>7. canon_leaf' # NoNode => status'[canon_leaf] = status[canon_leaf]
    BY <1>0, <1>2, <2>5, <2>6
  <2>8. CandLive'
    BY <1>2, <2>6, <2>7, CandKept
  <2> QED
    BY <1>4, <2>8
<1> QED
  BY <1>5, <1>6 DEF Prune, Update

(* A node is reported, or begun, while nothing is updated.                 *)
LEMMA NothingUpdated ==
  ASSUME KInv, [Next]_vars, ~Prune
  PROVE  \/ CanonPath => CanonPath'
         \/ \E t \in tree.nodes : BeforeDescend(t) /\ Idle
<1>0. Placed /\ InHand /\ IdleBetween /\ BInv
  BY KnownKept, KnownWalk
<1>1. CASE Refine \/ Tell \/ Created
  <2>1. cur # NoNode /\ t_path' = t_path
    BY <1>1 DEF Refine, Tell, Created, Constructing, AutomorphismImplicit, AddAutomorphism, MustTell, Emitted,
       NodeFinished, CreateLive, Construct, EmitExtending, EmitBetterByVisitor, EmitBetterByValue, EmitSame,
       EmitWorseVisitor, EmitWorseValue, CreateShort, SameVisitor, Emitting, prunerVars
  <2> QED
    BY <1>0, <2>1, IdleCanon DEF InHand, Idle
<1>2. CASE Visit
  <2>1. path \in tree.nodes /\ BeforeDescend(path) /\ Idle
    BY <1>0, <1>2 DEF Visit, InHand, Free, Placed
  <2> QED
    BY <2>1
<1>3. CASE Extend \/ ReportPath \/ GiveUp \/ StartDFS \/ NextLevel \/ Enter \/ Choose
  <2>1. Idle /\ t_path' = t_path
    BY <1>3 DEF Extend, ReportPath, GiveUp, StartDFS, NextLevel, Enter, Choose, LeaveNode, Free, CountChild,
       ReportVisited, AutomorphismLeaf, AddAutomorphism, nodeVars, prunerVars
  <2> QED
    BY <2>1, IdleCanon DEF Idle
<1>4. CASE EndDFS
  <2>1. Idle /\ t_path' = t_path
    BY <1>0, <1>4 DEF EndDFS, Traversed, IdleBetween, nodeVars, prunerVars
  <2> QED
    BY <2>1, IdleCanon DEF Idle
<1>5. CASE StepDFS
  <2>1. CASE Pop
    <3>1. PICK e : e = stack[Len(stack)]
      OBVIOUS
    <3>2. stack \in Seq(Elems) /\ stack # <<>> /\ BeforeDescend(e.node) /\ Idle
      BY <1>0, <1>5, <2>1, <3>1 DEF Pop, Placed, StackOK, IdleBetween, StepDFS
    <3>3. e \in Elems
      BY <3>1, <3>2, ElementOf
    <3>4. e.node \in tree.nodes
      BY <3>3 DEF Elems
    <3> QED
      BY <3>2, <3>4
  <2>2. CASE Push
    <3>1. cur # NoNode /\ t_path' = t_path
      BY <2>2 DEF Push, NodeFinished, CreateLive, Emitted, prunerVars
    <3> QED
      BY <1>0, <3>1, IdleCanon DEF InHand, Idle
  <2>3. CASE Skip \/ Leave(Held) \/ Descend(Held) \/ Report(Held)
    <3>1. Idle /\ t_path' = t_path
      BY <2>3 DEF Skip, Leave, Descend, Report, Go, Ready, CountChild, ReportVisited, AutomorphismLeaf,
         AddAutomorphism, prunerVars
    <3> QED
      BY <3>1, IdleCanon DEF Idle
  <2> QED
    BY <1>5, <2>1, <2>2, <2>3 DEF StepDFS
<1>6. CASE Load \/ Iterate
  <2>1. Idle
    BY <1>6 DEF Load, Iterate, Free
  <2>2. \/ t_path' = t_path
        \/ \E t \in tree.nodes : BeforeDescend(t)
    <3>1. CASE Load
      <4>1. PICK t : t = Head(level_list)
        OBVIOUS
      <4>2. t \in tree.nodes
        BY <1>0, <3>1, <4>1, RangeOfTail DEF Load, Placed
      <4>3. BeforeDescend(t) \/ t_path' = t_path
        BY <3>1, <4>1 DEF Load, nodeVars, prunerVars
      <4> QED
        BY <4>2, <4>3
    <3>2. CASE Iterate
      <4>1. node \in tree.nodes
        BY <1>0, <3>2 DEF Iterate, InHand, Placed
      <4>2. BeforeDescend(node) \/ t_path' = t_path
        BY <3>2 DEF Iterate, LeaveNode, nodeVars, prunerVars
      <4> QED
        BY <4>1, <4>2
    <3> QED
      BY <1>6, <3>1, <3>2
  <2> QED
    BY <2>1, <2>2, IdleCanon DEF Idle
<1>7. CASE Stop \/ UNCHANGED vars
  <2>1. UNCHANGED <<t_path, c_path, canon_leaf>>
    BY <1>7 DEF Stop, vars, nodeVars, prunerVars, treeVars, leafVars
  <2> QED
    BY <2>1 DEF CanonPath, Idle, Highest, UpPath, Above, Ancestor
<1> QED
  BY <1>1, <1>2, <1>3, <1>4, <1>5, <1>6, <1>7 DEF Next

(* What a step does to the nodes.                                          *)
LEMMA NodeSteps ==
  ASSUME KInv, [Next]_vars
  PROVE  \/ Refine \/ Tell \/ Prune \/ NodeFinished
         \/ UNCHANGED treeVars
         \/ cur = NoNode /\ \E t \in tree.nodes : t \in Pointed /\ BeforeDescend(t)
         \/ cur = NoNode /\ \E t \in tree.nodes : \E c \in Children(t) :
              status[c] = "absent" /\ CreateBegin(c)
         \/ cur = NoNode /\ \E t \in tree.nodes :
              /\ UpToDate(t) /\ IsLeaf(t) /\ t # canon_leaf /\ ReportVisited(t, Held)
<1>0. Placed /\ InHand /\ IdleBetween /\ BInv /\ Waiting /\ Reported /\ Current
  BY KnownKept, KnownWalk, KnownThere
<1>1. CASE Created
  BY <1>1 DEF Created
<1>2. CASE Visit
  <2>1. path \in tree.nodes /\ path \in Pointed /\ BeforeDescend(path) /\ cur = NoNode
    BY <1>0, <1>2 DEF Visit, InHand, Free, Placed, Pointed
  <2> QED
    BY <2>1
<1>3. CASE Extend
  <2>0. PICK t : t = path
    OBVIOUS
  <2>1. t \in tree.nodes /\ NewChildren # {} /\ CreateBegin(First(NewChildren)) /\ cur = NoNode
    BY <1>0, <1>3, <2>0 DEF Extend, InHand, Placed, Free
  <2>2. PICK c : c = First(NewChildren)
    OBVIOUS
  <2>3. NewChildren \in SUBSET Children(t)
    BY <2>0 DEF NewChildren
  <2>4. c \in Children(t) /\ status[c] = "absent"
    BY <2>1, <2>2, <2>3, KnownKept, FirstIsOne DEF NewChildren
  <2> QED
    BY <2>1, <2>2, <2>4
<1>4. CASE ReportPath
  <2>1. /\ path \in tree.nodes /\ ReportVisited(path, Held) /\ cur = NoNode /\ IsLeaf(path)
        /\ path # canon_leaf /\ UpToDate(path)
    BY <1>0, <1>4 DEF ReportPath, InHand, Placed, Free, Reported, Current
  <2> QED
    BY <2>1
<1>5. CASE StepDFS
  <2>0. PICK t : t = at.node
    OBVIOUS
  <2>1. ASSUME at # NoNode
        PROVE  t \in tree.nodes /\ at \in Work /\ NotYet(at) /\ cur = NoNode /\ ~Outdated(t)
               /\ status[t] # "absent" /\ t # canon_leaf
    <3>1. at \in Work
      BY <1>0, <2>1, WorkElements DEF Placed
    <3>2. t \in tree.nodes /\ t \in Pointed
      BY <1>0, <2>0, <2>1, WorkingNodes DEF Placed, Pointed
    <3> QED
      BY <1>0, <2>0, <2>1, <3>1, <3>2, KnownThere DEF Waiting, InHand, Current, Appeared, Reported
  <2>2. CASE Push
    BY <2>2 DEF Push
  <2>3. CASE Pop
    <3>1. PICK u : u = at'.node
      OBVIOUS
    <3>2. cur = NoNode /\ BeforeDescend(u) /\ stack # <<>> /\ at' = stack[Len(stack)]
          /\ stack' = SubSeq(stack, 1, Len(stack) - 1)
      BY <2>3, <3>1 DEF Pop
    <3>3. u \in Working
      BY <1>0, <3>1, <3>2, KnownThere, StackPopped, WorkingNodes
    <3>4. u \in tree.nodes /\ u \in Pointed
      BY <1>0, <3>3, WorkingNodes DEF Placed, Pointed
    <3> QED
      BY <3>2, <3>4
  <2>4. CASE Skip \/ Leave(Held)
    BY <2>4 DEF Skip, Leave
  <2>5. CASE Descend(Held)
    <3>1. at # NoNode
      BY <2>5 DEF Descend, Go, Ready
    <3>2. PICK c \in Candidates(Held) : CreateBegin(c)
      BY <2>5 DEF Descend
    <3>3. c \in Children(t) /\ c[Len(c)] >= at.next_child
      BY <2>0, <3>2 DEF Candidates
    <3>4. status[c] = "absent"
      BY <2>0, <2>1, <3>1, <3>3, KnownKept, ChildrenAreNodes DEF NotYet
    <3> QED
      BY <2>1, <3>1, <3>2, <3>3, <3>4
  <2>6. CASE Report(Held)
    <3>1. at # NoNode /\ ReportVisited(t, Held) /\ status[t] # "pruned" /\ IsLeaf(t)
      BY <2>0, <2>6 DEF Report, Go, Ready
    <3>2. UpToDate(t)
      BY <1>0, <2>1, <3>1, KnownThere, FinishedNode
    <3> QED
      BY <2>1, <3>1, <3>2
  <2> QED
    BY <1>5, <2>2, <2>3, <2>4, <2>5, <2>6 DEF StepDFS
<1>6. CASE Load
  <2>1. PICK t : t = Head(level_list)
    OBVIOUS
  <2>2. cur = NoNode /\ (BeforeDescend(t) \/ UNCHANGED treeVars) /\ level_list # <<>>
    BY <1>6, <2>1 DEF Load, Free, nodeVars
  <2>3. t \in tree.nodes /\ t \in Pointed
    BY <1>0, <2>1, <2>2, RangeOfTail DEF Placed, Pointed
  <2> QED
    BY <2>2, <2>3
<1>7. CASE Iterate
  <2>1. cur = NoNode /\ (BeforeDescend(node) \/ UNCHANGED treeVars)
    BY <1>7 DEF Iterate, Free, nodeVars, LeaveNode
  <2>2. node \in tree.nodes /\ node \in Pointed
    BY <1>0, <1>7 DEF Iterate, InHand, Placed, Pointed
  <2> QED
    BY <2>1, <2>2
<1>8. CASE Choose
  <2>0. PICK t : t = node
    OBVIOUS
  <2>1. t \in tree.nodes /\ ToDo # {} /\ ToDo \in SUBSET Children(t) /\ cur = NoNode
    BY <1>0, <1>8, <2>0 DEF Choose, InHand, Placed, Current, ToDo, Free
  <2>2. PICK c : c = First(ToDo)
    OBVIOUS
  <2>3. c \in Children(t)
    BY <2>1, <2>2, KnownKept, FirstIsOne
  <2>4. UNCHANGED treeVars \/ (status[c] = "absent" /\ CreateBegin(c))
    BY <1>8, <2>2 DEF Choose, LeaveNode, nodeVars
  <2> QED
    BY <2>1, <2>3, <2>4
<1>9. CASE GiveUp \/ StartDFS \/ EndDFS \/ NextLevel \/ Enter \/ Stop \/ UNCHANGED vars
  BY <1>9 DEF GiveUp, StartDFS, EndDFS, NextLevel, Enter, LeaveNode, Stop, vars, nodeVars
<1> QED
  BY <1>1, <1>2, <1>3, <1>4, <1>5, <1>6, <1>7, <1>8, <1>9 DEF Next

LEMMA NextCand ==
  ASSUME KInv, CanonPath, CandLive, GenerationFits, [Next]_vars
  PROVE  CanonPath' /\ CandLive'
<1>0. TreeInv /\ RecordInv /\ GensInv /\ IsTree(tree) /\ canon_leaf \in tree.nodes \cup {NoNode}
  BY KnownKept, KnownWalk, KnownNodes DEF ControlTypeOK
<1>1. CASE Prune
  BY <1>1, PruneCand
<1>2. CASE ~Prune
  <2>1. CanonPath'
    BY <1>0, <1>2, NothingUpdated, DescentCanon
  <2> SUFFICES CandLive'
    BY <2>1
  <2>2. CASE Refine \/ Tell
    <3>1. CASE Refine
      BY <1>0, <3>1, CandInConstruction DEF Refine, Constructing
    <3>2. CASE Tell
      BY <3>2, CandSame DEF Tell, AutomorphismImplicit
    <3> QED
      BY <2>2, <3>1, <3>2
  <2>3. CASE NodeFinished
    BY <1>0, <2>3, CandAtFinish DEF NodeFinished
  <2>4. CASE UNCHANGED treeVars
    BY <2>4, CandSame
  <2>5. ASSUME NEW t \in tree.nodes, BeforeDescend(t) PROVE CandLive'
    BY <1>0, <2>5, CandVisited
  <2>6. ASSUME NEW t \in tree.nodes, NEW c \in Children(t), status[c] = "absent", CreateBegin(c)
        PROVE  CandLive'
    BY <1>0, <2>6, ChildrenAreNodes, CandAtBegin
  <2>7. ASSUME cur = NoNode, NEW t \in tree.nodes, UpToDate(t), IsLeaf(t), t # canon_leaf,
               ReportVisited(t, Held)
        PROVE  CandLive'
    BY <1>0, <2>7, CandReported
  <2> QED
    BY <1>2, <2>1, <2>2, <2>3, <2>4, <2>5, <2>6, <2>7, NodeSteps
<1> QED
  BY <1>1, <1>2

LEMMA InitDInv == Init /\ pruner = "basic" => DInv
<1> SUFFICES ASSUME Init, pruner = "basic" PROVE DInv
  OBVIOUS
<1>1. Idle /\ canon_leaf = NoNode
  BY DEF Init, PrunerInit, TreeInit, Idle
<1> QED
  BY <1>1, InitKInv DEF DInv, CanonPath, CandLive

LEMMA AlwaysDInv == Spec /\ []GenerationFits /\ pruner = "basic" => []DInv
<1>1. DInv /\ GenerationFits /\ [Next]_vars => DInv'
  BY NextKInv, NextCand DEF DInv
<1> QED
  BY <1>1, InitDInv, PTL DEF Spec

LEMMA CandidateNotPruned == DInv => CandidateIsRecorded
<1> SUFFICES ASSUME DInv PROVE CandidateIsRecorded
  OBVIOUS
<1>1. TreeInv /\ RecordInv /\ CandLive
  BY KnownKept, KnownWalk, KnownNodes DEF DInv
<1> QED
  BY <1>1, CandUpToDate DEF RecordInv

(* The candidate is one of the record while nodes of several levels wait   *)
(* and are pruned: a leaf reported by an experimental path, by the         *)
(* fallback or by the level stays alive, and its path the whole record,    *)
(* until a leaf that is recorded as better takes its place                 *)
(* (canonicalization.hpp:302-364).                                         *)
THEOREM CandidateRecordedByLevel ==
  Spec /\ [](generation < SizeTypeSize) /\ pruner = "basic" => []CandidateIsRecorded
<1> QED
  BY CandidateNotPruned, AlwaysDInv, PTL DEF GenerationFits

-----------------------------------------------------------------------------
(* A limit of 1, with aut_pruner_basic: the root is as many nodes as fit,  *)
(* so the tree is traversed depth first from it.  The traversal by level   *)
(* that follows finds nothing to do: it goes over nodes that exist because *)
(* a kept leaf is below them.                                              *)

LEMMA PruneSpares ==
  ASSUME Prune
  PROVE  UNCHANGED treeVars \/ \E a, also : PruneSubtree(a, also) /\ UNCHANGED leafVars
<1>1. CASE Update(Held)
  BY <1>1 DEF Update
<1>2. CASE Merge(Held)
  BY <1>2 DEF Merge, Absorb
<1> QED
  BY <1>1, <1>2 DEF Prune

(* What a step does to the flags.                                          *)
LEMMA NextNodes ==
  ASSUME KInv, [Next]_vars
  PROVE  /\ tree' = tree /\ child_pruned \subseteq child_pruned'
         /\ \A t \in tree.nodes : status'[t] = "absent" => status[t] = "absent"
         /\ \A t \in tree.nodes : status'[t] = "live" => status[t] = "live" \/ (NodeFinished /\ t = cur)
<1>0. TreeInv /\ ControlTypeOK /\ IsTree(tree)
  BY KnownKept, KnownThere
<1> DEFINE P == /\ tree' = tree /\ child_pruned \subseteq child_pruned'
                /\ \A t \in tree.nodes : status'[t] = "absent" => status[t] = "absent"
                /\ \A t \in tree.nodes : status'[t] = "live" => status[t] = "live" \/ (NodeFinished /\ t = cur)
<1>1. CASE UNCHANGED treeVars
  BY <1>1 DEF treeVars
<1>2. ASSUME NEW a, NEW also, PruneSubtree(a, also) PROVE P
  <2>1. child_pruned \subseteq child_pruned'
    BY <1>2 DEF PruneSubtree
  <2> QED
    BY <1>2, <2>1, SubtreeSpares
<1>3. CASE Prune
  BY <1>1, <1>2, <1>3, PruneSpares
<1>4. CASE Refine
  <2>1. Construct
    BY <1>4 DEF Refine, Constructing
  <2> QED
    BY <1>0, <2>1, ConstructStatus DEF ControlTypeOK
<1>5. CASE NodeFinished
  BY <1>0, <1>5 DEF NodeFinished, CreateLive, Emitted, ControlTypeOK
<1>6. ASSUME NEW t \in tree.nodes, BeforeDescend(t) PROVE P
  BY <1>1, <1>2, <1>6 DEF BeforeDescend
<1>7. ASSUME NEW t \in tree.nodes, NEW c \in Children(t), status[c] = "absent", CreateBegin(c) PROVE P
  <2>1. c \in tree.nodes
    BY <1>0, <1>7, ChildrenAreNodes
  <2> QED
    BY <1>0, <1>7, <2>1 DEF CreateBegin, ControlTypeOK
<1>8. ASSUME NEW t \in tree.nodes, ReportVisited(t, Held) PROVE P
  <2>1. \/ UNCHANGED <<tree, status, child_pruned>>
        \/ \E a, also : PruneSubtree(a, also)
    BY <1>8 DEF ReportVisited, AutomorphismLeaf
  <2> QED
    BY <1>2, <2>1
<1>9. CASE Tell
  BY <1>1, <1>9 DEF Tell, AutomorphismImplicit
<1> HIDE DEF P
<1>10. P
  BY <1>1, <1>3, <1>4, <1>5, <1>6, <1>7, <1>8, <1>9, NodeSteps DEF P
<1> QED
  BY <1>10 DEF P

(* What is up to date, is so with all its ancestors.                       *)
LEMMA NextAncestors ==
  ASSUME KInv, AncestorsCurrent, GenerationFits, [Next]_vars
  PROVE  AncestorsCurrent'
<1>0. TreeInv /\ RecordInv /\ ControlTypeOK /\ IsTree(tree) /\ max_level \in Nat
  <2>1. TreeInv /\ RecordInv /\ ControlTypeOK /\ IsTree(tree)
    BY KnownKept, KnownThere
  <2> QED
    BY <2>1 DEF ControlTypeOK, Levels
<1>1. Living'
  <2>1. KInv'
    BY NextKInv
  <2> QED
    BY <2>1, Zenon DEF KInv, GInv, NodesInv, ShapeInv
<1>2. CASE Refine
  BY <1>0, <1>1, <1>2, AncestorsInConstruction DEF Refine, Constructing
<1>3. CASE NodeFinished
  BY <1>0, <1>1, <1>3, AncestorsAtFinish DEF NodeFinished
<1>4. CASE ~NodeFinished /\ UNCHANGED <<generations, max_level>>
           /\ \A t \in tree.nodes : status'[t] = "live" => node_gen'[t] = node_gen[t]
  <2>1. /\ tree' = tree /\ max_level' \in Nat /\ max_level' <= max_level
        /\ \A t \in tree.nodes : status'[t] = "live" => status[t] = "live" /\ node_gen'[t] = node_gen[t]
    BY <1>0, <1>4, NextNodes
  <2> QED
    BY <1>0, <1>1, <1>4, <2>1, AncestorsKept
<1>5. CASE UNCHANGED treeVars
  BY <1>5 DEF treeVars, coordVars, dataVars, AncestorsCurrent, UpToDate, Outdated, Level, Root, Above
<1>6. CASE ~NodeFinished /\ ~Refine /\ ~UNCHANGED treeVars
  <2>1. ASSUME NEW a, NEW also, PruneSubtree(a, also) PROVE UNCHANGED <<generations, max_level, node_gen>>
    BY <2>1 DEF PruneSubtree, coordVars, dataVars
  <2>2. CASE Prune
    BY <1>4, <1>6, <2>1, <2>2, PruneSpares
  <2>3. ASSUME NEW t \in tree.nodes, BeforeDescend(t) PROVE AncestorsCurrent'
    <3>1. \E also : PruneSubtree(t, also)
      BY <1>6, <2>3 DEF BeforeDescend
    <3> QED
      BY <1>4, <1>6, <2>1, <3>1
  <2>4. ASSUME NEW t \in tree.nodes, NEW c \in Children(t), status[c] = "absent", CreateBegin(c)
        PROVE  AncestorsCurrent'
    <3>1. c \in tree.nodes
      BY <1>0, <2>4, ChildrenAreNodes
    <3>2. /\ UNCHANGED <<generations, max_level>> /\ status'[c] = "constructing"
          /\ node_gen' = [node_gen EXCEPT ![c] = BeginGeneration(c)]
      BY <1>0, <2>4, <3>1 DEF CreateBegin, coordVars, ControlTypeOK
    <3>3. \A s \in tree.nodes : status'[s] = "live" => node_gen'[s] = node_gen[s]
      BY <1>0, <3>1, <3>2 DEF ControlTypeOK
    <3> QED
      BY <1>4, <1>6, <3>2, <3>3
  <2>5. ASSUME NEW t \in tree.nodes, ReportVisited(t, Held) PROVE AncestorsCurrent'
    <3>1. \/ UNCHANGED <<generations, max_level, node_gen>>
          \/ \E a, also : PruneSubtree(a, also)
      BY <2>5 DEF ReportVisited, AutomorphismLeaf, coordVars, dataVars
    <3> QED
      BY <1>4, <1>6, <2>1, <3>1
  <2>6. ~Tell
    BY <1>6 DEF Tell, AutomorphismImplicit
  <2> QED
    BY <1>6, <2>2, <2>3, <2>4, <2>5, <2>6, NodeSteps
<1> QED
  BY <1>2, <1>3, <1>5, <1>6

(* A child that is neither flagged nor created is still to come.           *)
Waits(t, c) ==
  \/ pc = "visit" /\ t = path
  \/ \E e \in Work : e.node = t /\ Last(c) >= e.next_child
Done(t, c) == c \in child_pruned \/ status[c] # "absent" \/ Waits(t, c)
AllDone == \A t \in tree.nodes : status[t] = "live" => \A c \in Children(t) : Done(t, c)

(* First the traversal from the root, then what is left over.              *)
FromRoot ==
  /\ pc \in {"load", "visit", "dfs"}
  /\ pc = "load" => cur = Root
  /\ node = NoNode
  /\ Others \subseteq {Root}
LeftOver ==
  /\ pc \in {"load", "enter", "loop", "choose"}
  /\ cur = NoNode
  /\ \A h \in Others : h = Root \/ \E l \in KeptLeaves : Above(h, l)

LEMMA DoneKept ==
  ASSUME KInv, AllDone, [Next]_vars,
         \A t \in tree.nodes : NodeFinished /\ t = cur => \A c \in Children(t) : Waits(t, c)',
         \A t \in tree.nodes : status[t] = "live" => \A c \in Children(t) :
           Waits(t, c) => Waits(t, c)' \/ c \in child_pruned \/ status[c] # "absent" \/ status'[c] # "absent"
  PROVE  AllDone'
<1>1. /\ tree' = tree /\ child_pruned \subseteq child_pruned'
      /\ \A t \in tree.nodes : status'[t] = "absent" => status[t] = "absent"
      /\ \A t \in tree.nodes : status'[t] = "live" => status[t] = "live" \/ (NodeFinished /\ t = cur)
  BY NextNodes
<1>2. IsTree(tree)
  BY KnownKept
<1> SUFFICES ASSUME NEW t \in tree.nodes, status'[t] = "live", NEW c \in Children(t)
             PROVE  c \in child_pruned' \/ status'[c] # "absent" \/ Waits(t, c)'
  BY <1>1 DEF AllDone, Done, Children
<1>3. c \in tree.nodes
  BY <1>2, ChildrenAreNodes
<1>4. CASE NodeFinished /\ t = cur
  BY <1>4
<1>5. CASE status[t] = "live"
  <2>1. c \in child_pruned \/ status[c] # "absent" \/ Waits(t, c)
    BY <1>5 DEF AllDone, Done
  <2> QED
    BY <1>1, <1>3, <1>5, <2>1
<1> QED
  BY <1>1, <1>4, <1>5

(* What is on the stack stays there until the loop gets past it.           *)
LEMMA StepDone ==
  ASSUME KInv, AllDone, [Next]_vars, StepDFS
  PROVE  AllDone'
<1>0. /\ StackOK /\ IsTree(tree) /\ ControlTypeOK /\ Symmetric /\ BInv
      /\ \A e \in Work : e.node \in tree.nodes /\ e.next_child \in Nat
      /\ \A t \in tree.nodes : \A c \in Children(t) : Last(c) \in Nat /\ c[Len(c)] = Last(c) /\ c \in tree.nodes
  BY KnownKept, KnownWalk, KnownThere, KnownNodes, WorkElements, ChildrenAreNodes
<1>1. pc = "dfs"
  BY DEF StepDFS
<1>2. ASSUME \A t \in tree.nodes : NodeFinished /\ t = cur => \A c \in Children(t) : Waits(t, c)',
             \A e \in Work : e \in Work' \/ (at # NoNode /\ e = at),
             \A t \in tree.nodes : at # NoNode /\ t = at.node /\ status[t] = "live" =>
               \A c \in Children(t) : Last(c) >= at.next_child =>
                 Waits(t, c)' \/ c \in child_pruned \/ status[c] # "absent" \/ status'[c] # "absent"
      PROVE  AllDone'
  <2> SUFFICES ASSUME NEW t \in tree.nodes, status[t] = "live", NEW c \in Children(t), Waits(t, c)
               PROVE  Waits(t, c)' \/ c \in child_pruned \/ status[c] # "absent" \/ status'[c] # "absent"
    BY <1>2, DoneKept
  <2>1. PICK e \in Work : e.node = t /\ Last(c) >= e.next_child
    BY <1>1 DEF Waits
  <2>2. CASE e \in Work'
    BY <2>1, <2>2 DEF Waits
  <2>3. CASE at # NoNode /\ e = at
    <3>1. at # NoNode /\ t = at.node /\ Last(c) >= at.next_child
      BY <2>1, <2>3
    <3> QED
      BY <1>2, <3>1
  <2> QED
    BY <1>2, <2>2, <2>3
<1>3. CASE Push
  <2>1. PICK t : t = cur
    OBVIOUS
  <2>2. /\ NodeFinished /\ t \in tree.nodes /\ stack' = Append(stack, Elem(t, 0)) /\ at' = at /\ at = NoNode
    BY <1>0, <1>3, <2>1, KnownThere DEF Push, NodeFinished, CreateLive, Emitted, ControlTypeOK, InHand
  <2>3. PICK e \in Elems : e = Elem(t, 0)
    BY <2>2 DEF Elem, Elems
  <2>4. e.node = t /\ e.next_child = 0
    BY <2>3 DEF Elem
  <2>5. e \in Work' /\ Work \subseteq Work'
    BY <1>0, <2>2, <2>3, StackAppended DEF Work
  <2>6. \A c \in Children(t) : Last(c) >= 0
    BY <1>0, <2>2
  <2>7. \A c \in Children(t) : Waits(t, c)'
    BY <2>4, <2>5, <2>6 DEF Waits
  <2> QED
    BY <1>2, <2>1, <2>2, <2>5, <2>7
<1>4. CASE Pop
  <2>1. /\ stack # <<>> /\ at = NoNode /\ at' = stack[Len(stack)] /\ stack' = SubSeq(stack, 1, Len(stack) - 1)
        /\ cur = NoNode
    BY <1>4 DEF Pop
  <2>2. /\ Len(stack) \in Nat /\ Len(stack) >= 1 /\ Len(stack') = Len(stack) - 1
        /\ \A i \in 1 .. Len(stack') : stack'[i] = stack[i]
        /\ at' \in Work
    BY <1>0, <2>1, StackPopped
  <2>3. at' # NoNode
    BY <1>0, <2>2, WorkElements, NothingPoppedAssumption DEF Symmetric, Elems
  <2>4. ASSUME NEW e \in Work PROVE e \in Work'
    <3>1. PICK i \in 1 .. Len(stack) : e = stack[i]
      BY <2>1 DEF Work
    <3>2. CASE i = Len(stack)
      BY <2>1, <2>3, <3>1, <3>2 DEF Work
    <3>3. CASE i # Len(stack)
      <4>1. i \in 1 .. Len(stack')
        BY <2>2, <3>1, <3>3
      <4> QED
        BY <2>2, <3>1, <4>1 DEF Work
    <3> QED
      BY <3>2, <3>3
  <2>5. ~NodeFinished \/ cur \notin tree.nodes
    BY <2>1, KnownKept
  <2> QED
    BY <1>2, <2>1, <2>4, <2>5
<1>5. ASSUME at # NoNode
      PROVE  /\ cur = NoNode /\ cur \notin tree.nodes
             /\ (\A i \in 1 .. Len(stack) : stack[i] \in Work') => \A e \in Work : e \in Work' \/ (at # NoNode /\ e = at)
  BY <1>0, <1>5, KnownKept DEF InHand, Work
<1>6. CASE Skip \/ Leave(Held) \/ Report(Held)
  <2>1. at # NoNode /\ stack' = stack
    BY <1>6 DEF Skip, Leave, Report, Go, Ready
  <2>2. \A i \in 1 .. Len(stack) : stack[i] \in Work'
    BY <2>1 DEF Work
  <2>3. ASSUME NEW c \in Children(at.node), status[at.node] = "live", Last(c) >= at.next_child
        PROVE  c \in child_pruned \/ status[c] # "absent"
    <3>1. c[Len(c)] = Last(c)
      BY <1>0, <2>1, <2>3, WorkElements
    <3>2. CASE Skip
      BY <2>3, <3>2 DEF Skip
    <3>3. CASE Leave(Held)
      <4>1. c \notin Candidates(Held)
        BY <3>3 DEF Leave
      <4>2. Flagged(c, Held)
        BY <2>3, <3>1, <4>1 DEF Candidates
      <4> QED
        BY <4>2 DEF Flagged
    <3>4. CASE Report(Held)
      BY <2>3, <3>4 DEF Report, IsLeaf
    <3> QED
      BY <1>6, <3>2, <3>3, <3>4
  <2> QED
    BY <1>2, <1>5, <2>1, <2>2, <2>3
<1>7. CASE Descend(Held)
  <2>0. PICK t : t = at.node
    OBVIOUS
  <2>1. at # NoNode /\ at' = NoNode
    BY <1>7 DEF Descend, Go, Ready
  <2>2. PICK c \in Candidates(Held) : /\ stack' = Append(stack, Resume(c)) /\ CreateBegin(c)
                                      /\ \A d \in Candidates(Held) : c[Len(c)] <= d[Len(d)]
    BY <1>7 DEF Descend
  <2>3. /\ t \in tree.nodes /\ c \in Children(t) /\ c \in tree.nodes /\ c[Len(c)] = Last(c) /\ Last(c) \in Nat
    BY <1>0, <2>0, <2>1, <2>2, WorkElements DEF Candidates
  <2>4. PICK e \in Elems : e = Resume(c) /\ e.node = t /\ e.next_child = Last(c) + 1
    <3>1. PICK k \in Nat : k = Last(c) + 1
      BY <2>3
    <3>2. Resume(c) = Elem(t, k)
      BY <2>0, <2>3, <3>1 DEF Resume
    <3>3. Elem(t, k) \in Elems /\ Elem(t, k).node = t /\ Elem(t, k).next_child = k
      BY <2>3 DEF Elem, Elems
    <3> QED
      BY <3>1, <3>2, <3>3
  <2>5. e \in Work' /\ \A i \in 1 .. Len(stack) : stack[i] \in Work'
    BY <1>0, <2>2, <2>4, StackAppended DEF Work
  <2>6. ASSUME NEW d \in Children(t), Last(d) >= at.next_child
        PROVE  Waits(t, d)' \/ d \in child_pruned \/ status[d] # "absent" \/ status'[d] # "absent"
    <3>0. Last(d) \in Nat /\ d[Len(d)] = Last(d)
      BY <1>0, <2>3, <2>6
    <3>1. CASE d \notin Candidates(Held)
      <4>1. Flagged(d, Held)
        BY <2>0, <2>6, <3>0, <3>1 DEF Candidates
      <4> QED
        BY <4>1 DEF Flagged
    <3>2. CASE d = c
      BY <1>0, <2>2, <2>3, <3>2 DEF CreateBegin, ControlTypeOK
    <3>3. CASE d \in Candidates(Held) /\ d # c
      <4>1. Last(c) <= Last(d) /\ Last(c) # Last(d)
        BY <1>0, <2>2, <2>3, <3>0, <3>3, SameLast
      <4>2. Last(d) >= e.next_child
        BY <2>3, <2>4, <3>0, <4>1
      <4> QED
        BY <2>4, <2>5, <4>2 DEF Waits
    <3> QED
      BY <3>1, <3>2, <3>3
  <2> QED
    BY <1>2, <1>5, <2>0, <2>1, <2>5, <2>6
<1> QED
  BY <1>3, <1>4, <1>6, <1>7 DEF StepDFS

LEMMA RootStep ==
  ASSUME KInv, FromRoot, use_dfs, [Next]_vars
  PROVE  FromRoot' \/ LeftOver'
<1>0. /\ InHand /\ Current /\ ChildFacts /\ TreeInv /\ Root' = Root /\ Root \in tree.nodes /\ NoNode \notin tree.nodes
      /\ (pc = "load" => cur = Root /\ cur # NoNode)
  BY KnownKept, KnownThere DEF Root, FromRoot
<1>1. ASSUME ~(Created /\ path # NoNode) PROVE Others' \subseteq {Root}
  <2>1. OthersMove /\ node = NoNode /\ Others \subseteq {Root}
    BY NextOthers DEF FromRoot
  <2> QED
    BY <1>1, <2>1 DEF OthersMove
<1>2. CASE Refine \/ Tell \/ Prune \/ UNCHANGED vars
  <2>1. UNCHANGED loopVars
    BY <1>2 DEF Refine, Tell, Prune, vars, bfsVars
  <2>2. ~Created \/ path = NoNode
    <3>1. CASE pc = "visit"
      BY <1>0, <3>1 DEF Created, NodeFinished, CreateLive, Emitted, InHand
    <3> QED
      BY <1>0, <3>1 DEF FromRoot, Created, InHand
  <2>3. pc = "load" => cur' = cur
    <3>1. CASE Refine
      BY <1>0, <3>1, ConstructStatus DEF Refine, Constructing
    <3>2. CASE Tell \/ UNCHANGED vars
      BY <3>2 DEF Tell, AutomorphismImplicit, vars, nodeVars, treeVars
    <3>3. CASE Prune
      BY <3>3, PruneSpares DEF PruneSubtree, treeVars
    <3> QED
      BY <1>2, <3>1, <3>2, <3>3
  <2> QED
    BY <1>0, <1>1, <2>1, <2>2, <2>3 DEF FromRoot, loopVars
<1>3. CASE Created
  <2>1. path = NoNode
    BY <1>0, <1>3 DEF FromRoot, Created, NodeFinished, CreateLive, Emitted, InHand
  <2>2. pc' = "visit" /\ node' = node
    BY <1>3 DEF Created
  <2> QED
    BY <1>0, <1>1, <2>1, <2>2 DEF FromRoot
<1>4. CASE StartDFS \/ StepDFS
  <2>1. pc' = "dfs" /\ node' = node
    BY <1>4 DEF StartDFS, StepDFS, loopVars
  <2>2. ~Created \/ path = NoNode
    BY <1>0, <1>4 DEF StartDFS, StepDFS, Created, Free, NodeFinished, CreateLive, Emitted
  <2> QED
    BY <1>0, <1>1, <2>1, <2>2 DEF FromRoot
<1>5. CASE EndDFS
  <2>1. /\ pc = "dfs" /\ cur = NoNode /\ UNCHANGED nodeVars /\ EndPath /\ node = NoNode
    BY <1>5 DEF EndDFS, Traversed, FromRoot
  <2>2. pc' = "load" /\ cur' = NoNode
    BY <2>1 DEF EndPath, nodeVars, treeVars
  <2>3. Others' \subseteq {Root}
    BY <1>1, <2>1 DEF Created
  <2> QED
    BY <1>0, <2>2, <2>3 DEF LeftOver
<1>6. ~(Visit \/ Extend \/ ReportPath \/ GiveUp \/ Load \/ NextLevel \/ Enter \/ Iterate \/ Choose \/ Stop)
  BY <1>0 DEF FromRoot, Visit, Extend, ReportPath, GiveUp, Load, NextLevel, Enter, Iterate, Choose, Stop, Finished,
     Free
<1> QED
  BY <1>2, <1>3, <1>4, <1>5, <1>6 DEF Next

LEMMA LeftFacts ==
  ASSUME KInv, LeftOver
  PROVE  /\ cur = NoNode /\ path = NoNode /\ child = NoNode /\ Work = {} /\ Working = {}
         /\ \A t, c : ~Waits(t, c)
<1>1. cur = NoNode /\ path = NoNode /\ child = NoNode
  BY KnownKept DEF LeftOver, InHand, ChildFacts
<1>2. Work = {} /\ pc # "visit"
  BY KnownKept, KnownWalk DEF LeftOver
<1>3. Working = {}
  BY <1>2, WorkingIs
<1> QED
  BY <1>1, <1>2, <1>3 DEF Waits

LEMMA LeftLeaves ==
  ASSUME KInv, LeftOver, AncestorsCurrent, CandidateIsRecorded, NEW t \in tree.nodes, BeforeDescend(t)
  PROVE  KeptLeaves' = KeptLeaves
<1>1. canon_leaf' = canon_leaf
  BY KnownKept, KnownThere, CandidateNotBelow
<1>2. UNCHANGED <<canon_graph, extra_graph>>
  BY LeavesVisited
<1> QED
  BY <1>1, <1>2 DEF KeptLeaves

(* A child that is neither flagged nor still to come exists: a kept leaf is*)
(* below it.                                                               *)
LEMMA LeftChild ==
  ASSUME KInv, LeftOver, AllDone, NEW t \in tree.nodes, status[t] = "live", NEW c \in Children(t), ~Flagged(c, Held)
  PROVE  status[c] # "absent" /\ \E l \in KeptLeaves : Above(c, l)
<1>0. /\ IsTree(tree) /\ TreeInv /\ c \in tree.nodes \ {Root} /\ cur = NoNode
      /\ Holders(Held) \ {NoNode} \subseteq tree.nodes /\ Root \in tree.nodes
      /\ path = NoNode /\ child = NoNode /\ Working = {}
  BY KnownKept, KnownThere, ChildrenAreNodes, LeftFacts, HeldAreNodes
<1>1. status[c] # "absent"
  BY LeftFacts DEF AllDone, Done, Flagged
<1>2. status[c] \in {"live", "pruned"}
  BY <1>0, <1>1, FinishedNode
<1>3. PICK h \in Holders(Held) \ {NoNode} : Above(c, h)
  BY <1>2 DEF Flagged, Exists, ExistsAmong
<1>4. h \in Others \/ h \in KeptLeaves
  BY <1>0, <1>3 DEF Holders, Held, Others, InLists, KeptLeaves
<1>5. h # Root
  <2>1. Len(c) >= 1 /\ Len(Root) = 0
    BY <1>0, ParentFacts, RootLevel DEF Level
  <2> QED
    BY <1>3, <2>1 DEF Above
<1>6. CASE h \in Others
  <2>1. PICK l \in KeptLeaves : Above(h, l)
    BY <1>5, <1>6 DEF LeftOver
  <2>2. l \in tree.nodes
    BY <1>0, <2>1 DEF KeptLeaves, Holders
  <2> QED
    BY <1>0, <1>1, <1>3, <2>1, <2>2, AboveOn
<1> QED
  BY <1>1, <1>3, <1>4, <1>6

LEMMA LeftStep ==
  ASSUME KInv, LeftOver, AllDone, AncestorsCurrent, CandidateIsRecorded, [Next]_vars
  PROVE  LeftOver'
<1>0. /\ cur = NoNode /\ path = NoNode /\ child = NoNode /\ Root' = Root /\ pc \in {"load", "enter", "loop", "choose"}
      /\ InHand /\ Current /\ TreeInv /\ NoNode \notin tree.nodes
  BY LeftFacts, KnownKept, KnownThere DEF Root, LeftOver
<1>1. ASSUME Others' \subseteq Others, KeptLeaves' = KeptLeaves, cur' = NoNode,
             pc' \in {"load", "enter", "loop", "choose"}
      PROVE  LeftOver'
  BY <1>0, <1>1 DEF LeftOver, Above
<1>2. CASE Prune \/ Stop \/ UNCHANGED vars
  <2>1. /\ UNCHANGED loopVars /\ kept' \subseteq kept
    <3>1. UNCHANGED loopVars /\ (KeepAlive(kept) \/ kept' = kept)
      BY <1>2 DEF Prune, Stop, vars, bfsVars
    <3>2. KeepAlive(kept) => kept' \subseteq kept
      BY KeepsAlive
    <3> QED
      BY <3>1, <3>2
  <2>2. cur' = cur /\ UNCHANGED leafVars
    BY <1>2, PruneSpares DEF PruneSubtree, Stop, vars, nodeVars, treeVars
  <2> QED
    BY <1>0, <1>1, <2>1, <2>2 DEF Others, InLists, KeptLeaves, loopVars, leafVars
<1>3. CASE Load \/ NextLevel \/ Enter \/ Iterate
  <2>1. Others' \subseteq Others
    BY <1>0, <1>3, ListsShrink DEF Others
  <2>2. /\ UNCHANGED nodeVars \/ \E t \in tree.nodes : BeforeDescend(t)
        /\ pc' \in {"load", "enter", "loop", "choose"}
    <3>1. Load => Head(level_list) \in tree.nodes
      BY KnownKept, AtLevel, RangeOfTail DEF Load
    <3>2. Iterate => node \in tree.nodes
      BY KnownKept, AtLevel, <1>0 DEF Iterate, InHand
    <3> QED
      BY <1>0, <1>3, <3>1, <3>2 DEF Load, NextLevel, Enter, Iterate, LeaveNode
  <2>3. KeptLeaves' = KeptLeaves /\ cur' = cur
    <3>1. CASE UNCHANGED nodeVars
      BY <3>1 DEF nodeVars, treeVars, leafVars, KeptLeaves
    <3>2. ASSUME NEW t \in tree.nodes, BeforeDescend(t) PROVE KeptLeaves' = KeptLeaves /\ cur' = cur
      BY <3>2, LeftLeaves, LeavesVisited
    <3> QED
      BY <2>2, <3>1, <3>2
  <2> QED
    BY <1>0, <1>1, <2>1, <2>2, <2>3
<1>4. CASE Choose
  <2>0. PICK t : t = node
    OBVIOUS
  <2>1. PICK c : c = First(ToDo)
    OBVIOUS
  <2>2. /\ pc = "choose" /\ t \in tree.nodes /\ ToDo # {} /\ ToDo \in SUBSET Children(t) /\ status[t] # "absent"
    <3>1. pc = "choose"
      BY <1>4 DEF Choose
    <3>2. t \in tree.nodes /\ t \in Pointed
      BY <1>0, <2>0, <3>1, KnownKept, AtLevel DEF Pointed
    <3> QED
      BY <1>0, <2>0, <3>1, <3>2, KnownKept, AtLevel DEF Current, ToDo
  <2>3. c \in Children(t)
    BY <2>1, <2>2, KnownKept, FirstIsOne
  <2>4. c \in tree.nodes
    BY <2>2, <2>3, KnownKept, ChildrenAreNodes
  <2>5. /\ UNCHANGED nodeVars /\ UNCHANGED <<head, level_list, old_head, kept>> /\ node' \in {node, NoNode}
        /\ pc' \in {"load", "loop"}
        /\ \/ next_list' = next_list
           \/ next_list' = PutIntoList(next_list, c) /\ \E l \in KeptLeaves : Above(c, l)
    <3>1. CASE status[t] = "pruned"
      BY <1>4, <2>0, <3>1 DEF Choose, LeaveNode
    <3>2. CASE status[t] # "pruned"
      <4>1. status[t] = "live"
        BY <1>0, <2>2, <3>2, FinishedNode
      <4>2. ~Flagged(c, Held) => status[c] # "absent" /\ \E l \in KeptLeaves : Above(c, l)
        BY <2>2, <2>3, <4>1, LeftChild
      <4> QED
        BY <1>4, <2>0, <2>1, <3>2, <4>2 DEF Choose
    <3> QED
      BY <3>1, <3>2
  <2>6. cur' = NoNode /\ KeptLeaves' = KeptLeaves
    BY <1>0, <2>5 DEF nodeVars, treeVars, leafVars, KeptLeaves
  <2>7. CASE next_list' = next_list
    BY <1>0, <1>1, <2>5, <2>6, <2>7 DEF Others, InLists
  <2>8. CASE next_list' = PutIntoList(next_list, c) /\ \E l \in KeptLeaves : Above(c, l)
    <3>1. Range(next_list') \subseteq Range(next_list) \cup {c}
      BY <2>4, <2>8, KnownKept, PutFacts
    <3>2. Others' \subseteq Others \cup {c}
      BY <1>0, <2>5, <3>1 DEF Others, InLists
    <3> QED
      BY <2>5, <2>6, <2>8, <3>2, <1>0 DEF LeftOver
  <2> QED
    BY <2>5, <2>7, <2>8
<1>5. ~(Refine \/ Tell \/ Created \/ Visit \/ Extend \/ ReportPath \/ GiveUp \/ StartDFS \/ StepDFS \/ EndDFS)
  BY <1>0 DEF Refine, Constructing, Tell, AutomorphismImplicit, MustTell, Created, NodeFinished, CreateLive, Emitted,
     Visit, Extend, ReportPath, GiveUp, StartDFS, StepDFS, EndDFS, Construct, EmitExtending, EmitBetterByVisitor,
     EmitBetterByValue, EmitSame, EmitWorseVisitor, EmitWorseValue, CreateShort, SameVisitor, Emitting
<1> QED
  BY <1>2, <1>3, <1>4, <1>5 DEF Next

(* What is left of the tree with a limit of 1.                             *)
OneNode ==
  max_nodes = 1 => AllDone /\ (FromRoot \/ LeftOver)
EInv == MInv /\ DInv /\ AncestorsCurrent /\ OneNode

LEMMA InitEInv == Init /\ pruner = "basic" => EInv
<1> SUFFICES ASSUME Init, pruner = "basic" PROVE EInv
  OBVIOUS
<1>1. MInv /\ DInv /\ KInv
  BY InitMInv, InitDInv, InitKInv
<1>2. /\ pc = "load" /\ cur = Root /\ node = NoNode /\ head = Root /\ level_list = <<Root>> /\ next_list = <<>>
      /\ old_head = NoNode /\ kept = {}
      /\ status = [t \in tree.nodes |-> IF t = Root THEN "constructing" ELSE "absent"]
  BY DEF Init, TreeInit
<1>3. \A t \in tree.nodes : status[t] # "live"
  BY <1>2
<1>4. AncestorsCurrent /\ AllDone
  BY <1>3 DEF AncestorsCurrent, AllDone, UpToDate
<1>5. Range(level_list) = {Root} /\ Range(next_list) = {}
  BY <1>2 DEF Range
<1>6. FromRoot
  BY <1>2, <1>5 DEF FromRoot, Others, InLists
<1> QED
  BY <1>1, <1>4, <1>6 DEF EInv, OneNode

LEMMA FinishedBy ==
  ASSUME KInv, [Next]_vars, NodeFinished
  PROVE  Created \/ StepDFS
<1>0. /\ cur # NoNode /\ cur \in tree.nodes /\ cur' = NoNode /\ Idle /\ at = NoNode
      /\ status' = [status EXCEPT ![cur] = "live"] /\ ControlTypeOK /\ TreeInv
  <2>1. cur # NoNode /\ cur' = NoNode /\ status' = [status EXCEPT ![cur] = "live"]
    BY DEF NodeFinished, CreateLive, Emitted
  <2>2. InHand /\ ControlTypeOK /\ TreeInv
    BY KnownKept, KnownThere
  <2>3. cur \in tree.nodes
    BY <2>1, <2>2 DEF ControlTypeOK
  <2> QED
    BY <2>1, <2>2, <2>3 DEF InHand
<1>1. ~Refine
  <2> SUFFICES ASSUME Construct PROVE FALSE
    BY DEF Refine, Constructing
  <2>1. status'[cur] = "live"
    BY <1>0 DEF ControlTypeOK
  <2>2. status' = [status EXCEPT ![cur] = "pruned"]
    BY <1>0, ConstructStatus
  <2> QED
    BY <1>0, <2>1, <2>2 DEF ControlTypeOK
<1>2. ~(Tell \/ Stop \/ UNCHANGED vars)
  BY <1>0 DEF Tell, AutomorphismImplicit, Stop, Finished, Free, vars, nodeVars, treeVars
<1>3. ~(Prune \/ Visit \/ Extend \/ ReportPath \/ GiveUp \/ StartDFS \/ EndDFS \/ Load \/ NextLevel \/ Enter
        \/ Iterate \/ Choose)
  BY <1>0 DEF Prune, Update, Merge, Visit, Extend, ReportPath, GiveUp, StartDFS, EndDFS, Traversed, Load, NextLevel,
     Enter, Iterate, Choose, Free
<1> QED
  BY <1>1, <1>2, <1>3 DEF Next

LEMMA NextOneNode ==
  ASSUME EInv, [Next]_vars
  PROVE  OneNode'
<1>0. /\ KInv /\ NodesCounted /\ AncestorsCurrent /\ CandidateIsRecorded /\ max_nodes' = max_nodes /\ BInv
  <2>1. KInv /\ NodesCounted /\ AncestorsCurrent /\ DInv
    BY DEF EInv, MInv
  <2>2. BInv
    BY <2>1, KnownKept
  <2>3. CandidateIsRecorded
    BY <2>1, CandidateNotPruned
  <2>4. max_nodes' = max_nodes
    BY <2>2, NextGrows DEF CountNodes
  <2> QED
    BY <2>1, <2>2, <2>3, <2>4
<1> SUFFICES ASSUME max_nodes = 1 PROVE AllDone' /\ (FromRoot' \/ LeftOver')
  BY <1>0 DEF OneNode
<1>1. AllDone /\ (FromRoot \/ LeftOver)
  BY DEF EInv, OneNode
<1>2. use_dfs
  <2>1. PICK A : A = Existing
    OBVIOUS
  <2>2. IsFiniteSet(A) /\ Root \in A /\ (use_dfs <=> Cardinality(A) >= max_nodes)
    BY <1>0, <2>1, ExistingNodes DEF NodesCounted
  <2>3. Cardinality(A) >= 1
    <3>1. {Root} \in SUBSET A
      BY <2>2
    <3>2. Cardinality({Root}) <= Cardinality(A) /\ Cardinality(A) \in Nat /\ Cardinality({Root}) = 1
      BY <2>2, <3>1, FS_Subset, FS_CardinalityType, FS_Singleton
    <3> QED
      BY <3>2
  <2> QED
    BY <2>2, <2>3
<1>3. FromRoot' \/ LeftOver'
  BY <1>0, <1>1, <1>2, RootStep, LeftStep
<1>4. CASE LeftOver
  <2>1. \A t, c : ~Waits(t, c)
    BY <1>0, <1>4, LeftFacts
  <2>2. ~NodeFinished \/ cur \notin tree.nodes
    BY <1>0, <1>4, KnownKept DEF LeftOver
  <2>3. AllDone'
    BY <1>0, <1>1, <2>1, <2>2, DoneKept
  <2> QED
    BY <1>3, <2>3
<1>5. CASE FromRoot
  <2>1. CASE StepDFS
    BY <1>0, <1>1, <2>1, <1>3, StepDone
  <2>2. CASE ~StepDFS
    <3>1. /\ IsTree(tree) /\ InHand /\ Current /\ ChildFacts /\ (pc # "dfs" => Work = {}) /\ NoNode \notin tree.nodes
          /\ \A t \in tree.nodes : \A c \in Children(t) : Last(c) \in Nat
      BY <1>0, KnownKept, KnownWalk, KnownThere, ChildrenAreNodes
    <3>2. ASSUME NEW t \in tree.nodes, NodeFinished, t = cur, NEW c \in Children(t) PROVE Waits(t, c)'
      <4>1. Created
        BY <1>0, <2>2, <3>2, FinishedBy
      <4>2. pc' = "visit" /\ path' = cur
        BY <4>1 DEF Created
      <4> QED
        BY <3>2, <4>2 DEF Waits
    <3>3. ASSUME NEW t \in tree.nodes, NEW c \in Children(t), Waits(t, c) PROVE Waits(t, c)'
      <4>1. CASE UNCHANGED <<pc, path, stack, at>>
        BY <3>3, <4>1 DEF Waits, Work
      <4>2. CASE Created
        <5>1. pc # "dfs" /\ cur # NoNode
          BY <4>2 DEF Created, NodeFinished, CreateLive, Emitted
        <5> QED
          BY <3>1, <3>3, <5>1 DEF Waits, InHand
      <4>3. CASE StartDFS
        <5>1. pc = "visit" /\ stack' = <<Elem(path, 0)>>
          BY <4>3 DEF StartDFS
        <5>2. t = path
          BY <3>1, <3>3, <5>1 DEF Waits
        <5>3. stack' = <<Elem(t, 0)>>
          BY <5>1, <5>2
        <5>4. Elem(t, 0) \in Work' /\ Elem(t, 0).node = t /\ Elem(t, 0).next_child = 0
          BY <5>3 DEF Work, Elem
        <5>5. Last(c) >= 0
          BY <3>1
        <5> QED
          BY <5>4, <5>5 DEF Waits
      <4>4. CASE EndDFS
        <5>1. pc = "dfs" /\ Work = {}
          BY <4>4 DEF EndDFS, Traversed, Work
        <5> QED
          BY <3>3, <5>1 DEF Waits
      <4>5. CASE Refine \/ Tell \/ Prune \/ UNCHANGED vars
        BY <4>1, <4>5 DEF Refine, Tell, Prune, vars, bfsVars, loopVars, workVars
      <4>6. ~(Visit \/ Extend \/ ReportPath \/ GiveUp \/ Load \/ NextLevel \/ Enter \/ Iterate \/ Choose \/ Stop)
        <5>1. pc = "load" => cur # NoNode
          BY <1>0, <1>5, KnownKept DEF FromRoot
        <5> QED
          BY <1>2, <1>5, <5>1 DEF FromRoot, Visit, Extend, ReportPath, GiveUp, Load, NextLevel, Enter, Iterate, Choose,
             Stop, Finished, Free
      <4> QED
        BY <2>2, <4>2, <4>3, <4>4, <4>5, <4>6 DEF Next
    <3>4. AllDone'
      BY <1>0, <1>1, <3>2, <3>3, DoneKept
    <3> QED
      BY <1>3, <3>4
  <2> QED
    BY <2>1, <2>2
<1> QED
  BY <1>1, <1>4, <1>5

LEMMA NextEInv == EInv /\ GenerationFits /\ [Next]_vars => EInv'
<1> SUFFICES ASSUME EInv, GenerationFits, [Next]_vars PROVE EInv'
  OBVIOUS
<1>1. MInv /\ KInv /\ CanonPath /\ CandLive /\ AncestorsCurrent
  BY DEF EInv, MInv, DInv
<1>2. MInv' /\ KInv'
  BY <1>1, NextMInv, NextKInv
<1>3. CanonPath' /\ CandLive'
  BY <1>1, NextCand
<1>4. AncestorsCurrent'
  BY <1>1, NextAncestors
<1>5. OneNode'
  BY NextOneNode
<1> QED
  BY <1>2, <1>3, <1>4, <1>5 DEF EInv, DInv

LEMMA AlwaysEInv == Spec /\ []GenerationFits /\ pruner = "basic" => []EInv
BY InitEInv, NextEInv, PTL DEF Spec

(* With a limit of 1 nothing but the root is off the ways.                 *)
LEMMA OnlyRootOff ==
  ASSUME KInv, FromRoot \/ LeftOver
  PROVE  Existing \ UNION {PathOf(t) : t \in Ways} \subseteq {Root}
<1> SUFFICES ASSUME NEW t \in Existing, \A w \in Ways : t \notin PathOf(w) PROVE t = Root
  OBVIOUS
<1>1. /\ t \in tree.nodes /\ IsTree(tree) /\ Root \in tree.nodes
      /\ \A w \in Ways : w \in tree.nodes => ~Above(t, w)
      /\ {canon_leaf, canon_graph, extra_graph} \subseteq tree.nodes \cup {NoNode}
  BY OffWays, KnownKept, KnownThere DEF ControlTypeOK
<1>2. PICK h \in Others : h \in tree.nodes /\ Above(t, h)
  BY OffWays
<1>3. CASE h = Root
  <2>1. Len(t) = 0
    BY <1>1, <1>2, <1>3, RootLevel, PathLength DEF Above, Level
  <2> QED
    BY <1>1, <1>2, <1>3, <2>1, RootLevel, AboveOn DEF Level
<1>4. ASSUME NEW l \in KeptLeaves, Above(h, l) PROVE FALSE
  <2>1. l \in tree.nodes /\ l \in Ways
    BY <1>1, <1>4 DEF KeptLeaves, Ways
  <2>2. Above(t, l)
    BY <1>1, <1>2, <1>4, <2>1, AboveOn
  <2> QED
    BY <1>1, <2>1, <2>2
<1> QED
  BY <1>2, <1>3, <1>4 DEF FromRoot, LeftOver

(* The traversal goes depth first if and only if as many nodes exist as fit*)
(* in the memory, and at no time do more exist, but for those on the way to*)
(* the node in hand and to the leaves that are kept for comparisons.  With *)
(* a limit of 1 the whole tree is traversed depth first, and the traversal *)
(* by level that follows creates no node.                                  *)
THEOREM MemoryAlwaysLimited ==
  Spec /\ [](generation < SizeTypeSize) /\ pruner = "basic" => []MemoryIsLimited
<1>1. EInv => MemoryIsLimited
  <2> SUFFICES ASSUME EInv PROVE MemoryIsLimited
    OBVIOUS
  <2>1. KInv /\ NodesCounted /\ FewSettled /\ (max_nodes > 1 => Apart) /\ OneNode /\ max_nodes \in Nat \ {0}
    BY DEF EInv, MInv, NodesCounted
  <2>2. CASE max_nodes > 1
    BY <2>1, <2>2, OffTheWays, FewOffTheWays
  <2>3. CASE max_nodes = 1
    <3>1. PICK B : B = Existing \ UNION {PathOf(t) : t \in Ways}
      OBVIOUS
    <3>2. B \in SUBSET {Root}
      BY <2>1, <2>3, <3>1, OnlyRootOff DEF OneNode
    <3>3. Cardinality(B) <= 1
      <4>1. IsFiniteSet({Root}) /\ Cardinality({Root}) = 1
        BY FS_Singleton
      <4> QED
        BY <3>2, <4>1, FS_Subset
    <3>4. Cardinality(Existing \ UNION {PathOf(t) : t \in Ways}) <= max_nodes
      BY <2>3, <3>1, <3>3
    <3> QED
      BY <2>1, <3>4 DEF MemoryIsLimited, NodesCounted, Ways
  <2> QED
    BY <2>1, <2>2, <2>3
<1> QED
  BY <1>1, AlwaysEInv, PTL DEF GenerationFits
=============================================================================
