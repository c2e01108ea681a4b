----------------------------- MODULE AutPruner -----------------------------
(***************************************************************************)
(* aut_pruner_base: pruning by automorphisms, with one of two ways to find *)
(* those that fix a node.                                                  *)
(*                                                                         *)
(* Two leaves with the same invariants and the same permuted graph give an *)
(* automorphism, a permutation of the vertices; others are told by the     *)
(* partition of a node.  It is added to the generators, and when the       *)
(* traversal comes back to a node those that fix                           *)
(* the vertices individualised on the path to the node are used to merge   *)
(* its children into sets of equivalent ones, of which one is explored.    *)
(*                                                                         *)
(* tree_before_descend is a loop over the ancestors of a node, and for     *)
(* each over the images of its children: Start begins it, each Update and  *)
(* Merge is an iteration, and a traversal waits until it is Idle.          *)
(***************************************************************************)
EXTENDS SchreierPruner

VARIABLES
  child_count,      \* of a node, but all that matters is if it is 0
  forest,           \* child |-> the root of its set in its parent
  t_path, c_path,   \* ancestors to update, the highest is the last
  moves,            \* of the last of t_path: number of a generator, child and
                    \* image, yet to merge
  told              \* the node under construction has told its automorphism

prunerVars == <<gens, nodeGens, child_count, forest, t_path, c_path, moves, told>>

(* The automorphisms of a tree preserve everything seen of it, and leaves  *)
(* that look the same are related by one.                                  *)
HasSymmetry(T) ==
  /\ \A p \in T.auts, t \in T.nodes :
       Image(p, t) \in T.nodes /\ T.elems[Image(p, t)] = T.elems[t]
  /\ \A s, t \in LeavesOf(T) :
       Len(s) = Len(t) /\ SamePath(T, s, t, Len(s)) =>
         (T.cert[s] = T.cert[t] <=> \E p \in T.auts : Image(p, s) = t)

(* A node whose cells have one or two elements has two children, which an  *)
(* automorphism of the node exchanges; the same holds for them.            *)
HasPairs(T) ==
  \A t \in T.fits : \A c, d \in T.children[t] :
    /\ T.children[c] # {} => c \in T.fits
    /\ \E p \in T.auts : Image(p, t) = t /\ Image(p, c) = d
    /\ \E e \in T.children[t] \ {c} : T.children[t] = {c, e}

(* The automorphisms are permutations of vertices, and a group.            *)
IsGroup(G) ==
  \E V \in {DOMAIN p : p \in G} :
    /\ G \subseteq [V -> V]
    /\ \E e \in G : \A v \in V : e[v] = v
    /\ \A p, q \in G : \E r \in G : \A v \in V : r[v] = p[q[v]]
    /\ \A p \in G : \E q \in G : \A v \in V : q[p[v]] = v
HasGroup(T) ==
  IsGroup(T.auts) /\ \A p \in T.auts, t \in T.nodes : \A i \in 1 .. Len(t) : t[i] \in DOMAIN p

ASSUME SymmetryAssumption == \A T \in Trees : HasGroup(T) /\ HasSymmetry(T) /\ HasPairs(T)

PrunerInit ==
  /\ BasicInit
  /\ SchreierInit
  /\ child_count = [t \in tree.nodes |-> 0]
  /\ forest = [t \in tree.nodes |-> t]
  /\ t_path = <<>>
  /\ c_path = <<>>
  /\ moves = {}
  /\ told = FALSE

Idle == t_path = <<>>

(* tree_create_node_begin, for the parent of the new node                  *)
CountChild(t) ==
  /\ child_count' = [child_count EXCEPT ![Parent(t)] = 1]
  /\ told' = FALSE
  /\ UNCHANGED <<gens, nodeGens, forest, t_path, c_path, moves, chainVars>>

(* A node is held by a smart pointer of the traversal ("held"), as the     *)
(* candidate, or by a permuted graph.  Its destructor flags it in its      *)
(* parent.                                                                 *)
Holders(held) == held \cup {canon_leaf, canon_graph, extra_graph}
Exists(t, held) == ExistsAmong(t, Holders(held))
Flagged(t, held) ==
  t \in child_pruned \/ (status[t] \in {"live", "pruned"} /\ ~Exists(t, held))

-----------------------------------------------------------------------------
(* The construction of a node                                              *)

(* add_automorphism, after which nodes may be pruned                       *)
AddAutomorphism(p, holders) ==
  /\ \/ pruner = "basic" /\ BasicAdd(p) /\ UNCHANGED chainVars
     \/ pruner = "schreier" /\ SchreierAdd(p, holders)
  /\ UNCHANGED <<child_count, forest, t_path, c_path, moves>>

(* aut_implicit_size_2 comes first in tree_create_node_end: in a child of  *)
(* a node whose cells have one or two elements it has put together the     *)
(* automorphism that exchanges the children.                               *)
Fits(t) == implicit /\ t \in tree.fits
MustTell == Emitted /\ cur # Root /\ Fits(Parent(cur)) /\ ~told
ExchangesSiblings(p, t) == Image(p, Parent(t)) = Parent(t) /\ Image(p, t) # t
AutomorphismImplicit(held) ==
  /\ MustTell
  /\ UNCHANGED treeVars
  /\ \E p \in tree.auts :
       /\ ExchangesSiblings(p, cur)
       /\ AddAutomorphism(p, Holders(held))
  /\ told' = TRUE

(* The events but for the end: the candidate may be given up, the node be  *)
(* pruned.                                                                 *)
Discarded(t) == IF cur' = NoNode THEN PointAt(Parent(t), NoNode) ELSE UNCHANGED chain_child
Constructing ==
  /\ ~MustTell
  /\ Construct
  /\ Discarded(cur)
  /\ CanonPrune
  /\ UNCHANGED <<prunerVars, setup, trans, num_base_chain, num_reported>>

(* It prunes all but one of the children.                                  *)
OneOfPair(t) ==
  IF Fits(t)
  THEN {c \in Children(t) : \E d \in Children(t) : Last(d) < Last(c)} ELSE {}
NodeFinished ==
  /\ ~MustTell
  /\ CreateLive
  /\ child_pruned' = child_pruned \cup OneOfPair(cur)
  /\ IF cur = Root THEN UNCHANGED chain_child ELSE PointAt(Parent(cur), cur)
  /\ UNCHANGED <<prunerVars, setup, trans, num_base_chain, num_reported, main_chain>>

-----------------------------------------------------------------------------
(* automorphism_leaf                                                       *)

(* explicit_automorphism: from the candidate to the leaf t                 *)
ExplicitAutomorphism(t) == CHOOSE p \in tree.auts : Image(p, canon_leaf) = t

(* the child, on the way to t, of the lowest common ancestor of t and the  *)
(* candidate                                                               *)
ChildOfRoot(t) == Ancestor(t, 1)
BelowCommon(t) ==
  LET k == CHOOSE k \in 0 .. Len(t) - 1 :
             /\ Above(Ancestor(t, k), canon_leaf)
             /\ ~Above(Ancestor(t, k + 1), canon_leaf)
  IN Ancestor(t, k + 1)

AutomorphismLeaf(t, held) ==
  /\ \E a \in {BelowCommon(t)} : PruneSubtree(a, {})
  /\ AddAutomorphism(ExplicitAutomorphism(t), held \cup {canon_leaf, canon_graph', extra_graph'})
  /\ UNCHANGED told

(* report_leaf with the visitors it calls                                  *)
FindsAutomorphism(t) == canon_leaf # NoNode /\ tree.cert[t] = tree.cert[Reference]
ReportVisited(t, held) ==
  /\ ReportLeaf(t)
  /\ \/ FindsAutomorphism(t) /\ AutomorphismLeaf(t, held)
     \/ /\ ~FindsAutomorphism(t)
        /\ IF pruner = "schreier" /\ canon_leaf' # canon_leaf
           THEN CanonNewBest(canon_leaf, t) ELSE UNCHANGED chainVars
        /\ UNCHANGED <<tree, status, child_pruned, coordVars, dataVars, values,
                       q_max_level, cur, emitted, prunerVars>>

-----------------------------------------------------------------------------
(* tree_before_descend                                                     *)

(* prune_subtree as the pruner sees it                                     *)
PruneVisited ==
  IF pruner = "schreier" THEN SchreierPrune ELSE UNCHANGED <<gens, nodeGens, chainVars>>

(* t and its ancestors, up to the first that need not be updated           *)
ItselfOnly(t) == IF NeedUpdate(t) THEN <<t>> ELSE <<>>
NeedPath(t) ==
  LET up == [i \in 1 .. Len(t) + 1 |-> Ancestor(t, Len(t) + 1 - i)]
      n == CHOOSE n \in 0 .. Len(up) :
             /\ \A i \in 1 .. n : NeedUpdate(up[i])
             /\ n < Len(up) => ~NeedUpdate(up[n + 1])
  IN SubSeq(up, 1, n)

Start(t) ==
  LET c == IF canon_leaf = NoNode THEN <<>> ELSE NeedPath(canon_leaf)
  IN /\ t_path' = NeedPath(t)
     /\ c_path' = IF c # <<>> /\ Last(c) = Last(t_path') THEN c ELSE <<>>
     /\ UNCHANGED <<gens, nodeGens, child_count, forest, moves, told, chainVars>>

(* the coordinator comes first, then the pruner if the node is left        *)
BeforeDescend(t) ==
  \/ /\ Outdated(t)
     /\ PruneSubtree(t, {})
     /\ PruneCanonLeafBelow(t)
     /\ PruneVisited
     /\ UNCHANGED <<canon_graph, extra_graph, child_count, forest, t_path, c_path, moves, told>>
  \/ /\ ~Outdated(t)
     /\ IF status[t] # "pruned" /\ child_count[t] # 0 /\ NeedUpdate(t)
        THEN Start(t) ELSE UNCHANGED <<prunerVars, chainVars>>
     /\ UNCHANGED treeVars

Highest == Last(t_path)
StopUpdate == t_path' = <<>> /\ c_path' = <<>>
SameUpdate == UNCHANGED <<t_path, c_path>>
NextUpdate == /\ t_path' = Front(t_path)
              /\ c_path' = IF c_path = <<>> THEN <<>> ELSE Front(c_path)

(* the children moved by new generators, generator by generator            *)
Moves(t, new) ==
  {m \in {<<i, c, Image(new[i], c)>> : i \in 1 .. Len(new), c \in Children(t)} : m[2] # m[3]}
NotAfter(m, o) == m[1] < o[1] \/ (m[1] = o[1] /\ Last(m[2]) <= Last(o[2]))

(* update of the pruner in use, and the generators it returns              *)
UpdateVisited(t, held) ==
  IF pruner = "basic" THEN BasicUpdate(t) /\ UNCHANGED chainVars
  ELSE SchreierUpdate(t, Holders(held))
Returned(t) ==
  IF pruner = "basic" \/ t = Root THEN NewGens(t) ELSE NewlyReported(t)

Update(held) ==
  LET a == Highest
  IN /\ ~Idle
     /\ moves = {}
     /\ \/ /\ status[a] = "pruned"
           /\ StopUpdate
           /\ UNCHANGED <<nodeGens, moves, chainVars>>
        \/ /\ status[a] # "pruned"
           /\ UpdateVisited(a, held)
           /\ LET new == Returned(a)
              IN /\ moves' = Moves(a, new)
                 /\ CASE new = <<>> /\ a # Root -> StopUpdate
                      [] new = <<>> /\ a = Root -> NextUpdate
                      [] new # <<>> /\ moves' = {} -> NextUpdate
                      [] new # <<>> /\ moves' # {} -> SameUpdate
     /\ UNCHANGED <<treeVars, gens, child_count, forest, told>>

(* the child the candidate is below, if the candidate is below this node   *)
CanonChild ==
  IF c_path # <<>> /\ Last(c_path) = Highest THEN c_path[Len(c_path) - 1] ELSE NoNode

(* Which of two roots goes on to stand for the set of both: never one that *)
(* the candidate is not below if it is below the other, then one that is   *)
(* not flagged, then the first.                                            *)
KeepFirst(r, s, held) == IF Last(s) < Last(r) THEN s ELSE r
Keep(r, s, held) ==
  CASE r = CanonChild -> r
    [] r # CanonChild /\ s = CanonChild -> s
    [] CanonChild \notin {r, s} /\ Flagged(r, held) -> s
    [] CanonChild \notin {r, s} /\ ~Flagged(r, held) -> IF Last(s) < Last(r) THEN s ELSE r

Absorb(keep, other) ==
  /\ forest' = [c \in tree.nodes |-> IF forest[c] = other THEN keep ELSE forest[c]]
  /\ PruneSubtree(other, {other})
  /\ UNCHANGED leafVars
  /\ PruneVisited

Merge(held) ==
  /\ ~Idle
  /\ \E m \in moves :
       /\ \A o \in moves : NotAfter(m, o)
       /\ LET r == forest[m[2]]
              s == forest[m[3]]
          IN \/ r = s /\ UNCHANGED <<treeVars, forest, gens, nodeGens, chainVars>>
             \/ r # s /\ \E keep \in {Keep(r, s, held)} :
                            \E other \in {r, s} \ {keep} : Absorb(keep, other)
       /\ moves' = moves \ {m}
       /\ IF moves' = {} THEN NextUpdate ELSE SameUpdate
  /\ UNCHANGED <<child_count, told>>

-----------------------------------------------------------------------------
(* A leaf is still open if it can be reported: every node on its path is   *)
(* neither pruned nor flagged, and it is not itself one that the traversal *)
(* is done with.                                                           *)
OpenIn(held, reportable) ==
  {l \in LeavesOf(tree) :
     /\ \A i \in 1 .. Len(l) : /\ status[Ancestor(l, i)] # "pruned"
                              /\ ~Flagged(Ancestor(l, i), held)
     /\ status[l] = "live" => l \in reportable}

LeafAtLeast(T, l, m) == ~LeafBetter(T, m, l)

PrunerTypeOK ==
  /\ gens \in Seq(tree.auts)
  /\ num_base_gens \in [tree.nodes -> Nat]
  /\ num_parent_gens \in [tree.nodes -> Nat]
  /\ stab \in [tree.nodes -> Seq(tree.auts)]
  /\ child_count \in [tree.nodes -> {0, 1}]
  /\ forest \in [tree.nodes -> tree.nodes]
  /\ t_path \in Seq(tree.nodes)
  /\ c_path \in Seq(tree.nodes)
  /\ moves \subseteq Nat \X tree.nodes \X tree.nodes
  /\ told \in BOOLEAN
  /\ pruner \in tree.pruners /\ implicit \in BOOLEAN
  /\ trans \in [tree.nodes -> Seq(tree.auts)]
  /\ num_base_chain \in [tree.nodes -> Nat]
  /\ num_reported \in [tree.nodes -> Nat]
  /\ chain_child \in [tree.nodes -> tree.nodes \cup {NoNode}]
  /\ main_chain \subseteq tree.nodes

(* The invariant of aut_pruner_basic::tree_data: a node that has seen all  *)
(* generators has an ancestry that has, and has seen all of its parent's;  *)
(* between updates nothing is half done.                                   *)
GeneratorsPassedDown ==
  /\ \A t \in tree.nodes \ {Root} :
       status[t] = "live" /\ num_base_gens[t] = Len(gens) /\ gens # <<>> =>
         /\ num_base_gens[Parent(t)] = Len(gens)
         /\ num_parent_gens[t] = Len(ParentGens(t))
  /\ \A t \in tree.nodes \ {Root} :
       status[t] = "live" => num_parent_gens[t] <= Len(ParentGens(t))
  /\ \A t \in tree.nodes : num_base_gens[t] <= Len(gens)

(* Children are only merged with children that an automorphism fixing the  *)
(* path maps them to: the subtrees look the same.                          *)
SetsAreOrbits ==
  \A c \in tree.nodes \ {Root} :
    \E p \in tree.auts : Image(p, Parent(c)) = Parent(c) /\ Image(p, c) = forest[c]

-----------------------------------------------------------------------------
(* aut_pruner_schreier                                                     *)

(* what G generates                                                        *)
Generated(G) ==
  LET grow[S \in SUBSET tree.auts] ==
        LET more == S \cup {Mul(g, p) : g \in G, p \in S}
        IN IF more = S THEN S ELSE grow[more]
  IN grow[{Identity}]

(* A node that has got all generators has the whole stabilizer of the path *)
(* to it in the group they generate, however they came to it: through its  *)
(* own chain or that of a sibling's, before or after chains were redirected*)
(* and nodes on them destroyed.  A node that has told the base all of them *)
(* has told it as much.                                                    *)
StabilizersFull ==
  pruner = "schreier" =>
    \A t \in tree.nodes \ {Root} : status[t] = "live" /\ num_base_chain[t] = Len(gens) =>
      LET full == {p \in Generated(Range(gens)) : Image(p, t) = t}
      IN /\ Generated(Range(stab[t])) = full
         /\ num_base_gens[t] = Len(gens) =>
              Generated(Range(SubSeq(stab[t], 1, num_reported[t]))) = full

(* The invariants of aut_pruner_schreier::tree_data and the assertions of  *)
(* update: a node that has got all generators has a stabilizer, all of its *)
(* parent's generators, and a parent that has got them all; the base has   *)
(* been told no more than that.                                            *)
ChainsCounted ==
  pruner = "schreier" =>
    \A t \in tree.nodes \ {Root} : status[t] = "live" =>
      /\ num_base_chain[t] = Len(gens) /\ gens # <<>> =>
           /\ trans[t] # <<>>
           /\ num_parent_gens[t] = Len(ParentGens(t))
           /\ num_base_chain[Parent(t)] = Len(gens)
      /\ num_base_gens[t] <= num_base_chain[t] /\ num_base_chain[t] <= Len(gens)
      /\ num_reported[t] <= Len(stab[t])

(* The main chain is the path to the candidate, and each node on it leads  *)
(* to the next; no chain leads to a node that has been pruned.             *)
ChainsLead ==
  pruner = "schreier" =>
    /\ main_chain = PathOf(canon_leaf)
    /\ \A t \in main_chain \ {canon_leaf} : chain_child[t] = Ancestor(canon_leaf, Len(t) + 1)
    /\ \A t \in tree.nodes : chain_child[t] # NoNode =>
         Parent(chain_child[t]) = t /\ status[chain_child[t]] # "pruned"
=============================================================================
