--------------------------- MODULE SchreierPruner ---------------------------
(***************************************************************************)
(* aut_pruner_schreier: a node keeps generators of the whole stabilizer of *)
(* the path to it.  From each node a chain of children goes down; what a   *)
(* group in the chain gains is passed on to the next as Schreier generators*)
(* unless sifting through the rest of the chain shows it is not new.       *)
(*                                                                         *)
(* Chains are redirected as nodes are created, updated, pruned and         *)
(* destroyed, and the counts in the nodes tell what each still has to get. *)
(* The orbits and Schreier generators are those of the PermGroup library.  *)
(* A chain is at most as long as the tree is deep: the copies of the       *)
(* sifting for one to eight factors are one function.                      *)
(***************************************************************************)
EXTENDS BasicPruner

(* The pruners a tree is to be searched with.                              *)
ASSUME PrunersAssumption == \A T \in Trees : T.pruners \subseteq {"basic", "schreier"}

VARIABLES
  pruner,          \* the one of this run (never changes)
  implicit,        \* aut_implicit_size_2 is in use as well (never changes)
  trans,           \* per node the transversal of its stabilizer, <<>> for none
  num_base_chain,  \* num_base_gens_chain, without the identity
  num_reported,    \* num_gens_reported, likewise
  chain_child,     \* next_child
  main_chain       \* the nodes with is_main_chain

setup == <<pruner, implicit>>
chainVars == <<setup, trans, num_base_chain, num_reported, chain_child, main_chain>>

PathTo(t) == {Ancestor(t, l) : l \in 0 .. Len(t)}
PathOf(t) == IF t = NoNode THEN {} ELSE PathTo(t)

SchreierInit ==
  /\ pruner \in tree.pruners
  /\ implicit \in IF tree.fits = {} THEN {FALSE} ELSE BOOLEAN
  /\ trans = [t \in tree.nodes |-> <<>>]
  /\ num_base_chain = [t \in tree.nodes |-> 0]
  /\ num_reported = [t \in tree.nodes |-> 0]
  /\ chain_child = [t \in tree.nodes |-> NoNode]
  /\ main_chain = {}

-----------------------------------------------------------------------------
(* Permutations and transversals                                           *)

(* p after q, and p with the factor r taken out: r after it is p           *)
Mul(p, q) == CHOOSE r \in tree.auts : \A i \in DOMAIN r : r[i] = p[q[i]]
Without(r, p) == CHOOSE q \in tree.auts : \A i \in DOMAIN q : r[q[i]] = p[i]
Identity == CHOOSE p \in tree.auts : \A i \in DOMAIN p : p[i] = i

(* A transversal is a sequence of permutations, one for each point that v  *)
(* is mapped to.                                                           *)
InOrbit(tr, v, x) == \E r \in Range(tr) : r[v] = x
Factor(tr, v, x) == CHOOSE r \in Range(tr) : r[v] = x

(* the orbit under G of the points that v is mapped to already             *)
Grown(tr, G, v) ==
  LET grow[s \in Seq(tree.auts)] ==
        LET new == {q \in {Mul(g, r) : g \in G, r \in Range(s)} : ~InOrbit(s, v, q[v])}
        IN IF new = {} THEN s ELSE grow[Append(s, CHOOSE q \in new : TRUE)]
  IN grow[tr]

(* the Schreier generators for a point and a generator of gs, of which not *)
(* both were there when the orbit was tr and there were k generators       *)
SchreierGens[tr, grown, gs \in Seq(tree.auts), k, v \in Nat] ==
  LET olds == (1 .. Len(tr)) \X (1 .. k)
      new == ((1 .. Len(grown)) \X (1 .. Len(gs))) \ olds
      gen(i, j) == Without(Factor(grown, v, gs[j][grown[i][v]]), Mul(gs[j], grown[i]))
  IN SetToSeq({gen(ij[1], ij[2]) : ij \in new})

-----------------------------------------------------------------------------
(* The groups while generators are added: those of the nodes, with the     *)
(* base group at the root, their transversals, and the chains.             *)
GroupStates == [grp : [tree.nodes -> Seq(tree.auts)],
                trans : [tree.nodes -> Seq(tree.auts)],
                next : [tree.nodes -> tree.nodes \cup {NoNode}]]

(* A node exists while something below it is held.                         *)
ExistsAmong(t, holders) == \E h \in holders \ {NoNode} : Above(t, h)

(* The destructor of a node resets a pointer to it.                        *)
LinkedNext(next, holders) ==
  [t \in tree.nodes |->
     IF next[t] # NoNode /\ ExistsAmong(next[t], holders) THEN next[t] ELSE NoNode]
Groups(next, holders) ==
  [grp |-> [stab EXCEPT ![Root] = gens], trans |-> trans, next |-> LinkedNext(next, holders)]

(* the nodes of the chain from t                                           *)
ChainFrom(s, t) ==
  LET chain[u \in tree.nodes] ==
        IF s.next[u] = NoNode THEN <<u>> ELSE <<u>> \o chain[s.next[u]]
  IN chain[t]

(* DupChecker: p is sifted down the chain from t.  What is left at its end *)
(* is only compared with the generators there.                             *)
Sifts[s \in GroupStates, t \in tree.nodes, p \in tree.auts] ==
  LET c == s.next[t]
      v == Last(c)
  IN IF c = NoNode THEN p = Identity \/ p \in Range(s.grp[t])
     ELSE /\ InOrbit(s.trans[c], v, p[v])
          /\ Sifts[s, c, Without(Factor(s.trans[c], v, p[v]), p)]

(* generator_added: the orbit of the next child grows, and its group is    *)
(* offered the Schreier generators for the k + 1 st generator of its parent*)
(* and those that follow it.                                               *)
GrownIn(s, c) == [s EXCEPT !.trans[c] = Grown(@, Range(s.grp[Parent(c)]), Last(c))]
SchreierGensIn(s, c, k) ==
  SchreierGens[s.trans[c], GrownIn(s, c).trans[c], s.grp[Parent(c)], k, Last(c)]

(* the group of t is offered ps, one after the other                       *)
Added[s \in GroupStates, t \in tree.nodes, ps \in Seq(tree.auts)] ==
  IF ps = <<>> THEN s
  ELSE LET c == s.next[t]
           with == [s EXCEPT !.grp[t] = Append(@, Head(ps))]
           after == IF Sifts[s, t, Head(ps)] THEN s
                    ELSE IF c = NoNode THEN with
                    ELSE Added[GrownIn(with, c), c, SchreierGensIn(with, c, Len(s.grp[t]))]
       IN Added[after, t, Tail(ps)]

(* update_chain_and_ancestors: nodes of the chain from t that have no      *)
(* stabilizer get one, and going up from the end of the chain each node    *)
(* gets what it has not seen of its parent's, up to one that has seen all. *)
WithStabilizers(s, nodes) ==
  [s EXCEPT !.trans = [t \in tree.nodes |->
     IF t \in nodes \ {Root} /\ s.trans[t] = <<>> THEN <<Identity>> ELSE s.trans[t]]]
Stale(e) ==
  LET top == CHOOSE l \in 0 .. Len(e) :
               /\ l = 0 \/ num_base_chain[Ancestor(e, l)] = Len(gens)
               /\ \A k \in l + 1 .. Len(e) : num_base_chain[Ancestor(e, k)] # Len(gens)
  IN [i \in 1 .. Len(e) - top |-> Ancestor(e, Len(e) + 1 - i)]
PulledFrom(s, c, k) == Added[GrownIn(s, c), c, SchreierGensIn(s, c, k)]
Pulled[s \in GroupStates, nodes \in Seq(tree.nodes)] ==
  IF nodes = <<>> THEN s
  ELSE Pulled[PulledFrom(s, Head(nodes), num_parent_gens[Head(nodes)]), Tail(nodes)]
UpdatedChain(s, t) ==
  LET chain == ChainFrom(s, t)
  IN Pulled[WithStabilizers(s, Range(chain)), Stale(Last(chain))]

(* The counts of nodes that have got everything from their parents.        *)
CountedInBase(nodes, s) ==
  /\ num_base_chain' = [t \in tree.nodes |->
       IF t \in nodes THEN Len(s.grp[Root]) ELSE num_base_chain[t]]
  /\ UNCHANGED num_parent_gens
Counted(nodes, s) ==
  /\ num_base_chain' = [t \in tree.nodes |->
       IF t \in nodes THEN Len(s.grp[Root]) ELSE num_base_chain[t]]
  /\ num_parent_gens' = [t \in tree.nodes |->
       IF t \in nodes \ {Root} THEN Len(s.grp[Parent(t)]) ELSE num_parent_gens[t]]

-----------------------------------------------------------------------------
(* What changes the chains and the marks                                   *)

(* tree_create_node_end, also for a node that is pruned, and is destroyed  *)
(* then                                                                    *)
PointAt(p, c) ==
  chain_child' = IF pruner = "schreier" /\ p \notin main_chain
                 THEN [chain_child EXCEPT ![p] = c] ELSE chain_child

(* tree_prune_node, for the nodes that are pruned now                      *)
PrunedNow(t) == status[t] = "live" /\ status'[t] = "pruned"
StillLinked(next) == next
Unlinked(next) ==
  [t \in tree.nodes |-> IF next[t] # NoNode /\ PrunedNow(next[t]) THEN NoNode ELSE next[t]]
Forgotten(f) == [t \in tree.nodes |-> IF PrunedNow(t) THEN <<>> ELSE f[t]]

(* canon_prune, before the candidate is given up                           *)
CanonPrune ==
  main_chain' = IF canon_leaf' = NoNode THEN main_chain \ PathOf(canon_leaf) ELSE main_chain

SchreierPrune ==
  /\ CanonPrune
  /\ stab' = Forgotten(stab)
  /\ trans' = Forgotten(trans)
  /\ chain_child' = Unlinked(chain_child)
  /\ UNCHANGED <<setup, gens, num_base_gens, num_parent_gens, num_base_chain, num_reported>>

(* canon_new_best                                                          *)
CanonNewBest(previous, t) ==
  /\ main_chain' = (main_chain \ PathOf(previous)) \cup PathTo(t)
  /\ chain_child' = [u \in tree.nodes |->
       IF u = t THEN NoNode ELSE IF Above(u, t) THEN Ancestor(t, Len(u) + 1)
       ELSE chain_child[u]]
  /\ UNCHANGED <<setup, trans, num_base_chain, num_reported>>

(* add_automorphism, and the pruning that follows                          *)
OfferedAtOnce(p, holders) == Added[Groups(chain_child, holders), Root, <<p>>]
Offered(p, holders) ==
  Added[UpdatedChain(Groups(chain_child, holders), Root), Root, <<p>>]
SchreierAdd(p, holders) ==
  \E s \in {Offered(p, holders)} :
     /\ gens' = s.grp[Root]
     /\ stab' = Forgotten([s.grp EXCEPT ![Root] = <<>>])
     /\ trans' = Forgotten(s.trans)
     /\ chain_child' = Unlinked(chain_child)
     /\ Counted(Range(ChainFrom(s, Root)), s)
     /\ UNCHANGED <<setup, num_base_gens, num_reported, main_chain>>

(* update: as much of the chain as possible is redirected to t; then its   *)
(* group is brought up to date, and what has not been reported of it is.   *)
Redirected(t) ==
  [u \in tree.nodes |->
     IF /\ Above(u, t) /\ u # t
        /\ \A l \in Len(u) .. Len(t) - 1 : Ancestor(t, l) \notin main_chain
     THEN Ancestor(t, Len(u) + 1) ELSE chain_child[u]]
NewlyReported(t) == SubSeq(stab'[t], num_reported[t] + 1, Len(stab'[t]))

SchreierUpdate(t, holders) ==
  /\ num_base_gens' = [num_base_gens EXCEPT ![t] = Len(gens)]
  /\ IF t = Root THEN UNCHANGED <<num_parent_gens, stab, chainVars>>
     ELSE /\ chain_child' = Redirected(t)
          /\ \/ /\ num_base_chain[t] = Len(gens)
                /\ UNCHANGED <<num_parent_gens, num_base_chain, stab, trans>>
             \/ /\ num_base_chain[t] # Len(gens)
                /\ \E s0 \in {Groups(Redirected(t), holders)} :
                   \E s \in {UpdatedChain(s0, t)} :
                      /\ Counted(Range(Stale(Last(ChainFrom(s0, t)))), s)
                      /\ stab' = [s.grp EXCEPT ![Root] = <<>>]
                      /\ trans' = s.trans
          /\ num_reported' = [num_reported EXCEPT ![t] = Len(stab'[t])]
          /\ UNCHANGED <<setup, main_chain>>
=============================================================================
