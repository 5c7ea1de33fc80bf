------------------------------ MODULE LoopTree ------------------------------
(***************************************************************************)
(* LoopTree (thorin/analyses/looptree.cpp): the loop nesting forest, by      *)
(* Steensgaard's algorithm: the strongly connected components of the graph,  *)
(* then those of each loop without the edges back to its heads.            *)
(***************************************************************************)
EXTENDS DefGraph, SequencesExt

CONSTANTS Node, Graphs

VARIABLES
    G,
    tree,       \* the nodes of the tree in the order in which they are made
    heads,      \* the CFNodes marked IsHead
    work,       \* the Heads that recurse() has not done, innermost first
    entries     \* the CFNodes of the first one that it has not walked from

vars == <<G, tree, heads, work, entries>>

(* A Head or a Leaf with its CFNodes; index is that of a Leaf.                  *)
root == 1
TreeNode(parent, depth, ns, leaf, index) ==
    [parent |-> parent, depth |-> depth, cf_nodes |-> ns, leaf |-> leaf, index |-> index]

Init ==
    /\ \E F \in Graphs : G = Forward(F) \/ G = Backward(F)
    /\ tree = <<TreeNode(0, 0, {}, FALSE, -1)>>
    /\ heads = {}
    /\ work = <<root>> /\ entries = {G.entry}

-----------------------------------------------------------------------------
(* One walk_scc, with the Head it is for: the numbers of the nodes it has met    *)
(* (set_), their low links, the stack, and the tree so far.                     *)
Walk(h, t) == [head |-> h, dfs |-> <<>>, low |-> <<>>, stack |-> <<>>, tree |-> t]

in_set(w, n)    == n \in DOMAIN w.dfs
on_stack(w, n)  == n \in ToSet(w.stack)
lesser(a, b)    == IF a < b THEN a ELSE b
lower(w, n, k)  == [w EXCEPT !.low[n] = lesser(@, k)]
ascending(S)    == SetToSortSeq(S, <)

visit(w, n) ==
    LET c == Cardinality(DOMAIN w.dfs)
    IN  [w EXCEPT !.dfs = (n :> c) @@ @, !.low = (n :> c) @@ @, !.stack = Append(@, n)]

is_leaf(n, scc) == scc = {n} /\ (n \in G.succs[n] => n \in heads)

HeadsOf(scc) == {n \in scc : n = G.entry \/ \E p \in G.preds[n] : p \notin scc}
Leaves(t)    == {k \in DOMAIN t : t[k].leaf}

(* cur is the root of a component: it becomes a node of the tree.               *)
Component(w, cur) == LET k == CHOOSE k \in DOMAIN w.stack : w.stack[k] = cur
                     IN  ToSet(SubSeq(w.stack, k, Len(w.stack)))

Close(w, cur) ==
    LET scc  == Component(w, cur)
        leaf == is_leaf(cur, scc)
    IN  [w EXCEPT
            !.tree  = Append(@, TreeNode(w.head, w.tree[w.head].depth + 1, HeadsOf(scc), leaf,
                                         IF leaf THEN Cardinality(Leaves(@)) ELSE -1)),
            !.stack = SelectSeq(@, LAMBDA n : n \notin scc)]

RECURSIVE walk_scc(_, _), walk_succs(_, _, _), after_succ(_, _, _)
walk_scc(w, cur) ==
    LET u == walk_succs(visit(w, cur), cur, ascending(G.succs[cur]))
    IN  IF u.low[cur] = u.dfs[cur] THEN Close(u, cur) ELSE u

walk_succs(w, cur, succs) ==
    IF succs = <<>> THEN w
    ELSE CASE succs[1] \in heads     -> walk_succs(w, cur, Tail(succs))
           [] ~in_set(w, succs[1])   -> after_succ(walk_scc(w, succs[1]), cur, succs)
           [] on_stack(w, succs[1])  -> after_succ(w, cur, succs)
           [] OTHER                  -> walk_succs(w, cur, Tail(succs))
after_succ(w, cur, succs) == walk_succs(lower(w, cur, w.low[succs[1]]), cur, Tail(succs))

-----------------------------------------------------------------------------
(* recurse: a walk from each CFNode of the Head, each of which marks what it has *)
(* found as heads for the next ones, then the new Heads in turn.                *)
ChildrenOf(t, h) == {k \in DOMAIN t : t[k].parent = h}
CfNodes(t, K)    == UNION {t[k].cf_nodes : k \in K}

Marks(t, h) == CfNodes(t, ChildrenOf(t, h))

WalkHead ==
    /\ entries # {}
    /\ \E n \in entries :
          /\ tree' = walk_scc(Walk(work[1], tree), n).tree
          /\ entries' = entries \ {n}
    /\ heads' = heads \cup Marks(tree', work[1])
    /\ UNCHANGED <<G, work>>

Recurse ==
    /\ work # <<>> /\ entries = {}
    /\ work' = ascending({k \in ChildrenOf(tree, work[1]) : ~tree[k].leaf}) \o Tail(work)
    /\ entries' = IF work' = <<>> THEN {} ELSE tree[work'[1]].cf_nodes
    /\ UNCHANGED <<G, tree, heads>>

Next == WalkHead \/ Recurse
Spec == Init /\ [][Next]_vars

-----------------------------------------------------------------------------
done == work = <<>>

RECURSIVE Below(_)
Below(h) == UNION {IF tree[k].leaf THEN tree[k].cf_nodes ELSE Below(k) : k \in ChildrenOf(tree, h)}

(* looptree.h: leaves_ has a Leaf for every node.  There is one in the tree, not *)
(* two, although the walks from the heads of a loop meet the same nodes, and    *)
(* the indices number the leaves.                                              *)
LeafEach ==
    done => /\ \A n \in Node : \E k \in Leaves(tree) :
                  /\ tree[k].cf_nodes = {n}
                  /\ \A l \in Leaves(tree) \ {k} : n \notin tree[l].cf_nodes
            /\ {tree[k].index : k \in Leaves(tree)} = 0..Cardinality(Node) - 1

(* The heads of a loop are where it is entered: each can be reached from the     *)
(* entry without the rest of the loop, and nothing else of it can.              *)
Loops == DOMAIN tree \ (Leaves(tree) \cup {root})

HeadsGuard ==
    done => \A h \in Loops : \E B \in {Below(h)} :
        \E R \in {Reach([n \in Node |-> IF n \in B THEN {} ELSE G.succs[n]], {G.entry})} :
            tree[h].cf_nodes = B \cap R

(* looptree.h: "The header CFNodes are the set of CFNodes not dominated by any   *)
(* other CFNode within the loop."                                              *)
HeadsUndominated ==
    done => \E D \in {Dominated(G)} : \A h \in Loops : \E B \in {Below(h)} :
        tree[h].cf_nodes = {n \in B : \A m \in B \ {n} : n \notin D[m]}

(* The depth of a leaf is how deep its node is nested in loops.                 *)
DepthExact == done => \A k \in Leaves(tree) : \A n \in tree[k].cf_nodes : tree[k].depth = LoopDepth(G, n)
=============================================================================
