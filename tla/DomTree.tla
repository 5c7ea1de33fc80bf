------------------------------ MODULE DomTree -------------------------------
(***************************************************************************)
(* CFG, DomTreeBase and DomFrontierBase (thorin/analyses/cfg.cpp,            *)
(* domtree.cpp, domfrontier.cpp): the reverse post order of a graph, its     *)
(* dominator tree and its dominance frontiers, in either direction.         *)
(***************************************************************************)
EXTENDS DefGraph, SequencesExt

CONSTANTS Node, Graphs

(* The graphs are flow graphs: every node lies between the entry, to which no    *)
(* edge leads, and the exit, from which none leads.                             *)
GraphsOK ==
    \A F \in Graphs :
        /\ F.entry \in Node /\ F.exit \in Node
        /\ F.succs \in [Node -> SUBSET Node]
        /\ IsFlowGraph(F)

VARIABLES
    G,          \* the graph, in the direction of the template parameter
    index,      \* the number of each node, New or Open
    calls,      \* the calls of post_order_visit that are going on
    i,          \* the number that was given last
    idoms,
    pos,        \* the position of create() in the reverse post order
    todo,
    frontier,   \* the successors in the DomFrontierBase
    pc          \* "number", "sweep", "frontier" or "done"

vars == <<G, index, calls, i, idoms, pos, todo, frontier, pc>>

New  == -1
Open == -2
size == Cardinality(Node)

Init ==
    /\ \E F \in Graphs : G = Forward(F) \/ G = Backward(F)
    /\ index = [n \in Node |-> IF n = G.entry THEN Open ELSE New]
    /\ calls = <<G.entry>> /\ i = size
    /\ idoms = <<>> /\ pos = 0 /\ todo = FALSE /\ frontier = <<>>
    /\ pc = "number"

-----------------------------------------------------------------------------
(* CFG::post_order_visit.  The successors come in the order of a hash set.      *)
fresh == {s \in G.succs[calls[Len(calls)]] : index[s] = New}

Descend ==
    /\ pc = "number" /\ calls # <<>>
    /\ \E s \in fresh : index' = [index EXCEPT ![s] = Open] /\ calls' = Append(calls, s)
    /\ UNCHANGED <<G, i, idoms, pos, todo, frontier, pc>>


Ascend ==
    /\ pc = "number" /\ calls # <<>> /\ fresh = {}
    /\ i' = i - 1
    /\ index' = [index EXCEPT ![calls[Len(calls)]] = i - 1]
    /\ calls' = SubSeq(calls, 1, Len(calls) - 1)
    /\ UNCHANGED <<G, idoms, pos, todo, frontier, pc>>

rpo(p) == CHOOSE n \in Node : index[n] = p

-----------------------------------------------------------------------------
(* DomTreeBase::create.                                                        *)

Starts(n) == {p \in G.preds[n] : index[p] < index[n]}

FirstIdoms ==
    /\ pc = "number" /\ calls = <<>>
    /\ \E start \in {f \in [Node -> Node] : /\ f[G.entry] = G.entry
                                           /\ \A n \in Node \ {G.entry} : f[n] \in Starts(n)} :
          idoms' = start
    /\ pos' = 1 /\ todo' = FALSE
    /\ pc' = "sweep"
    /\ UNCHANGED <<G, index, calls, i, frontier>>

(* The two loops of least_common_ancestor, step by step: whichever has the       *)
(* greater number goes up.                                                     *)
Up(both) ==
    LET a == both[1]
        b == both[2]
    IN  CASE index[a] < index[b] -> <<a, idoms[b]>>
          [] index[b] < index[a] -> <<idoms[a], b>>
          [] OTHER               -> both

least_common_ancestor(a, b) ==
    LET walk[k \in 0..2 * size] == IF k = 0 THEN <<a, b>> ELSE Up(walk[k-1])
    IN  walk[2 * size][1]

(* The predecessors come in the order of a hash set.                            *)
Merge(order) ==
    LET new_idom[k \in 1..Len(order)] ==
            IF k = 1 THEN order[1] ELSE least_common_ancestor(new_idom[k-1], order[k])
    IN  new_idom[Len(order)]

Sweep ==
    /\ pc = "sweep" /\ pos < size
    /\ \E n \in {rpo(pos)} : \E order \in SetToSeqs(G.preds[n]) :
          \E new_idom \in {Merge(order)} :
              /\ idoms' = [idoms EXCEPT ![n] = new_idom]
              /\ todo' = (todo \/ new_idom # idoms[n])
    /\ pos' = pos + 1
    /\ UNCHANGED <<G, index, calls, i, frontier, pc>>

EndOfSweep ==
    /\ pc = "sweep" /\ pos = size
    /\ IF todo THEN pos' = 1 /\ todo' = FALSE /\ pc' = pc
               ELSE pc' = "frontier" /\ UNCHANGED <<pos, todo>>
    /\ UNCHANGED <<G, index, calls, i, idoms, frontier>>

-----------------------------------------------------------------------------
(* DomFrontierBase::create: the chain from p up to, but without, stop.          *)
Chain(p, stop) == Reach([n \in Node |-> IF n = stop THEN {} ELSE {idoms[n]}], {p}) \ {stop}

Joins == {n \in Node \ {G.entry} : Cardinality(G.preds[n]) > 1}

Linked_pred(n) == G.preds[n] \ {idoms[n]}       \* mutant: does not walk up
Linked(n) == UNION {Chain(p, idoms[n]) : p \in G.preds[n]}

Frontier ==
    /\ pc = "frontier"
    /\ frontier' = [m \in Node |-> {n \in Joins : m \in Linked(n)}]
    /\ pc' = "done"
    /\ UNCHANGED <<G, index, calls, i, idoms, pos, todo>>

Next == Descend \/ Ascend \/ FirstIdoms \/ Sweep \/ EndOfSweep \/ Frontier
Spec == Init /\ [][Next]_vars /\ WF_vars(Next)

-----------------------------------------------------------------------------
TypeOK ==
    /\ index \in [Node -> {New, Open} \cup 0..size - 1]
    /\ calls \in Seq(Node) /\ i \in 0..size
    /\ pc # "number" => idoms \in [Node -> Node]
    /\ pos \in 0..size /\ todo \in BOOLEAN
    /\ pc \in {"number", "sweep", "frontier", "done"}

(* cfg.cpp asserts that the last number is 0: all nodes are numbered, each once, *)
(* and an edge only goes to a smaller number if it goes back to an open call,   *)
(* so that every node but the entry has a predecessor to start with.            *)
Numbered ==
    pc # "number" =>
        /\ i = 0 /\ \A p \in 0..size - 1 : \E n \in Node : index[n] = p
        /\ \A n \in Node \ {G.entry} : Starts(n) # {}

(* Whatever the first guess, the chains of idoms only ever go to smaller        *)
(* numbers; least_common_ancestor ends for no other reason.                     *)
ChainsDescend ==
    pc # "number" => \A n \in Node \ {G.entry} : index[idoms[n]] < index[n]

(* domtree.h: the dominator tree, for every graph, direction, order of          *)
(* successors and first guess.                                                 *)
IdomsExact ==
    pc \in {"frontier", "done"} =>
        \A n \in Node \ {G.entry} :
            LET D == {a \in Node : n \in Dominated(G)[a]} \ {n}
            IN  idoms[n] \in D /\ \A a \in D : idoms[n] \in Dominated(G)[a]

(* domfrontier.h: the nodes n with a predecessor that m dominates, but that m   *)
(* does not strictly dominate.                                                 *)
FrontierExact ==
    pc = "done" => \A m \in Node : frontier[m] =
        LET D == Dominated(G)[m] IN {n \in Node : G.preds[n] \cap D # {} /\ n \notin D \ {m}}

(* All of it: the tree and the frontiers are the textbook's.                     *)
DomExact == TypeOK /\ Numbered /\ ChainsDescend /\ IdomsExact /\ FrontierExact
=============================================================================
