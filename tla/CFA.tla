-------------------------------- MODULE CFA ---------------------------------
(***************************************************************************)
(* CFA (thorin/analyses/cfg.cpp): the control-flow graph of a scope, its     *)
(* nodes being nominals, and link_to_exit, which makes every node reach the  *)
(* exit.  The operands of a def are those of ops(), without types.          *)
(***************************************************************************)
EXTENDS DefGraph, SequencesExt

CONSTANTS
    Defs,       \* the defs
    Programs,
    exit        \* the virtual exit of every scope

(* The defs are those of the program, of whatever shape it is, and the exit of  *)
(* a scope is none of them.                                                    *)
ProgramsOK == exit \notin Defs /\ \A p \in Programs : IsProgram(p) /\ DefsOf(p) = Defs

VARIABLES
    g, entry,
    bound,      \* the defs bound in the scope of the entry
    nodes,      \* nodes_
    succs,      \* the successors of each node
    cfg_queue, cfg_done,
    reachable,  \* the nodes that link_to_exit knows to reach the exit
    stack, on_stack,
    pc          \* "visit", "link" (to the exit) or "done"

vars == <<g, entry, bound, nodes, succs, cfg_queue, cfg_done, reachable, stack, on_stack, pc>>

Nodes == Defs \cup {exit}

Init ==
    /\ g \in Programs
    /\ entry \in {n \in g.noms : is_set(g, n)}
    /\ bound = Bound(g, entry)
    /\ nodes = {entry, exit}
    /\ succs = [n \in Nodes |-> {}]
    /\ cfg_queue = {entry} /\ cfg_done = {entry}
    /\ reachable = {} /\ stack = <<>> /\ on_stack = {}
    /\ pc = "visit"


(* The nominals that src mentions, other than below a Var or what is free.      *)
Through == [d \in Defs |-> IF d \in g.noms THEN {} ELSE (g.ops[d] \cap bound) \ Vars(g)]
Targets(src) == Reach(Through, (g.ops[src] \cap bound) \ Vars(g)) \cap g.noms

VisitNom ==
    /\ pc = "visit"
    /\ \E src \in cfg_queue :
          LET new == {n \in Targets(src) : is_set(g, n)} \ cfg_done
          IN  /\ nodes' = nodes \cup Targets(src)
              /\ succs' = [succs EXCEPT ![src] = Targets(src)]
              /\ cfg_done' = cfg_done \cup new
              /\ cfg_queue' = (cfg_queue \ {src}) \cup new
    /\ UNCHANGED <<g, entry, bound, reachable, stack, on_stack, pc>>

-----------------------------------------------------------------------------
PredsOf(S) == [n \in Nodes |-> {p \in Nodes : n \in S[p]}]
BackwardsReachable(S, n) == Reach(PredsOf(S), {n})

(* All nodes without successors are linked to the exit first.                   *)
LinkDeadEnds ==
    /\ pc = "visit" /\ cfg_queue = {}
    /\ succs' = [n \in Nodes |-> IF n \in nodes \ {exit} /\ succs[n] = {} THEN {exit} ELSE succs[n]]
    /\ reachable' = BackwardsReachable(succs', exit)
    /\ stack' = <<entry>> /\ on_stack' = {entry}
    /\ pc' = "link"
    /\ UNCHANGED <<g, entry, bound, nodes, cfg_queue, cfg_done>>

todo == succs[Last(stack)] \ on_stack

PushSuccs ==
    /\ pc = "link" /\ stack # <<>> /\ todo # {}
    /\ \E order \in SetToSeqs(todo) : stack' = stack \o order
    /\ on_stack' = on_stack \cup todo
    /\ UNCHANGED <<g, entry, bound, nodes, succs, cfg_queue, cfg_done, reachable, pc>>


Link_all(n) ==                   \* mutant: does not look whether the node reaches the exit
    /\ succs' = [succs EXCEPT ![n] = @ \cup {exit}]
    /\ reachable' = reachable \cup BackwardsReachable(succs', n)

Link(n) ==
    IF n \in reachable THEN UNCHANGED <<succs, reachable>>
    ELSE /\ succs' = [succs EXCEPT ![n] = @ \cup {exit}]
         /\ reachable' = reachable \cup BackwardsReachable(succs', n)

PopNode ==
    /\ pc = "link" /\ stack # <<>> /\ todo = {}
    /\ Link(Last(stack))
    /\ stack' = Front(stack)
    /\ UNCHANGED <<g, entry, bound, nodes, cfg_queue, cfg_done, on_stack, pc>>

Finish ==
    /\ pc = "link" /\ stack = <<>>
    /\ pc' = "done"
    /\ UNCHANGED <<g, entry, bound, nodes, succs, cfg_queue, cfg_done, reachable, stack, on_stack>>

Next == VisitNom \/ LinkDeadEnds \/ PushSuccs \/ PopNode \/ Finish
Spec == Init /\ [][Next]_vars

-----------------------------------------------------------------------------
TypeOK ==
    /\ nodes \subseteq bound \cup {entry, exit} /\ {entry, exit} \subseteq nodes
    /\ succs \in [Nodes -> SUBSET nodes]
    /\ cfg_queue \subseteq cfg_done /\ cfg_done \subseteq nodes
    /\ reachable \subseteq Nodes
    /\ stack \in Seq(on_stack) /\ on_stack \subseteq nodes
    /\ pc \in {"visit", "link", "done"}

(* cfg.cpp asserts that every node of the CFG, in either direction, gets a      *)
(* number: it is reachable from the entry, and the exit is reachable from it,   *)
(* endless loops included.                                                     *)
AllNumbered ==
    pc = "done" => /\ Reach(succs, {entry}) = nodes
                   /\ Reach(PredsOf(succs), {exit}) = nodes

(* link_to_exit gives an edge to the exit to dead ends and to what can only run *)
(* on for ever: a node that reaches a dead end has a way out already.           *)
Flow == [n \in Nodes |-> IF n = exit THEN {} ELSE Targets(n)]
Added == {n \in nodes \ {exit} : exit \in succs[n]}

OnlyEndless ==
    pc = "done" => \A n \in Added :
        LET R == Reach(Flow, {n}) IN \A m \in R : m \in nodes => (Flow[m] = {} => m = n)

(* All of it: the graph is one that can be numbered from either end, and only     *)
(* nodes that run on for ever have been linked to the exit.                      *)
CfgNumbered == TypeOK /\ AllNumbered /\ OnlyEndless
=============================================================================
