------------------------------ MODULE DepTree -------------------------------
(***************************************************************************)
(* DepTree (thorin/analyses/deptree.cpp), which nests the nominals of a      *)
(* World by the Vars they depend on, and ScopePhase (thorin/phase/phase.cpp), *)
(* which visits the scopes that are not nested in another one.               *)
(***************************************************************************)
EXTENDS DefGraph, Sequences, TLC

CONSTANTS
    Defs,       \* the defs
    Programs,
    External,   \* the nominals that are external
    Root        \* the root of the tree, which is no nominal

VARIABLES
    g,          \* the program
    todo,       \* the externals that DepTree::run() has to visit
    tree,       \* what DepTree has found
    noms,       \* ScopePhase: the queue
    pushed,     \* ScopePhase: what was ever in it
    visited,    \* ScopePhase: the nominals whose scopes were visited
    pc

vars == <<g, todo, tree, noms, pushed, visited, pc>>

-----------------------------------------------------------------------------
(* node[n] is the DepNode of n, def2vars the memo, vars the result of the last *)
(* call of run and stack the nominals being visited.  Meeting curr_nom below    *)
(* itself starts all over with its operands: the recursion does not end.       *)
EmptyTree == [node |-> Root :> [depth |-> 0, parent |-> Root], def2vars |-> <<>>, stack |-> <<>>, vars |-> {},
              overflow |-> FALSE]

Return(w, V)  == [w EXCEPT !.vars = V]
Memo(w, d, V) == [w EXCEPT !.vars = V, !.def2vars = (d :> V) @@ @]
depth(w, n)   == w.node[n].depth

set_parent(w, n, p) == [w EXCEPT !.node[n] = [depth |-> depth(w, p) + 1, parent |-> p]]

Enter(w, n) == [w EXCEPT !.node = (n :> [depth |-> Len(w.stack) + 1, parent |-> Root]) @@ @,
                         !.stack = Append(@, n)]

(* The nominal of the deepest Var is the parent, except for an external.       *)

deepest(w) == LET N == {nom(g, v) : v \in w.vars}
              IN  IF N = {} THEN Root
                  ELSE CHOOSE n \in N : \A m \in N : depth(w, m) <= depth(w, n)

Leave(w, n) ==
    [set_parent(w, n, IF n \in External THEN Root ELSE deepest(w)) EXCEPT
        !.stack = SubSeq(@, 1, Len(@) - 1)]

least(S) == CHOOSE d \in S : \A c \in S : d <= c

RECURSIVE run_nom(_, _), run(_, _, _), run_ops(_, _, _, _, _), next_op(_, _, _, _, _)
run_nom(w, n) ==
    IF n \in DOMAIN w.node
    THEN Return(w, IF n \in DOMAIN w.def2vars THEN w.def2vars[n] ELSE {})
    ELSE Leave(run_ops(Enter(w, n), n, n, g.ops[n], {}), n)

run(w, curr, d) ==
    CASE d \in g.const            -> Return(w, {})
      [] d \in DOMAIN w.def2vars  -> Return(w, w.def2vars[d])
      [] d \in g.noms \ {curr}    -> run_nom(w, d)
      [] d \in Vars(g)            -> Memo(w, d, {d})
      [] d = curr                 -> [Return(w, {}) EXCEPT !.overflow = TRUE]
      [] OTHER                    -> run_ops(w, curr, d, g.ops[d], {})

run_ops(w, curr, d, rest, V) ==
    IF rest = {} THEN Memo(w, d, IF d = curr THEN V \ {v \in V : nom(g, v) = curr} ELSE V)
    ELSE next_op(run(w, curr, least(rest)), curr, d, rest \ {least(rest)}, V)
next_op(w, curr, d, rest, V) == run_ops(w, curr, d, rest, V \cup w.vars)

RunExternal ==
    /\ pc = "run"
    /\ \E n \in todo :
          /\ todo' = todo \ {n}
          /\ tree' = run_nom(tree, n)
    /\ pc' = IF tree'.overflow THEN "overflow" ELSE pc
    /\ UNCHANGED <<g, noms, pushed, visited>>

(* adjust_depth: the depths follow from the parents.                           *)
RECURSIVE Path(_, _)
Path(w, n) == IF n = Root THEN {} ELSE {n} \cup Path(w, w.node[n].parent)

AdjustDepth ==
    /\ pc = "run" /\ todo = {}
    /\ tree' = [tree EXCEPT !.node = [n \in DOMAIN @ |-> [@[n] EXCEPT !.depth = Cardinality(Path(tree, n))]]]
    /\ pc' = "visit"
    /\ UNCHANGED <<g, todo, noms, pushed, visited>>

(* The ancestor of a at the depth of b is b.                                   *)
depends(a, b) == b \in Path(tree, a)

-----------------------------------------------------------------------------
(* The free nominals of a scope, see module Scope.                             *)
Structural(S) == [d \in Defs |-> IF d \in g.noms \cup Vars(g) \cup S THEN {} ELSE g.ops[d]]
FreeDefs(n, B) == (g.ops[n] \cup UNION {g.ops[d] : d \in B}) \ (B \cup g.const)
free_noms_of(n, B) == Reach(Structural(B), FreeDefs(n, B)) \cap g.noms
free_noms(n) == free_noms_of(n, Bound(g, n))

Visit_once(n) == g.ops[n] \cap g.noms           \* mutant: looks at the nominals called only
Visit(n) == free_noms(n)

VisitScope ==
    /\ pc = "visit"
    /\ \E n \in noms :
          IF ~is_set(g, n)
          THEN noms' = noms \ {n} /\ UNCHANGED <<pushed, visited>>
          ELSE \E F \in {Visit(n)} :
                  /\ visited' = visited \cup {n}
                  /\ noms' = (noms \ {n}) \cup (F \ pushed)
                  /\ pushed' = pushed \cup F
    /\ UNCHANGED <<g, todo, tree, pc>>

Finish ==
    /\ pc = "visit" /\ noms = {}
    /\ pc' = "done"
    /\ UNCHANGED <<g, todo, tree, noms, pushed, visited>>

Init ==
    /\ g \in Programs
    /\ todo = External
    /\ tree = EmptyTree
    /\ noms = External /\ pushed = External /\ visited = {}
    /\ pc = "run"

Next == RunExternal \/ AdjustDepth \/ VisitScope \/ Finish
Spec == Init /\ [][Next]_vars

-----------------------------------------------------------------------------
Reachable == Reach(Ops(g), External) \cap g.noms

(* a is nested in b: it depends on the Var of b, whatever the path.            *)
Nested(a, b) == a = b \/ a \in Bound(g, b)

(* deptree.h: depends answers "Does a depend on b?"                            *)
DependsExact ==
    pc = "done" => \A a, b \in Reachable : depends(a, b) <=> Nested(a, b)

(* What the tree says is true, even if nominals call each other.                *)
DependsSound == pc = "done" => \A a, b \in Reachable : depends(a, b) => Nested(a, b)

(* world.h: dump() prints the World; its DepTree is computed to the end.       *)
TreeIsFinished == pc # "overflow"

(* Every reachable nominal has a node, and the path to it is finite.           *)
AllDiscovered == pc \in {"visit", "done"} => DOMAIN tree.node = Reachable \cup {Root}

(* phase.h: ScopePhase visits all reachable scopes without free variables, and *)
(* those only.                                                                 *)
VisitsTopLevel ==
    pc = "done" => visited = {n \in Reachable : is_set(g, n) /\ \A b \in Reachable \ {n} : ~Nested(n, b)}
=============================================================================
