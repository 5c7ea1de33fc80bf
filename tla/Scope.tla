------------------------------- MODULE Scope --------------------------------
(***************************************************************************)
(* Scope (thorin/analyses/scope.cpp): what is bound in a nominal, and what   *)
(* is free in it, found by worklists over uses and operands.                *)
(***************************************************************************)
EXTENDS DefGraph

CONSTANTS
    Defs,       \* the defs
    Programs,
    Split,      \* the nominals whose Var has several components
    Varless,    \* those that are not given a Var: Infer and Global, or all if the World is frozen
    Bare        \* the defs with no operands but their type

(* The defs are those of the program, of whatever shape it is.                  *)
ProgramsOK == \A p \in Programs : IsProgram(p) /\ DefsOf(p) = Defs

(* Def::var: a Var is made of its nominal and of a type that the nominal knows: an  *)
(* operand of it (Pi), an operand of one that is not bound there (the domain of a    *)
(* Lam, whose Pi may be nominal), or something made anew of such (the Idx of the      *)
(* shape of an Arr or Pack).                                                      *)
MadeOf(p, n, o) ==
    \/ o \in p.ops[n]
    \/ \E t \in p.ops[n] : o \in p.ops[t] /\ (t \in p.noms => o \notin Dependent(p, t))
VarsTyped ==
    \A p \in Programs : \A n \in DOMAIN p.var : \A o \in p.ops[p.var[n]] \ ({n} \cup p.const) :
        \/ MadeOf(p, n, o)
        \/ o \notin p.noms \cup Vars(p) /\ \A q \in p.ops[o] \ p.const : MadeOf(p, n, q)

VARIABLES
    g,          \* the program, which does not change
    entry,      \* the nominal whose scope is computed
    pc,         \* the loop that runs: "run", "bound", "free" or "done"
    queue,      \* its queue
    bound,      \* bound_: what run() has found, later what calc_bound() leaves
    live,       \* the local set of calc_bound(), and of calc_free()
    free_defs, free_vars, free_noms

vars == <<g, entry, pc, queue, bound, live, free_defs, free_vars, free_noms>>

-----------------------------------------------------------------------------
Init ==
    /\ g \in Programs
    /\ entry \in g.noms
    /\ pc = "run"
    /\ bound = {g.var[n] : n \in DOMAIN g.var \cap {entry}}
    /\ queue = bound
    /\ live = {}
    /\ free_defs = {} /\ free_vars = {} /\ free_noms = {}

(* unique_queue::push: what was pushed before is not pushed again.             *)
Push(done, S) == S \ done

(* Scope::run.                                                                 *)

Run(d) ==
    /\ bound' = bound \cup (uses(g, d) \ {entry})
    /\ queue' = (queue \ {d}) \cup Push(bound, uses(g, d) \ {entry})

RunPop ==
    /\ pc = "run"
    /\ \E d \in queue : Run(d)
    /\ UNCHANGED <<g, entry, pc, live, free_defs, free_vars, free_noms>>

(* Scope::calc_bound, its lambda enqueue for the operands ops.                 *)
enqueue_entry(ops, rest) ==      \* mutant: what is free is only looked for in the entry
    /\ live' = live \cup (ops \cap bound)
    /\ queue' = rest \cup Push(live, ops \cap bound)
    /\ free_defs' = IF ops = g.ops[entry] THEN ops \ (bound \cup g.const) ELSE free_defs

enqueue(ops, rest) ==
    /\ live' = live \cup (ops \cap bound)
    /\ queue' = rest \cup Push(live, ops \cap bound)
    /\ free_defs' = free_defs \cup (ops \ (bound \cup g.const))

StartBound ==
    /\ pc = "run" /\ queue = {}
    /\ pc' = "bound"
    /\ enqueue(g.ops[entry], {})
    /\ UNCHANGED <<g, entry, bound, free_vars, free_noms>>

BoundPop ==
    /\ pc = "bound"
    /\ \E d \in queue : enqueue(g.ops[d], queue \ {d})
    /\ UNCHANGED <<g, entry, pc, bound, free_vars, free_noms>>

(* Scope::calc_free, its lambda enqueue.                                       *)

enqueue_free(done, ops, rest) ==
    LET new == ops \ (g.const \cup Vars(g) \cup g.noms)
    IN  /\ free_vars' = free_vars \cup (ops \cap Vars(g))
        /\ free_noms' = free_noms \cup (ops \cap g.noms)
        /\ live' = done \cup new
        /\ queue' = rest \cup Push(done, new)

StartFree ==
    /\ pc = "bound" /\ queue = {}
    /\ pc' = "free"
    /\ bound' = live
    /\ enqueue_free({}, free_defs, {})
    /\ UNCHANGED <<g, entry, free_defs>>

FreePop ==
    /\ pc = "free"
    /\ \E d \in queue : enqueue_free(live, g.ops[d], queue \ {d})
    /\ UNCHANGED <<g, entry, pc, bound, free_defs>>

Finish ==
    /\ pc = "free" /\ queue = {}
    /\ pc' = "done"
    /\ UNCHANGED <<g, entry, queue, bound, live, free_defs, free_vars, free_noms>>

Next == RunPop \/ StartBound \/ BoundPop \/ StartFree \/ FreePop \/ Finish
Spec == Init /\ [][Next]_vars

(* is_free(entry, d), with the scope that has been computed.  A Var is made if     *)
(* there is none yet: nothing uses it, so that the scope is empty.  The loop         *)
(* compares the Var with its own components: of a single one it is the only one.   *)
is_free(d) ==
    /\ entry \in DOMAIN g.var \/ entry \notin Varless
    /\ d \notin Bare
    /\ \/ entry \in DOMAIN g.var /\ d = g.var[entry]
       \/ entry \notin Split
       \/ d \in bound

-----------------------------------------------------------------------------
TypeOK ==
    /\ IsProgram(g) /\ entry \in g.noms
    /\ pc \in {"run", "bound", "free", "done"}
    /\ queue \subseteq Defs /\ bound \subseteq Defs /\ live \subseteq Defs
    /\ free_defs \subseteq Defs /\ free_vars \subseteq Vars(g) /\ free_noms \subseteq g.noms

(* scope.h: bound() is what depends on the entry's Var and what the entry      *)
(* reaches of it, however the worklists are ordered.                           *)
DependsOnVar == IF entry \in DOMAIN g.var THEN Least(UsersBeside(g, entry), {g.var[entry]}) ELSE {}
BoundExact   == pc = "done" => bound = Least(OpsWithin(g, DependsOnVar), g.ops[entry] \cap DependsOnVar)

(* Nothing free is missed: a Var or nominal that the scope uses, be it below    *)
(* structural defs that are not bound themselves, is the entry's, or belongs   *)
(* to a nominal that is bound, or is listed as free.                           *)
Structural == [d \in Defs |-> IF d \in g.noms \cup Vars(g) THEN {} ELSE g.ops[d]]
Used       == Reach(Structural, g.ops[entry] \cup UNION {g.ops[d] : d \in bound \ Vars(g)})

FreeComplete ==
    pc = "done" =>
        /\ Used \cap Vars(g) \subseteq free_vars \cup {g.var[n] : n \in DOMAIN g.var \cap (bound \cup {entry})}
        /\ Used \cap g.noms \subseteq free_noms \cup bound

(* def.cpp:132-154 asks is_free of a nominal and its operands, and makes the        *)
(* nominal structural if it says no: an operand that depends on the Var, and be it    *)
(* through nominals and types, is told to, unless only its type does; and of a Var    *)
(* with several components no other operand is.                                   *)
IsFreeExact ==
    pc = "done" =>
        \A d \in g.ops[entry] :
            /\ d \in Dependent(g, entry) /\ d \notin Bare => is_free(d)
            /\ is_free(d) /\ entry \in Split => d \in Dependent(g, entry)

(* All of it: what scope.h and def.h promise of a scope.                         *)
ScopeExact == TypeOK /\ BoundExact /\ FreeComplete /\ IsFreeExact
=============================================================================
