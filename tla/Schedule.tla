------------------------------ MODULE Schedule ------------------------------
(***************************************************************************)
(* Scheduler (thorin/analyses/schedule.cpp): which nominal of a scope a def  *)
(* is put into, call by call.  It is given what the other analyses have      *)
(* found: a scope is its program, its entry, the control-flow graph (module   *)
(* CFA) and how many loops are around each node (module LoopTree); the        *)
(* dominators, as module DomTree finds them, are here by their definition.    *)
(***************************************************************************)
EXTENDS DefGraph, Sequences

CONSTANTS Defs, Scopes

(* The control-flow graph of a scope is one whose nodes can all be reached, as    *)
(* CFA finds it; but for the entry they are bound.                              *)
ScopesOK ==
    \A s \in Scopes :
        LET N == DOMAIN s.succs
        IN  /\ IsProgram(s.g) /\ DefsOf(s.g) = Defs /\ 0 \notin Defs
            /\ s.entry \in N /\ N \subseteq s.g.noms
            /\ s.succs \in [N -> SUBSET N] /\ Reach(s.succs, {s.entry}) = N
            /\ s.loop \in [N -> Nat]
            /\ N \ {s.entry} \subseteq Bound(s.g, s.entry)

VARIABLES
    g, entry,
    flow,       \* what the other analyses have found
    queue,      \* of the constructor
    def2uses_, early_, late_, smart_,
    calls,      \* the calls of early and late that are going on, the innermost last
    at,         \* smart: the def that is asked for, and its local variables
    pc          \* "uses", "ready", "calls", "walk" or "astray"

vars == <<g, entry, flow, queue, def2uses_, early_, late_, smart_, calls, at, pc>>

Nodes           == DOMAIN flow.succs
dominates(a, b) == b \in flow.dom[a]
Dominators(n)   == {a \in Nodes : dominates(a, n)}

(* What the constructor follows from a def.                                     *)
Enqueued(d) == {op \in g.ops[d] \ g.noms : op \in flow.bound}

(* What a nominal, or the type of a Var, refers to: the Vars there have to be     *)
(* visible, or the program makes no sense.  A Var stands where its nominal is.   *)
Uses        == [d \in Defs |-> Enqueued(d)]
UsesBeyond  == [d \in Defs |-> IF d \in Vars(g) THEN {} ELSE Enqueued(d)]
Visited     == Reach(Uses, Nodes)
Roots       == Nodes \cup (Visited \cap Vars(g))
At(r)       == IF r \in Vars(g) THEN nom(g, r) ELSE r
Span(r)     == {r} \cup Reach(UsesBeyond, Enqueued(r))
VarsVisible == \A r \in Roots : \A v \in Span(r) \cap Vars(g) : nom(g, v) \in Nodes /\ dominates(nom(g, v), At(r))

-----------------------------------------------------------------------------
Nobody == [def |-> 0, e |-> 0, i |-> 0, s |-> 0]

Init ==
    /\ \E s \in Scopes :
          /\ g = s.g /\ entry = s.entry
          /\ flow = [succs |-> s.succs, loop |-> s.loop, bound |-> Bound(s.g, s.entry), dom |-> Dominated(s)]
    /\ VarsVisible
    /\ queue = Nodes
    /\ def2uses_ = <<>> /\ early_ = <<>> /\ late_ = <<>> /\ smart_ = <<>>
    /\ calls = <<>> /\ at = Nobody
    /\ pc = "uses"

-----------------------------------------------------------------------------
(* DomTreeBase: depth, idom and least_common_ancestor.                          *)
Last(C)         == CHOOSE c \in C : \A x \in C : dominates(x, c)

depth(n) == Cardinality(Dominators(n) \ {n})
idom(n)  == IF n = entry THEN entry ELSE Last(Dominators(n) \ {n})
least_common_ancestor(a, b) == Last(Dominators(a) \cap Dominators(b))

-----------------------------------------------------------------------------
(* The constructor: who uses a def, among the nominals of the graph and what    *)
(* they use.  The order of the queue does not matter.                          *)
Collect ==
    /\ pc = "uses" /\ queue # {}
    /\ \E def \in queue : \E ops \in {Enqueued(def)} :
          /\ def2uses_' = [d \in DOMAIN def2uses_ \cup ops |->
                              (IF d \in DOMAIN def2uses_ THEN def2uses_[d] ELSE {})
                                  \cup (IF d \in ops THEN {def} ELSE {})]
          /\ queue' = (queue \ {def}) \cup (ops \ DOMAIN def2uses_)
    /\ UNCHANGED <<g, entry, flow, early_, late_, smart_, calls, at, pc>>

Constructed ==
    /\ pc = "uses" /\ queue = {}
    /\ pc' = "ready"
    /\ UNCHANGED <<g, entry, flow, queue, def2uses_, early_, late_, smart_, calls, at>>

-----------------------------------------------------------------------------
free(d)    == d \in g.const \/ d \notin flow.bound
UsedOps(d) == (g.ops[d] \ g.noms) \cap DOMAIN def2uses_

Put(f, x, y) == [d \in {x} \cup DOMAIN f |-> IF d = x THEN y ELSE f[d]]

(* A call that has begun: what is still to be asked, and the result so far.      *)
Early(d) ==
    CASE free(d)      -> [fn |-> "early", def |-> d, todo |-> {}, result |-> entry]
      [] ~free(d) /\ d \in Vars(g) -> [fn |-> "early", def |-> d, todo |-> {}, result |-> nom(g, d)]
      [] OTHER        -> [fn |-> "early", def |-> d, todo |-> UsedOps(d), result |-> entry]

None == 0           \* nullptr
Late(d) ==
    CASE free(d) -> [fn |-> "late", def |-> d, todo |-> {}, result |-> entry]
      [] ~free(d) /\ d \in g.noms -> [fn |-> "late", def |-> d, todo |-> {}, result |-> d]
      [] ~free(d) /\ d \in Vars(g) -> [fn |-> "late", def |-> d, todo |-> {}, result |-> nom(g, d)]
      [] OTHER -> [fn |-> "late", def |-> d, todo |-> def2uses_[d], result |-> None]

Top       == calls[Len(calls)]
Callers   == SubSeq(calls, 1, Len(calls) - 1)
Inside(fn) == pc = "calls" /\ calls # <<>> /\ Top.fn = fn
SetTop(x, r) == Append(Callers, [Top EXCEPT !.todo = @ \ {x}, !.result = r])

(* smart asks early and then late, each of which looks into its table first.     *)
Asked == Nodes \cup DOMAIN def2uses_ \cup {d \in Defs : free(d)}

Ask(d) ==
    /\ pc = "ready" /\ d \notin DOMAIN smart_
    /\ calls' = (IF d \in DOMAIN late_ THEN <<>> ELSE <<Late(d)>>)
                    \o (IF d \in DOMAIN early_ THEN <<>> ELSE <<Early(d)>>)
    /\ at' = [Nobody EXCEPT !.def = d]
    /\ pc' = "calls"
    /\ UNCHANGED <<g, entry, flow, queue, def2uses_, early_, late_, smart_>>

(* early                                                                       *)
deeper(a, b) == IF depth(b) > depth(a) THEN b ELSE a

EarlyOp ==
    /\ Inside("early")
    /\ \E op \in Top.todo :
          calls' = IF op \in DOMAIN early_ THEN SetTop(op, deeper(Top.result, early_[op]))
                   ELSE Append(calls, Early(op))
    /\ UNCHANGED <<g, entry, flow, queue, def2uses_, early_, late_, smart_, at, pc>>

EarlyReturn ==
    /\ Inside("early") /\ Top.todo = {}
    /\ early_' = Put(early_, Top.def, Top.result)
    /\ calls' = Callers
    /\ UNCHANGED <<g, entry, flow, queue, def2uses_, late_, smart_, at, pc>>

(* late.  What it finds out of a free def it writes into the table of early, so    *)
(* that it finds it out again the next time.                                    *)
Join(a, b) == IF a = None THEN b ELSE least_common_ancestor(a, b)

LateUse ==
    /\ Inside("late")
    /\ \E use \in Top.todo :
          \/ /\ use \in DOMAIN late_
             /\ calls' = SetTop(use, Join(Top.result, late_[use]))
             /\ UNCHANGED early_
          \/ /\ use \notin DOMAIN late_ /\ free(use)
             /\ calls' = SetTop(use, Join(Top.result, entry))
             /\ early_' = Put(early_, use, entry)
          \/ /\ use \notin DOMAIN late_ /\ ~free(use)
             /\ calls' = Append(calls, Late(use))
             /\ UNCHANGED early_
    /\ UNCHANGED <<g, entry, flow, queue, def2uses_, late_, smart_, at, pc>>

LateReturn ==
    /\ Inside("late") /\ Top.todo = {}
    /\ IF free(Top.def) THEN early_' = Put(early_, Top.def, Top.result) /\ UNCHANGED late_
                        ELSE late_' = Put(late_, Top.def, Top.result) /\ UNCHANGED early_
    /\ calls' = Callers
    /\ UNCHANGED <<g, entry, flow, queue, def2uses_, smart_, at, pc>>

-----------------------------------------------------------------------------
(* smart, from late up to early: the first node in as few loops as possible.     *)
answer(table, d) == IF d \in DOMAIN table THEN table[d] ELSE entry

StartWalk ==
    /\ pc = "calls" /\ calls = <<>>
    /\ \E l \in {answer(late_, at.def)} :
          at' = [def |-> at.def, e |-> early_[at.def], i |-> l, s |-> l]
    /\ pc' = "walk"
    /\ UNCHANGED <<g, entry, flow, queue, def2uses_, early_, late_, smart_, calls>>

Nearer_top(i, s) == IF flow.loop[i] <= flow.loop[s] THEN i ELSE s     \* mutant: as high as it can
Nearer(i, s) == IF flow.loop[i] < flow.loop[s] THEN i ELSE s

(* At the root it asserts, or goes round for ever.                               *)
Walk ==
    /\ pc = "walk" /\ at.i # at.e
    /\ IF at.i = idom(at.i)
       THEN pc' = "astray" /\ UNCHANGED at
       ELSE at' = [at EXCEPT !.i = idom(at.i), !.s = Nearer(idom(at.i), @)] /\ UNCHANGED pc
    /\ UNCHANGED <<g, entry, flow, queue, def2uses_, early_, late_, smart_, calls>>

Place ==
    /\ pc = "walk" /\ at.i = at.e
    /\ smart_' = Put(smart_, at.def, at.s)
    /\ pc' = "ready"
    /\ at' = Nobody
    /\ UNCHANGED <<g, entry, flow, queue, def2uses_, early_, late_, calls>>

Next == \/ Collect \/ Constructed
        \/ \E d \in Asked : Ask(d)
        \/ EarlyOp \/ EarlyReturn \/ LateUse \/ LateReturn
        \/ StartWalk \/ Walk \/ Place
Spec == Init /\ [][Next]_vars

-----------------------------------------------------------------------------
TypeOK ==
    /\ queue \subseteq Defs
    /\ DOMAIN def2uses_ \subseteq Defs /\ \A d \in DOMAIN def2uses_ : def2uses_[d] \subseteq Defs
    /\ \A table \in {early_, late_, smart_} : DOMAIN table \subseteq Defs /\ \A d \in DOMAIN table : table[d] \in Nodes
    /\ \A k \in DOMAIN calls : /\ calls[k].fn \in {"early", "late"} /\ calls[k].def \in Asked
                               /\ calls[k].todo \subseteq Asked
                               /\ calls[k].result \in Nodes \cup {None}
    /\ pc \in {"uses", "ready", "calls", "walk", "astray"}

(* "all reachable noms have already been registered above" (schedule.cpp:37): the   *)
(* users of a def are all those that can be reached, and there is one.            *)
UsesFound ==
    pc # "uses" =>
        /\ DOMAIN def2uses_ = Visited \ Nodes
        /\ \A d \in DOMAIN def2uses_ : def2uses_[d] = {u \in Visited : d \in Enqueued(u)} /\ def2uses_[d] # {}

(* smart walks up from late and meets early: the assertion i != idom holds, and   *)
(* the loop ends.                                                              *)
MeetsEarly ==
    /\ pc # "astray"
    /\ pc = "walk" => dominates(at.e, at.i)

(* A def is placed between early and late, nowhere there are fewer loops, and it is *)
(* moved no further than it takes.                                             *)
WellPlaced ==
    \A d \in DOMAIN smart_ :
        LET Path == {n \in Nodes : dominates(early_[d], n) /\ dominates(n, answer(late_, d))}
        IN  /\ smart_[d] \in Path
            /\ \A n \in Path : \/ flow.loop[smart_[d]] < flow.loop[n]
                               \/ flow.loop[smart_[d]] = flow.loop[n] /\ dominates(n, smart_[d])

(* What is placed is there before it is used, wherever loops have moved it and   *)
(* its users to, and in whatever order they were asked for.                     *)
Operands(d) == (Enqueued(d) \cap DOMAIN smart_) \ Vars(g)
VarsOf(d)   == {nom(g, v) : v \in Enqueued(d) \cap Vars(g)}

DefBeforeUse ==
    /\ \A d \in (DOMAIN smart_ \cap Asked) \ (Vars(g) \cup {e \in Defs : free(e)}) :
          /\ \A op \in Operands(d) : dominates(smart_[op], smart_[d])
          /\ \A n \in VarsOf(d) : dominates(n, smart_[d])
    /\ \A n \in Nodes : \A op \in Operands(n) : dominates(smart_[op], n)

(* The tables hold what the calls would find without them, so that no question   *)
(* changes the answer to a later one.                                          *)
Deepest(table, d) == LET C == {entry} \cup {table[op] : op \in UsedOps(d)}
                     IN  {c \in C : \A x \in C : depth(x) <= depth(c)}
LateOf(table, u)  == IF free(u) THEN entry ELSE table[u]
TablesAgree ==
    /\ \A d \in DOMAIN early_ :
          IF free(d) THEN early_[d] = entry
          ELSE IF d \in Vars(g) THEN early_[d] = nom(g, d)
          ELSE UsedOps(d) \subseteq DOMAIN early_ /\ early_[d] \in Deepest(early_, d)
    /\ \A d \in DOMAIN late_ :
          IF d \in g.noms THEN late_[d] = d
          ELSE IF d \in Vars(g) THEN late_[d] = nom(g, d)
          ELSE LET U == {LateOf(late_, u) : u \in def2uses_[d]}
               IN  late_[d] = Last({c \in Nodes : \A u \in U : dominates(c, u)})

(* All of it: the tables while calls go on, and the rest whenever an answer has    *)
(* been given.                                                                 *)
ScheduleSound ==
    /\ TypeOK /\ MeetsEarly
    /\ pc = "ready" => UsesFound /\ WellPlaced /\ DefBeforeUse /\ TablesAgree
=============================================================================
