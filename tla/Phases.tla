------------------------------- MODULE Phases -------------------------------
(* Phases that rewrite the whole program: Rewriter (rewrite.cpp), RWPhase and  *)
(* Cleanup (phase.cpp), and the names of the externals (world.h). A definition *)
(* is a term: a nominal by its number, anything else by its operands, the type *)
(* first. RWPhase appends the copies to the world it reads, Cleanup fills a    *)
(* new one.                                                                    *)
EXTENDS Integers, Sequences, FiniteSets, SequencesExt, TLC

CONSTANTS Worlds,    \* the nominals to start from
          MaxMarks,  \* bound: how often the user makes a nominal external or internal
          MaxPhases  \* bound: phases one after another
VARIABLES noms,   \* the nominals of the world: [sort, name, type, ops]
          ext,    \* move_.externals: a name to a nominal
          run,    \* the phase that runs: [kind, todo, s], kind "none" between two phases
          marks, phases

vars == <<noms, ext, run, marks, phases>>

Null == [f |-> "null", id |-> 0, ops |-> <<>>]
Nom(k) == [f |-> "nom", id |-> k, ops |-> <<>>]
Str(f, ops) == [f |-> f, id |-> 0, ops |-> ops]
VarOf(k) == Str("var", <<Nom(k)>>)

-----------------------------------------------------------------------------
RECURSIVE Within(_), Meets(_, _, _)
Within(t) == {t} \cup UNION {Within(t.ops[i]) : i \in DOMAIN t.ops}
\* All terms that ts reach in the world w, through nominals too.
Meets(w, ts, seen) ==
    LET all == UNION {Within(t) : t \in ts}
        ids == {t.id : t \in {u \in all : u.f = "nom"}} \ {t.id : t \in seen}
    IN IF ids = {} THEN seen \cup all
       ELSE Meets(w, UNION {{w[k].type} \cup {w[k].ops[i] : i \in DOMAIN w[k].ops} : k \in ids}, seen \cup all)

\* Pi::restructure: the copy of a nominal function type whose codomain does not depend on its variable.
Dissolves(w, k) == w[k].sort = "pi" /\ VarOf(k) \notin Meets(w, {w[k].ops[2]}, {})
Restructured(w, k) == Str("pi", w[k].ops)

\* s: the world that is read (old), the one that is built (new), old2new_ (map) and the result (r).
Return(s, t) == [s EXCEPT !.r = t]
map(s, t, u) == [s EXCEPT !.map = (t :> u) @@ @, !.r = u]

RECURSIVE rewrite(_, _)
rewriteAll(s, ts) ==
    FoldLeft(LAMBDA a, t : LET b == rewrite(a.s, t) IN [s |-> b, rs |-> Append(a.rs, b.r)], [s |-> s, rs |-> <<>>], ts)
rewrite_structural(s, t) == LET a == rewriteAll(s, t.ops) IN map(a.s, t, [t EXCEPT !.ops = a.rs])

Stub(s, t, type) ==
    map([s EXCEPT !.new = Append(@, [s.old[t.id] EXCEPT !.type = type, !.ops = [i \in DOMAIN @ |-> Null]])],
        t, Nom(Len(s.new) + 1))
SetOps(s, k, ops) ==
    FoldLeft(LAMBDA a, i : IF ops[i] = Null THEN a ELSE LET b == rewrite(a, ops[i]) IN [b EXCEPT !.new[k].ops[i] = b.r],
             s, [i \in DOMAIN ops |-> i])
rewrite_nom_late(s, t) ==
    LET a == rewrite(s, s.old[t.id].type)
        k == Len(a.new) + 1
        b == SetOps(Stub(a, t, a.r), k, s.old[t.id].ops)
    IN IF Dissolves(b.new, k) THEN Return(b, Restructured(b.new, k)) ELSE Return(b, Nom(k))
\* The type first; the copy is known before its operands are rewritten, so that they may refer to it.
rewrite_nom(s, t) ==
    LET a == rewrite(s, s.old[t.id].type)
        k == Len(a.new) + 1
        b == SetOps(Stub(a, t, a.r), k, s.old[t.id].ops)
    IN IF Dissolves(b.new, k) THEN map(b, t, Restructured(b.new, k)) ELSE Return(b, Nom(k))

rewrite(s, t) ==
    IF t = Null THEN Return(s, Null)
    ELSE IF t \in DOMAIN s.map THEN Return(s, s.map[t])
    ELSE IF t.f # "nom" THEN rewrite_structural(s, t)
    ELSE IF s.old[t.id].sort = "infer" /\ s.old[t.id].ops[1] # Null THEN rewrite(s, s.old[t.id].ops[1])
    ELSE rewrite_nom(s, t)

-----------------------------------------------------------------------------
\* The first nominal of a name stays; the name decides what is external.
make_external(e, w, k) == IF w[k].name \in DOMAIN e THEN e ELSE (w[k].name :> k) @@ e
make_internal(e, w, k) == [n \in DOMAIN e \ {w[k].name} |-> e[n]]
is_external(e, w, k) == w[k].name \in DOMAIN e

\* Only functions are made external; Start needs a nominal for each of them.
MarkExternal(k) ==
    /\ noms[k].sort = "lam"
    /\ run.kind = "none" /\ phases = 0 /\ marks < MaxMarks
    /\ ext' = make_external(ext, noms, k) /\ marks' = marks + 1
    /\ UNCHANGED <<noms, run, phases>>
MarkInternal(k) ==
    /\ noms[k].sort = "lam"
    /\ run.kind = "none" /\ phases = 0 /\ marks < MaxMarks
    /\ ext' = make_internal(ext, noms, k) /\ marks' = marks + 1
    /\ UNCHANGED <<noms, run, phases>>

NoRun == [kind |-> "none", todo |-> {}, before |-> <<>>, ext |-> <<>>, s |-> <<>>]
\* kind "rw" is RWPhase, "cleanup" is Cleanup, whose externals are those of the new world.
Start(kind) ==
    /\ run.kind = "none" /\ phases < MaxPhases /\ DOMAIN ext # {}
    /\ run' = [kind |-> kind, todo |-> DOMAIN ext, before |-> ext, ext |-> IF kind = "cleanup" THEN <<>> ELSE ext,
               s |-> [old |-> noms, new |-> IF kind = "cleanup" THEN <<>> ELSE noms, map |-> <<>>, r |-> Null]]
    /\ UNCHANGED <<noms, ext, marks, phases>>
\* One external, in the order of their names (numbers here).
Visit ==
    /\ run.todo # {}
    /\ LET n == CHOOSE m \in run.todo : \A o \in run.todo : m <= o
           k == run.before[n]
       IN \E s \in {rewrite(run.s, Nom(k))} :
            LET e == IF run.kind = "rw" THEN make_internal(run.ext, s.new, k) ELSE run.ext
            IN run' = [run EXCEPT !.todo = @ \ {n}, !.s = s, !.ext = make_external(e, s.new, s.r.id)]
    /\ UNCHANGED <<noms, ext, marks, phases>>
\* RWPhase worked on the world all along; Cleanup swaps the worlds.
Finish ==
    /\ run.kind # "none" /\ run.todo = {}
    /\ noms' = run.s.new /\ ext' = run.ext
    /\ run' = NoRun /\ phases' = phases + 1
    /\ UNCHANGED marks

Next == \/ \E k \in DOMAIN noms : MarkExternal(k) \/ MarkInternal(k)
        \/ \E kind \in {"rw", "cleanup"} : Start(kind)
        \/ Visit \/ Finish

Init == noms \in Worlds /\ ext = <<>> /\ run = NoRun /\ marks = 0 /\ phases = 0
Spec == Init /\ [][Next]_vars

-----------------------------------------------------------------------------
\* What two terms of the old and the new world make correspond, and which terms may correspond.
Solved(w, t) == t.f = "nom" /\ w[t.id].sort = "infer" /\ w[t.id].ops[1] # Null
Gone(w, o, n) == o.f = "nom" /\ w[o.id].sort = "pi" /\ n.f = "pi"
Below(w, v, o, n) ==
    IF Solved(w, o) THEN {<<w[o.id].ops[1], n>>}
    ELSE IF Gone(w, o, n) THEN {<<w[o.id].ops[i], n.ops[i]>> : i \in DOMAIN n.ops}
    ELSE IF o.f = "nom"
         THEN {<<w[o.id].type, v[n.id].type>>} \cup {<<w[o.id].ops[i], v[n.id].ops[i]>> : i \in DOMAIN v[n.id].ops}
         ELSE {<<o.ops[i], n.ops[i]>> : i \in DOMAIN n.ops}
Fits(w, v, o, n) ==
    \/ Solved(w, o)
    \/ Gone(w, o, n) /\ Len(n.ops) = Len(w[o.id].ops)
    \/ /\ o.f = n.f /\ Len(o.ops) = Len(n.ops)
       /\ o.f = "nom" => /\ w[o.id].name = v[n.id].name /\ w[o.id].sort = v[n.id].sort
                         /\ Len(w[o.id].ops) = Len(v[n.id].ops)
RECURSIVE Related(_, _, _, _)
Related(w, v, todo, seen) ==
    LET bad == \E p \in todo : ~Fits(w, v, p[1], p[2])
        more == UNION {Below(w, v, p[1], p[2]) : p \in todo} \ (seen \cup todo)
    IN IF bad THEN {} ELSE IF todo = {} THEN seen ELSE Related(w, v, more, seen \cup todo)
Roots == {<<Nom(run.before[n]), Nom(run.ext[n])>> : n \in DOMAIN run.before}
Pairs == Related(run.s.old, run.s.new, Roots, {})
AtEnd == run.kind # "none" /\ run.todo = {}

\* Afterwards the program is the one from before: the externals have the names they had, what they
\* reach corresponds, every nominal has one copy, and no copy stands for two.
Copied ==
    AtEnd => /\ DOMAIN run.ext = DOMAIN run.before
             /\ \E ps \in {Pairs} :
                  /\ ps # {}
                  /\ \A p, q \in ps :
                       /\ p[1] = q[1] => p[2] = q[2]
                       /\ (p[2] = q[2] /\ p[2].f = "nom" /\ ~Solved(run.s.old, p[1]) /\ ~Solved(run.s.old, q[1])) => p[1] = q[1]

\* Nothing that the externals reach afterwards is one of the nominals from before.
NoOld ==
    (AtEnd /\ run.kind = "rw") =>
        \A t \in Meets(run.s.new, {Nom(run.ext[n]) : n \in DOMAIN run.ext}, {}) : t.f = "nom" => t.id > Len(run.s.old)

\* Cleanup removes what is dead: every nominal of the new world is reached by an external, or is the
\* copy of a function type that became structural.
Clean ==
    (AtEnd /\ run.kind = "cleanup") =>
        \A k \in DOMAIN run.s.new :
            \/ Nom(k) \in Meets(run.s.new, {Nom(run.ext[n]) : n \in DOMAIN run.ext}, {})
            \/ run.s.new[k].sort = "pi" /\ Dissolves(run.s.new, k)

\* A nominal that says it is external is the one that is found under its name.
ExternalIsOwn == \A k \in DOMAIN noms : is_external(ext, noms, k) => ext[noms[k].name] = k
=============================================================================
