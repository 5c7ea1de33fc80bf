------------------------------ MODULE Checker ------------------------------
(***************************************************************************)
(* The checker of a World (thorin/check.cpp): equiv remembers a verdict for  *)
(* every pair of defs it has met and the pairs of nominals it has opened;     *)
(* neither is ever taken back.  A def is [node, nom, set, type, flags, ops,   *)
(* of]: its index is its gid, type 0 is none, of is the nominal of a Var or   *)
(* the number of a Lit.                                                      *)
(***************************************************************************)
EXTENDS Integers, Sequences, FiniteSets

(* A setup has the worlds (graphs, sequences of defs), the pairs of defs that may     *)
(* be compared (asked), the pairs of a type and a value that may be assigned to it   *)
(* (values), and a bound on the questions to one checker (max).                   *)
CONSTANTS Setups,          \* a function from names to such records
          Reduce(_, _, _)  \* Sigma::reduce of a world, a Sigma and a value

VARIABLES setup,      \* the name of the setup
          g,          \* the defs of the world
          equiv_,     \* from a pair of gids to its verdict
          vars_,      \* the pairs of nominals that have been compared, oldest first
          asked       \* the questions and their answers, and what was set between them

vars == <<setup, g, equiv_, vars_, asked>>

MaxAsks == Setups[setup].max

Sorted(x, y) == IF x > y THEN <<y, x>> ELSE <<x, y>>
Is(w, x, nodes) == w[x].node \in nodes
is_lit(w, x) == w[x].node = "Lit"
lit_nat(w, n) == CHOOSE x \in DOMAIN w : is_lit(w, x) /\ w[x].of = n
Arity(w, x)  == IF Is(w, x, {"Arr"}) THEN w[x].ops[1] ELSE lit_nat(w, IF Is(w, x, {"Sigma"}) THEN Len(w[x].ops) ELSE 1)
Proj_first(w, x, i) == IF Is(w, x, {"Arr"}) THEN w[x].ops[2] ELSE IF Is(w, x, {"Sigma", "Tuple"}) THEN w[x].ops[1] ELSE x
Proj(w, x, i) == IF Is(w, x, {"Arr"}) THEN w[x].ops[2] ELSE IF Is(w, x, {"Sigma", "Tuple"}) THEN w[x].ops[i] ELSE x

(* The first binder that fits decides about a variable.                          *)
SameVar(w, bs, x, y) ==
    LET fits == {i \in DOMAIN bs : bs[i][1] = w[x].of}
    IN fits # {} /\ w[y].of = bs[CHOOSE i \in fits : \A j \in fits : i <= j][2]

(* A checker is [eq, bs, res]: the verdicts, the binders and the last answer.      *)
Answer(s, r)   == [s EXCEPT !.res = r]
Note_once(s, p, r) == [s EXCEPT !.eq = [q \in DOMAIN s.eq \cup {p} |-> IF q \in DOMAIN s.eq THEN s.eq[q] ELSE r]]
Note(s, p, r)  == [s EXCEPT !.eq = [q \in DOMAIN s.eq \cup {p} |-> IF q = p THEN r ELSE s.eq[q]]]
Opened(w, s, x, y) == IF w[x].nom /\ w[y].nom THEN [s EXCEPT !.bs = Append(@, <<x, y>>)] ELSE s

RECURSIVE equiv(_, _, _, _), equiv_internal(_, _, _, _), All(_, _, _, _)

All(w, s, xs, ys) ==
    IF xs = <<>> THEN Answer(s, TRUE)
    ELSE LET t == equiv(w, s, xs[1], ys[1]) IN IF t.res THEN All(w, t, Tail(xs), Tail(ys)) ELSE t

equiv_internal(w, s, x, y) ==
    LET t == equiv(w, s, w[x].type, w[y].type)
        o == Opened(w, t, x, y)
        a == equiv(w, o, Arity(w, x), Arity(w, y))
        n == w[Arity(w, x)].of
        rest(u) ==
            IF \/ w[x].node # w[y].node \/ w[x].flags # w[y].flags \/ Len(w[x].ops) # Len(w[y].ops) THEN Answer(u, FALSE)
            ELSE IF w[x].node = "Var" THEN Answer(u, SameVar(w, u.bs, x, y))
            ELSE All(w, u, w[x].ops, w[y].ops)
    IN CASE ~t.res -> t
         [] t.res /\ "Top" \in {w[x].node, w[y].node} -> t
         [] t.res /\ ~Is(w, x, {"Top"}) /\ ~Is(w, y, {"Top"}) ->
              IF ~Is(w, x, {"Sigma", "Arr"}) THEN rest(o)
              ELSE IF ~a.res THEN a
              ELSE IF is_lit(w, Arity(w, x)) THEN All(w, a, [i \in 1..n |-> Proj(w, x, i)], [i \in 1..n |-> Proj(w, y, i)])
              ELSE rest(a)

equiv(w, s, d1, d2) ==
    LET p == Sorted(d1, d2) IN
    IF d1 = d2 THEN Answer(s, TRUE)
    ELSE IF 0 \in {d1, d2} \/ ~w[d1].set \/ ~w[d2].set THEN Answer(s, FALSE)
    ELSE IF p \in DOMAIN s.eq THEN Answer(s, s.eq[p] # "Distinct")
    ELSE LET t == equiv_internal(w, Note(s, p, "Unknown"), p[1], p[2])
         IN Note(t, p, IF t.res THEN "Equiv" ELSE "Distinct")

RECURSIVE assignable(_, _, _, _)
assignable(w, s, type, v) ==
    LET vt  == w[v].type
        a   == equiv(w, s, Arity(w, type), Arity(w, vt))
        n   == w[Arity(w, type)].of
        each[i \in 0..n] ==
            IF i = 0 THEN a
            ELSE IF ~each[i - 1].res THEN each[i - 1]
            ELSE assignable(w, each[i - 1], IF Is(w, type, {"Sigma"}) THEN Reduce(w, type, v)[i] ELSE Proj(w, type, i), Proj(w, v, i))
        vel == assignable(w, s, type, w[v].ops[1])
    IN CASE type = vt -> Answer(s, TRUE)
         [] type # vt /\ Is(w, type, {"Sigma", "Arr"}) ->
              IF ~a.res THEN a ELSE IF is_lit(w, Arity(w, type)) THEN each[n] ELSE equiv(w, a, type, vt)
         [] type # vt /\ ~Is(w, type, {"Sigma", "Arr"}) ->
              IF Is(w, v, {"Vel"}) /\ vel.res THEN vel
              ELSE equiv(w, IF Is(w, v, {"Vel"}) THEN vel ELSE s, type, vt)
-----------------------------------------------------------------------------
Checker0 == [eq |-> [p \in {} |-> ""], bs |-> <<>>, res |-> TRUE]

Init == setup \in DOMAIN Setups /\ g \in Setups[setup].graphs /\ equiv_ = Checker0.eq /\ vars_ = <<>> /\ asked = <<>>

Told(s, kind, x, y) ==
    /\ Len(asked) < MaxAsks
    /\ equiv_' = s.eq /\ vars_' = s.bs
    /\ asked' = Append(asked, [kind |-> kind, x |-> x, y |-> y, res |-> s.res])
    /\ UNCHANGED <<setup, g>>

Equiv(x, y)      == Told(equiv(g, [eq |-> equiv_, bs |-> vars_, res |-> TRUE], x, y), "equiv", x, y)
Assignable(x, y) == Told(assignable(g, [eq |-> equiv_, bs |-> vars_, res |-> TRUE], x, y), "assignable", x, y)

(* A nominal is set after its defs have been compared (Def::set).                 *)
Set(x) ==
    /\ ~g[x].set /\ Len(asked) < MaxAsks
    /\ g' = [g EXCEPT ![x].set = TRUE]
    /\ asked' = Append(asked, [kind |-> "set", x |-> x, y |-> x, res |-> TRUE])
    /\ UNCHANGED <<setup, equiv_, vars_>>

Next == (\E p \in Setups[setup].asked : Equiv(p[1], p[2])) \/ (\E p \in Setups[setup].values : Assignable(p[1], p[2])) \/ (\E x \in DOMAIN g : Set(x))
Spec == Init /\ [][Next]_vars
-----------------------------------------------------------------------------
(* The variables that are free in x.                                             *)
RECURSIVE FreeIn(_, _, _)
FreeIn(w, x, seen) ==
    IF x = 0 \/ x \in seen THEN {} ELSE
    LET ops == {w[x].ops[i] : i \in DOMAIN w[x].ops} \cup {w[x].type}
        own == IF w[x].node = "Var" THEN {w[x].of} ELSE {}
    IN (own \cup UNION {FreeIn(w, o, seen \cup {x}) : o \in ops}) \ (IF w[x].nom THEN {x} ELSE {})
Closed(w, x) == FreeIn(w, x, {}) = {}

(* The component i of a tuple or of its type.                                     *)
At(w, x, i) == IF w[x].node = "Arr" THEN w[x].ops[2] ELSE w[x].ops[i]

(* Alpha-equivalence of x and y where the binders in E are paired: the greatest    *)
(* relation, so a question that comes up again inside of itself is answered yes.   *)
RECURSIVE Alpha(_, _, _, _, _)
Alpha(w, x, y, E, seen) ==
    LET q    == <<x, y, E>>
        F    == IF w[x].nom \/ w[y].nom
                THEN {p \in E : p[1] # x /\ p[2] # y} \cup {<<x, y>>} ELSE E
        sub(a, b) == Alpha(w, a, b, F, seen \cup {q})
        tup(a)  == Is(w, a, {"Sigma", "Arr"}) /\ is_lit(w, Arity(w, a))
        both == {p \in E : p[1] = w[x].of \/ p[2] = w[y].of}
    IN IF 0 \in {x, y} THEN x = y
       ELSE IF q \in seen THEN TRUE
       ELSE /\ (w[x].set /\ w[y].set) \/ x = y
            /\ Alpha(w, w[x].type, w[y].type, E, seen \cup {q})
            /\ \/ "Top" \in {w[x].node, w[y].node}
               \/ /\ tup(x) /\ tup(y) /\ w[Arity(w, x)].of = w[Arity(w, y)].of
                  /\ \A i \in 1..w[Arity(w, x)].of : sub(At(w, x, i), At(w, y, i))
               \/ /\ ~(tup(x) /\ tup(y)) /\ w[x].node = w[y].node /\ w[x].flags = w[y].flags
                  /\ IF w[x].node = "Var" THEN IF both = {} THEN w[x].of = w[y].of ELSE both = {<<w[x].of, w[y].of>>}
                     ELSE IF w[x].node = "Lit" THEN w[x].of = w[y].of
                     ELSE /\ Len(w[x].ops) = Len(w[y].ops)
                          /\ \A i \in DOMAIN w[x].ops : sub(w[x].ops[i], w[y].ops[i])

Last == asked[Len(asked)]
Answered(k) == asked # <<>> /\ Last.kind = k

(* check.h:19: what equiv takes for equal is alpha-equivalent ...                  *)
Sound    == Answered("equiv") /\ Last.res => Alpha(g, Last.x, Last.y, {}, {})
(* ... and what is alpha-equivalent it takes for equal.                           *)
Complete == Answered("equiv") /\ ~Last.res => ~Alpha(g, Last.x, Last.y, {}, {})

(* check.cpp:27: which def stands on the left does not matter, and asking again,    *)
(* with nothing set in between, gives the answer that has been given.              *)
Steady ==
    \A i, j \in DOMAIN asked :
        /\ i < j /\ asked[i].kind = asked[j].kind
        /\ {asked[i].x, asked[i].y} = {asked[j].x, asked[j].y}
        /\ \A k \in i..j : asked[k].kind # "set"
        => asked[i].res = asked[j].res

(* The types of which v is a value.                                              *)
RECURSIVE Fits(_, _, _)
Fits(w, t, v) ==
    \/ Alpha(w, t, w[v].type, {}, {})
    \/ /\ {w[t].node, w[w[v].type].node} \subseteq {"Sigma", "Arr"}
       /\ is_lit(w, Arity(w, t)) /\ Arity(w, t) = Arity(w, w[v].type)
       /\ \A i \in 1..w[Arity(w, t)].of : Fits(w, IF Is(w, t, {"Sigma"}) THEN Reduce(w, t, v)[i] ELSE At(w, t, i), At(w, v, i))
    \/ w[v].node = "Vel" /\ ~Is(w, t, {"Sigma", "Arr"}) /\ Fits(w, t, w[v].ops[1])

(* check.h:22: a value can be assigned to the types that it is a value of, those    *)
(* that depend on its own components included.                                   *)
Assigns == Answered("assignable") => (Last.res <=> Fits(g, Last.x, Last.y))
=============================================================================
