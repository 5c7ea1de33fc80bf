------------------------------ MODULE RWPasses ------------------------------
(***************************************************************************)
(* The rewriting passes of thorin/pass/rw: PartialEval, Scalerize, LamSpec  *)
(* and RetWrap, one after the other as phases with a single pass, which     *)
(* never go back.  A Lam has a parameter for each type of its domain: a     *)
(* value, a continuation, or a sigma of these.                              *)
(***************************************************************************)
EXTENDS Lambda
LOCAL INSTANCE SequencesExt

CONSTANTS
    Programs,   \* the programs to start from, as functions from Lams
    Phases,     \* the passes in the order they run
    Main,       \* the external Lam
    Fuel        \* bound: jumps of the programs that are run to compare them

VARIABLES
    lams, phase, todo, seen,    \* the nominals, the pass at work, what it has found
    memo, cache,                \* PassMan's old2new, Def::reduce's cache
    spec, tup2sca,              \* LamSpec::old2new_, Scalerize::tup2sca_
    old                         \* the program it was started with

vars == <<lams, phase, todo, seen, memo, cache, spec, tup2sca, old>>

-----------------------------------------------------------------------------
Ty(node, ops) == [node |-> node, ops |-> ops]
Val      == Ty("val", <<>>)
Cont     == Ty("cn", <<>>)
Sig(ops) == Ty("sigma", ops)
Nom(ops) == Ty("nominal sigma", ops)

tuple(ops) == IF Len(ops) = 1 THEN ops[1] ELSE Args(ops)
proj(n, d, i) == IF n = 1 THEN d ELSE Extract(i, d)

Work == [lams |-> lams, memo |-> memo, cache |-> cache, spec |-> spec, sca |-> tup2sca, def |-> Lit]
SetDef(w, d) == [w EXCEPT !.def = d]
Put(f, x, y) == (x :> y) @@ f
nom_lam(w)   == Cardinality(DOMAIN w.lams) + 1
doms(w, l)   == w.lams[l].sig
arg(w, l, i) == proj(Len(doms(w, l)), w.def.ops[2], i)    \* of the App at hand

Remember(w, l, a, r) == [w EXCEPT !.lams = r.lams, !.def = r.body, !.cache = Put(@, <<l, a>>, r.body)]
reduce(w, l, a) == IF <<l, a>> \in DOMAIN w.cache THEN SetDef(w, w.cache[<<l, a>>])
                   ELSE Remember(w, l, a, Reduced(w.lams, l, a))

workable(w) == {l \in apped_lam(w.def) : isa_workable(l)}

-----------------------------------------------------------------------------
(* PartialEval: a call is replaced by the body if the filter says so: always,   *)
(* never, or if the first parameter is known, which %core.pe.known decides.     *)
dep_const(d) == Mentions(d) = {}
filter(w, l) == CASE w.lams[l].filter = "tt" -> TRUE
                  [] w.lams[l].filter = "ff" -> FALSE
                  [] w.lams[l].filter = "known" -> dep_const(arg(w, l, 1))

PartialEval_rewrite(w) ==
    IF \E l \in apped_lam(w.def) : is_set(l) /\ filter(w, l)
    THEN reduce(w, w.def.ops[1].flags, w.def.ops[2]) ELSE w

-----------------------------------------------------------------------------
(* flatten and unflatten: a sigma is opened unless it is nominal or has one     *)
(* element.                                                                     *)
expands(t) == t.node = "sigma" /\ Len(t.ops) # 1

RECURSIVE FlatTypes(_), FlatDefs(_, _), Unflat(_, _, _, _)
FlatTypes(t)   == IF expands(t) THEN FlattenSeq([i \in DOMAIN t.ops |-> FlatTypes(t.ops[i])]) ELSE <<t>>
FlatDefs(t, d) == IF expands(t) THEN FlattenSeq([i \in DOMAIN t.ops |-> FlatDefs(t.ops[i], Extract(i, d))])
                  ELSE <<d>>
Before(ts, i)  == Len(FlattenSeq([k \in 1..(i - 1) |-> FlatTypes(ts[k])]))
Offset_narrow(t, i) == i - 1        \* mutant: what comes before is taken for single defs
Offset(t, i) == Before(t.ops, i)
Unflat(defs, first, t, j) ==     \* from defs[j] on; the first def's type is looked at, not the next one's
    IF (defs # <<>> /\ first = t) \/ ~expands(t) THEN defs[j]
    ELSE tuple([i \in DOMAIN t.ops |-> Unflat(defs, first, t.ops[i], j + Offset(t, i))])

dom(w, l) == IF Len(doms(w, l)) = 1 THEN doms(w, l)[1] ELSE Sig(doms(w, l))

sees_scalar(w, l) == l \in DOMAIN w.sca /\ w.sca[l] = l
should_expand(w, l) == isa_workable(l) /\ ~sees_scalar(w, l) /\ Len(doms(w, l)) > 1 /\ w.lams[l].kind # "D"
stays(w, l) == isa_workable(l) /\ ~sees_scalar(w, l) /\ ~should_expand(w, l)
marked(w, L) == [w EXCEPT !.sca = [l \in {l \in L : stays(w, l)} |-> l] @@ @]

set_scalar(w, l, s) == [w EXCEPT !.lams[s].body = w.def, !.sca = Put(Put(@, s, s), l, s)]
stub(w, s, l, sig) == [w EXCEPT !.lams = Put(@, s, [w.lams[l] EXCEPT !.sig = sig, !.body = Lit])]
scalar_of(w, l, s, types) ==
    set_scalar(reduce(stub(w, s, l, types), l,
                      LET ds == doms(w, l)
                          vs == [j \in DOMAIN types |-> proj(Len(types), Var(s), j)]
                      IN  tuple([i \in DOMAIN ds |->
                                   LET b == Before(ds, i)
                                       n == Len(FlatTypes(ds[i]))
                                   IN  Unflat(SubSeq(vs, b + 1, b + n),
                                              IF n = 0 THEN Val ELSE types[b + 1], ds[i], 1)])), l, s)
make_scalar(w, l) ==
    LET types == FlatTypes(dom(w, l))
    IN  CASE l \in DOMAIN w.sca -> w
          [] l \notin DOMAIN w.sca /\ types = doms(w, l) -> [w EXCEPT !.sca = Put(@, l, l)]
          [] OTHER -> scalar_of(w, l, nom_lam(w), types)

(* The call passes the flattened argument, whose type is the old domain.        *)
call_scalar(w, app, l) ==
    IF w.sca[l] = l THEN SetDef(w, app)
    ELSE SetDef(w, App(Lam(w.sca[l]), tuple(FlatDefs(dom(w, l), app.ops[2]))))
call_either(w, app, ls) ==
    IF \A i \in DOMAIN ls : w.sca[ls[i]] = ls[i] THEN SetDef(w, app)
    ELSE SetDef(w, App(Branch(Tuple([i \in DOMAIN ls |-> Lam(w.sca[ls[i]])]), app.ops[1].ops[2]),
                       tuple(FlatDefs(dom(w, ls[1]), app.ops[2]))))

callees(d) == IF d.node = "app" /\ d.ops[1].node = "branch" /\ d.ops[1].ops[1].node = "tuple"
                 /\ \A i \in DOMAIN d.ops[1].ops[1].ops : isa_lam(d.ops[1].ops[1].ops[i])
              THEN [i \in DOMAIN d.ops[1].ops[1].ops |-> d.ops[1].ops[1].ops[i].flags] ELSE <<>>

Scalerize_rewrite(w) ==
    LET l  == w.def.ops[1].flags
        ls == callees(w.def)
    IN  CASE workable(w) # {} /\ should_expand(w, l) -> call_scalar(make_scalar(w, l), w.def, l)
          [] workable(w) # {} /\ ~should_expand(w, l) -> marked(w, {l})
          [] ls # <<>> /\ (\A i \in DOMAIN ls : should_expand(w, ls[i])) ->
                call_either(FoldLeft(make_scalar, w, ls), w.def, ls)
          [] OTHER -> marked(w, ToSet(ls))

-----------------------------------------------------------------------------
(* LamSpec: parameters that are continuations are replaced by the arguments of   *)
(* the call, but for the return continuation of a top-level function.            *)
free_defs(w, l) == Mentions(w.lams[l].body) \cup UNION {Mentions(w.lams[b].body) : b \in bound(w.lams, l)}

(* is_top_level: nothing around it is needed, be it by way of other nominals.    *)
is_top_level(w, l) == l \in External \/ \A v \in DOMAIN w.lams \ {l} : l \notin BoundFrom(w.lams, v, {})

skip(w, l) == Len(doms(w, l)) > 0 /\ doms(w, l)[Len(doms(w, l))] = Cont /\ is_top_level(w, l)
specialized(w, l) == {i \in DOMAIN doms(w, l) : doms(w, l)[i] = Cont /\ ~(skip(w, l) /\ i = Len(doms(w, l)))}

kept_doms(w, l, S) == SetToSortSeq(DOMAIN doms(w, l) \ S, <)
specialize(w, l, s, keep, app) ==
    [reduce(stub(w, s, l, [j \in DOMAIN keep |-> doms(w, l)[keep[j]]]), l,
            tuple([i \in DOMAIN doms(w, l) |->
                     IF \E j \in DOMAIN keep : keep[j] = i
                     THEN proj(Len(keep), Var(s), CHOOSE j \in DOMAIN keep : keep[j] = i) ELSE arg(w, l, i)]))
     EXCEPT !.spec = Put(@, app, App(Lam(s), tuple([j \in DOMAIN keep |-> arg(w, l, keep[j])])))]
set_spec(w, s, app) == [w EXCEPT !.lams[s].body = w.def, !.def = w.spec[app]]

LamSpec_rewrite(w) ==
    LET l == w.def.ops[1].flags
    IN  CASE w.def \in DOMAIN w.spec -> SetDef(w, w.spec[w.def])
          [] w.def \notin DOMAIN w.spec /\ workable(w) # {} ->
                IF l \in free_defs(w, l) \/ specialized(w, l) = {} THEN w
                ELSE set_spec(specialize(w, l, nom_lam(w), kept_doms(w, l, specialized(w, l)), w.def), nom_lam(w), w.def)
          [] OTHER -> w

-----------------------------------------------------------------------------
(* RetWrap: on entering a function its return continuation gets a wrapper.       *)
has_ret(w, l) == is_set(l) /\ doms(w, l) # <<>> /\ doms(w, l)[Len(doms(w, l))] = Cont
wrap(w, l, c, n) ==
    reduce([w EXCEPT !.lams = Put(@, c, [kind |-> "K", sig |-> <<Val>>, filter |-> "ff",
                                         body |-> App(proj(n, Var(l), n), Var(c))])], l,
           tuple([i \in 1..n |-> IF i = n THEN Lam(c) ELSE proj(n, Var(l), i)]))
set_body(w, l) == [w EXCEPT !.lams[l].body = w.def]
RetWrap_enter(w, l) == IF has_ret(w, l) THEN set_body(wrap(w, l, nom_lam(w), Len(doms(w, l))), l) ELSE w

-----------------------------------------------------------------------------
(* PassMan with one pass and no fixed point.                                     *)
Hook(p, w) == CASE p = "partial_eval" -> PartialEval_rewrite(w)
                [] p = "scalerize"    -> Scalerize_rewrite(w)
                [] p = "lam_spec"     -> LamSpec_rewrite(w)
                [] OTHER              -> w

map(w, d) == [w EXCEPT !.memo = IF w.def \in DOMAIN @ THEN Put(@, d, w.def) ELSE Put(Put(@, d, w.def), w.def, w.def)]

RECURSIVE rewrite(_, _, _), rewrite_ops(_, _, _, _, _), next_op(_, _, _, _, _), settle(_, _, _, _)
rewrite_ops(p, w, d, i, new) == IF i > Len(d.ops) THEN SetDef(w, rebuild(d, new))
                                ELSE next_op(p, rewrite(p, w, d.ops[i]), d, i, new)
next_op(p, w, d, i, new) == rewrite_ops(p, w, d, i + 1, Append(new, w.def))
settle(p, w, new, d) == map(IF w.def # new THEN rewrite(p, w, w.def) ELSE w, d)
rewrite(p, w, d) ==
    CASE dep_none(d) \/ isa_lam(d) -> SetDef(w, d)
      [] d \in DOMAIN w.memo -> IF w.memo[d] = d THEN SetDef(w, d) ELSE map(rewrite(p, w, w.memo[d]), d)
      [] OTHER -> LET u == rewrite_ops(p, w, d, 1, <<>>)
                  IN  IF u.def.node = "app" THEN settle(p, Hook(p, u), u.def, d) ELSE map(u, d)

Rewritten(p, n) ==
    LET w == IF p = "ret_wrap" THEN RetWrap_enter(Work, n) ELSE Work
    IN  set_body(rewrite(p, w, w.lams[n].body), n)

-----------------------------------------------------------------------------
Init ==
    /\ lams \in Programs /\ old = lams
    /\ phase = 1 /\ todo = {Main} /\ seen = {Main}
    /\ memo = <<>> /\ cache = <<>> /\ spec = <<>> /\ tup2sca = <<>>

Visit ==
    /\ phase <= Len(Phases)
    /\ \E n \in todo :
          \E w \in {IF is_set(n) THEN Rewritten(Phases[phase], n) ELSE Work} :
             /\ lams' = w.lams /\ memo' = w.memo /\ cache' = w.cache
             /\ spec' = w.spec /\ tup2sca' = w.sca
             /\ \E found \in {IF is_set(n) THEN Mentions(w.lams[n].body) ELSE {}} :
                   /\ seen' = seen \cup found
                   /\ todo' = (todo \cup (found \ seen)) \ {n}
    /\ UNCHANGED <<phase, old>>

(* The next phase is a new PassMan; the World's cache stays.                      *)
NextPhase ==
    /\ phase <= Len(Phases) /\ todo = {}
    /\ phase' = phase + 1
    /\ todo' = {Main} /\ seen' = {Main} /\ memo' = <<>>
    /\ UNCHANGED <<lams, cache, spec, tup2sca, old>>

Next == Visit \/ NextPhase
Spec == Init /\ [][Next]_vars

-----------------------------------------------------------------------------
After(p) == \E i \in DOMAIN Phases : Phases[i] = p /\ phase > i
Live     == {l \in Reach(lams, {Main}) : is_set(l)}
Calls    == UNION {{d \in Defs(lams[l].body) : apped_lam(d) # {}} : l \in Live}

(* Between two visits the program still does what it did at first.                *)
Preserved == \A x \in 0..1 : Meaning(lams, Main, x, Fuel) = Meaning(old, Main, x, Fuel)

(* When PartialEval is done no call is left that its filter wants to be evaluated.  *)
Evaluated == After("partial_eval") /\ Phases[phase - 1] = "partial_eval" /\ todo = {Main} =>
    \A d \in Calls : is_set(d.ops[1].flags) => ~filter(SetDef(Work, d), d.ops[1].flags)

(* After Scalerize a Lam that is called directly has no parameter to be opened.     *)
FlatCalls == After("scalerize") =>
    \A d \in Calls : isa_workable(d.ops[1].flags) =>
        \A i \in DOMAIN lams[d.ops[1].flags].sig : ~expands(lams[d.ops[1].flags].sig[i])

(* After RetWrap a return continuation is only called, never passed, so that the     *)
(* emitter finds a Lam in the last argument of each call.  (ll.cpp, emit_epilogue)    *)
RetOnlyCalled == After("ret_wrap") =>
    \A l \in {l \in Live : has_ret(Work, l)} :
        LET r == proj(Len(lams[l].sig), Var(l), Len(lams[l].sig))
        IN  \A k \in Live : \A d \in Defs(lams[k].body) :
               \A i \in DOMAIN d.ops : d.ops[i] = r => d.node = "app" /\ i = 1

(* "Skip recursion to avoid infinite inlining": a call of a Lam that does not call   *)
(* itself passes no continuation but the return continuation.  (lam_spec.cpp)         *)
FirstOrder == After("lam_spec") =>
    \A d \in Calls : LET l == d.ops[1].flags IN
        isa_workable(l) /\ l \notin Refs(lams[l].body) => specialized(Work, l) = {}
=============================================================================
