------------------------------- MODULE Direct -------------------------------
(***************************************************************************)
(* The phases of dialect direct: DS2CPS gives each direct function that is  *)
(* called a twin in continuation-passing style and wraps it by the axiom    *)
(* cps2ds; CPS2DS turns each call of the axiom into a jump to the twin with *)
(* a new continuation, which gets what is left of the body.  A step visits  *)
(* one nominal; the manager's stack is a set here, so that any order is     *)
(* covered.                                                                 *)
(***************************************************************************)
EXTENDS Lambda

CONSTANTS
    Programs,   \* the programs to start from, as functions from Lams
    Main,       \* the external Lam
    Fuel        \* bound: jumps of the programs that are run to compare them

VARIABLES
    lams,       \* the nominals
    phase,      \* "ds2cps", "cps2ds", "done"
    todo, seen, \* PassMan: nominals found, nominals found ever
    twin,       \* DS2CPS::rewritten_
    memo, rewritten_lams,   \* CPS2DS::rewritten_, CPS2DS::rewritten_lams
    old         \* the program it was started with

vars == <<lams, phase, todo, seen, twin, memo, rewritten_lams, old>>

-----------------------------------------------------------------------------
Work == [lams |-> lams, twin |-> twin, memo |-> memo, done |-> rewritten_lams,
         curr |-> 0, def |-> Lit]
SetDef(w, d) == [w EXCEPT !.def = d]
Put(f, x, y) == (x :> y) @@ f
nom_lam(w)   == Cardinality(DOMAIN w.lams) + 1

cps2ds_dep(l) == Def("cps2ds", 0, <<Lam(l)>>)
is_call(d)    == d.node = "app" /\ d.ops[1].node = "cps2ds"

(* DS2CPS: the twin returns what the function, with the twin's first Var for   *)
(* its own, computes.  rewriting copies what is bound in the function.         *)
to_twin_bare(w, l, c, r) ==         \* mutant: the twin keeps the Var of the function
    [w EXCEPT !.lams = [r.lams EXCEPT ![c].body = App(ret_var(c), w.lams[l].body)], !.twin = Put(@, l, c)]
to_twin(w, l, c, r) ==
    [w EXCEPT !.lams = [r.lams EXCEPT ![c].body = App(ret_var(c), r.body)], !.twin = Put(@, l, c)]
make_twin(w, l, c) ==
    to_twin(w, l, c, Reduced(Put(w.lams, c, [kind |-> "F", body |-> Lit]), l, var(c, 1)))
DS2CPS_rewrite_lam(w, l) == IF l \in DOMAIN w.twin THEN w ELSE make_twin(w, l, nom_lam(w))

DS2CPS_rewrite(w) ==
    IF \E l \in apped_lam(w.def) : w.lams[l].kind = "D"
    THEN LET u == DS2CPS_rewrite_lam(w, w.def.ops[1].flags)
         IN  SetDef(u, App(cps2ds_dep(u.twin[w.def.ops[1].flags]), w.def.ops[2]))
    ELSE w

(* PassMan::rewrite with this one pass.                                        *)
RECURSIVE Visit(_, _), VisitOps(_, _, _, _), NextOp(_, _, _, _)
VisitOps(w, d, i, new) == IF i > Len(d.ops) THEN DS2CPS_rewrite(SetDef(w, rebuild(d, new)))
                          ELSE NextOp(Visit(w, d.ops[i]), d, i, new)
NextOp(w, d, i, new)   == VisitOps(w, d, i + 1, Append(new, w.def))
Visit(w, d)            == IF isa_lam(d) THEN SetDef(w, d) ELSE VisitOps(w, d, 1, <<>>)

-----------------------------------------------------------------------------
(* CPS2DS: the call ends the current Lam; its result is the Var of the new one. *)
cps_call(w, arg, c) ==
    SetDef([w EXCEPT !.lams = Put([@ EXCEPT ![w.curr].body = App(w.def.ops[1], Tuple(<<arg, Lam(c)>>))],
                                  c, [kind |-> "K", body |-> Lit]),
                     !.done = @ \cup {c}, !.curr = c], Var(c))

cps_app(w, callee) == IF callee.node = "cps2ds" THEN cps_call(SetDef(w, callee), w.def, nom_lam(w))
                      ELSE SetDef(w, App(callee, w.def))

Leave(w, curr) == [w EXCEPT !.lams[w.curr].body = w.def, !.curr = curr]

RECURSIVE rewrite_body(_, _), rewrite_ops(_, _, _, _), then_op(_, _, _, _), rewrite_lam(_, _), rewrite_arg(_, _)
rewrite_lam(w, l) ==
    IF l \in w.done \/ ~is_set(l) THEN [w EXCEPT !.done = @ \cup {l}]
    ELSE Leave(rewrite_body([w EXCEPT !.done = @ \cup {l}, !.curr = l], w.lams[l].body), w.curr)

rewrite_arg(w, arg) == cps_app(rewrite_body(w, arg), w.def)     \* the callee is w.def

rewrite_ops(w, d, i, new) == IF i > Len(d.ops) THEN SetDef(w, rebuild(d, new))
                             ELSE then_op(rewrite_body(w, d.ops[i]), d, i, new)
then_op(w, d, i, new)     == rewrite_ops(w, d, i + 1, Append(new, w.def))

Remember(w, d) == [w EXCEPT !.memo = Put(@, d, w.def)]
rewrite_body(w, d) ==
    IF d \in DOMAIN w.memo THEN SetDef(w, w.memo[d])
    ELSE Remember(CASE d.node = "app" -> rewrite_arg(rewrite_body(w, d.ops[1]), d.ops[2])
                    [] isa_lam(d)     -> SetDef(rewrite_lam(w, d.flags), d)
                    [] OTHER          -> rewrite_ops(w, d, 1, <<>>), d)

-----------------------------------------------------------------------------
Init ==
    /\ lams \in Programs /\ old = lams
    /\ phase = "ds2cps" /\ todo = {Main} /\ seen = {Main}
    /\ twin = <<>> /\ memo = <<>> /\ rewritten_lams = {}

(* Analysis finds the Lams a visited body mentions.                            *)
Found(body, n) == /\ seen' = seen \cup Mentions(body)
                  /\ todo' = (todo \cup (Mentions(body) \ seen)) \ {n}

DS2CPS ==
    /\ phase = "ds2cps"
    /\ \E n \in todo :
          \E w \in {IF is_set(n) THEN Visit(Work, lams[n].body) ELSE Work} :
             /\ lams' = IF is_set(n) THEN [w.lams EXCEPT ![n].body = w.def] ELSE w.lams
             /\ twin' = w.twin
             /\ Found(IF is_set(n) THEN w.def ELSE Lit, n)
    /\ UNCHANGED <<phase, memo, rewritten_lams, old>>

CPS2DS ==
    /\ phase = "cps2ds"
    /\ \E n \in todo :
          \E w \in {rewrite_lam(Work, n)} :
             /\ lams' = w.lams
             /\ memo' = w.memo
             /\ rewritten_lams' = w.done
             /\ Found(IF is_set(n) THEN w.lams[n].body ELSE Lit, n)
    /\ UNCHANGED <<phase, twin, old>>

NextPhase ==
    /\ todo = {} /\ phase # "done"
    /\ phase' = IF phase = "ds2cps" THEN "cps2ds" ELSE "done"
    /\ todo' = {Main} /\ seen' = {Main}
    /\ UNCHANGED <<lams, twin, memo, rewritten_lams, old>>

Next == DS2CPS \/ CPS2DS \/ NextPhase
Spec == Init /\ [][Next]_vars

-----------------------------------------------------------------------------
(* The program jumps to the same continuation with the same value as before,   *)
(* for each argument.  (direct.thorin: only the call site is changed)          *)
Preserved == phase = "done" =>
    \A x \in 0..1 : Meaning(lams, Main, x, Fuel) = Meaning(old, Main, x, Fuel)

(* The main function stays closed: what was split off is only used below the    *)
(* call that delivers it.                                                      *)
StaysClosed == Closed(lams, Main)

(* In the end no body that is reached calls a direct function or the axiom, in   *)
(* whatever order the nominals were visited.                                   *)
NoDirectCall == phase = "done" =>
    \A l \in {l \in Reach(lams, {Main}) : is_set(l)} : \A d \in Defs(lams[l].body) :
        ~is_call(d) /\ \A k \in apped_lam(d) : lams[k].kind # "D"
=============================================================================
