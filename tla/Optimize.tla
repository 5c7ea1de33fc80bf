------------------------------ MODULE Optimize ------------------------------
(***************************************************************************)
(* The pass manager with the passes BetaRed, EtaRed, EtaExp and TailRecElim *)
(* (the pass list of dialects/compile/compile.thorin), SSAConstr and         *)
(* CopyProp (that of dialects/mem/mem.thorin), on programs of module Lambda. *)
(* One step rewrites a nominal with all passes, the next one analyzes it and *)
(* backtracks if a pass asks for it.                                        *)
(***************************************************************************)
EXTENDS Lambda
LOCAL INSTANCE SequencesExt

CONSTANTS
    Setups,     \* what to start from: lams, a function from Lams, and passes, the
                \* passes in the order they were added
    MaxNest,    \* bound: rewrites of the result of a rewrite, nested
    MaxTurns,   \* bound: turns of the loop
    Fuel        \* bound: jumps of the programs that are run to compare them

VARIABLES
    lams,       \* the nominals: their kind and their body
    states,     \* the deque PassMan::states_
    know,       \* what the passes and the World remember in spite of undos
    pc,         \* where run() stands
    turns,      \* how often it went through its loop
    setup       \* the program and the passes it was started with

vars == <<lams, states, know, pc, turns, setup>>

Passes == setup.passes
old    == setup.lams

-----------------------------------------------------------------------------
(* What the passes of the pass manager have in common: the record they work on,  *)
(* the undo points, and Def::reduce.                                           *)
No_Undo == -1
Earlier(u, v) == IF u = No_Undo \/ (v # No_Undo /\ v < u) THEN v ELSE u

Put(f, x, y) == (x :> y) @@ f                      \* operator[] = y
Emplace(f, x, y) == IF x \in DOMAIN f THEN f ELSE (x :> y) @@ f

top(w)        == w.states[Len(w.states)]
SetTop(w, s)  == [w EXCEPT !.states[Len(w.states)] = s]
curr_undo(w)  == Len(w.states) - 1
SetDef(w, d)  == [w EXCEPT !.def = d]
AskUndo(w, u) == [w EXCEPT !.undo = Earlier(@, u)]

undo_visit(w, l) == IF l \in DOMAIN top(w).nom2visit THEN top(w).nom2visit[l] ELSE No_Undo

is_proxy(d) == d.node \in {"proxy", "varxy", "appxy", "sloxy", "phixy", "traxy", "etaxy"}

(* Def::reduce with its cache.                                                *)
Remember(w, l, arg, r) ==
    [w EXCEPT !.lams = r.lams, !.def = r.body, !.know.cache = Put(@, <<l, arg>>, r.body)]

reduce(w, l, arg) ==
    IF <<l, arg>> \in DOMAIN w.know.cache THEN SetDef(w, w.know.cache[<<l, arg>>])
    ELSE Remember(w, l, arg, Reduced(w.lams, l, arg))

(* Def::stub: a new Lam, which gets a body at once.                           *)
NewLam(w) == Cardinality(DOMAIN w.lams) + 1

(* What the hooks work on: the nominals, the deque, the knowledge, the def at  *)
(* hand, the undo that was asked for, whether a proxy was met, and whether the *)
(* recursion of rewrite() has used up the stack.                               *)
Work == [lams |-> lams, states |-> states, know |-> know,
         def |-> Lit, undo |-> No_Undo, proxy |-> FALSE, overflow |-> FALSE]

-----------------------------------------------------------------------------
(* SSAConstr of the mem dialect: slots become values that are passed on as   *)
(* parameters.  A sloxy stands for the address of a slot, a phixy for the     *)
(* parameter of a Lam that it turns out to need, and a traxy, in the body of   *)
(* the copy that has these parameters, says which slot each one is for.        *)
Bot             == Def("lit", 1, <<>>)
remem(mem)      == Def("remem", 0, <<mem>>)
sloxy_of(l, id) == Def("sloxy", id, <<Lam(l)>>)
phixy_of(s, l)  == Def("phixy", 0, <<s, Lam(l)>>)
eta_proxy(l)    == Def("etaxy", 0, <<Lam(l)>>)
is_basicblock(w, l) == w.lams[l].kind # "F"
num_vars(w, l)  == w.lams[l].n
curr_nom(w)     == top(w).curr_nom

no_values == [val |-> <<>>, phis |-> <<>>, mem2phi |-> <<>>, keep |-> {}]
at(f, x, none)     == IF x \in DOMAIN f THEN f[x] ELSE none
ssa_data(w, l)     == at(top(w).ssa, l, [pred |-> 0, writable |-> {}])
set_data(w, l, I)  == SetTop(w, [top(w) EXCEPT !.ssa = Put(@, l, I)])
writable(w)        == ssa_data(w, curr_nom(w)).writable

SSA_enter(w, l) == [w EXCEPT !.know.ssa.val = Put(@, l, <<>>)]

set_val(w, l, s, v) == [w EXCEPT !.know.ssa.val = Put(@, l, Put(at(@, l, <<>>), s, v))]

RECURSIVE get_val(_, _, _)
get_val(w, l, s) ==
    LET known == at(w.know.ssa.val, l, <<>>)
    IN  CASE s \in DOMAIN known -> SetDef(w, known[s])
          [] s \notin DOMAIN known /\ l \in External -> SetDef(w, s)
          [] s \notin DOMAIN known /\ l \notin External /\ ssa_data(w, l).pred # 0 -> get_val(w, ssa_data(w, l).pred, s)
          [] OTHER -> SetDef(set_val(w, l, s, phixy_of(s, l)), phixy_of(s, l))

-----------------------------------------------------------------------------
(* The slots that a Lam needs a parameter for, in the order of their sloxys.      *)
phis_of(w, l) == SetToSortSeq(at(w.know.ssa.phis, l, {}) \ w.know.ssa.keep, LAMBDA s, t : s.flags < t.flags)
drop_kept(w, l) == [w EXCEPT !.know.ssa.phis = Put(@, l, at(@, l, {}) \ w.know.ssa.keep)]

traxy(k, n, phis) ==
    Def("traxy", 0, <<Var(k)>> \o FlattenSeq([i \in DOMAIN phis |-> <<phis[i], Extract(n + i, Var(k))>>]))
set_phi_lam(w, l, k, phis) ==
    [w EXCEPT !.lams[k].body = w.def, !.know.new2old = Put(@, k, l),
              !.know.ssa.mem2phi = Put(@, l, [lam |-> k, phis |-> phis])]
new_phi_lam(w, l, k, phis) ==
    LET n == num_vars(w, l)
        t == traxy(k, n, phis)
        u == [w EXCEPT !.lams = Put(@, k, [kind |-> w.lams[l].kind, n |-> n + Len(phis), body |-> Lit])]
    IN  set_phi_lam(reduce(u, l, IF n = 1 THEN Extract(1, t) ELSE Args([i \in 1..n |-> Extract(i, t)])), l, k, phis)
phi_lam(w, l, phis) ==
    IF l \in DOMAIN w.know.ssa.mem2phi /\ w.know.ssa.mem2phi[l].phis = phis THEN w
    ELSE new_phi_lam(w, l, NewLam(w), phis)

args_of_app(w, d, l) == IF num_vars(w, l) = 1 THEN <<d.ops[2]>> ELSE [i \in 1..num_vars(w, l) |-> Extract(i, d.ops[2])]
RECURSIVE call_phi_lam(_, _, _, _)
call_phi_lam(w, l, phis, args) ==
    IF phis = <<>> THEN SetDef(w, App(Lam(w.know.ssa.mem2phi[l].lam), Args(args)))
    ELSE LET u == get_val(w, curr_nom(w), Head(phis)) IN call_phi_lam(u, l, Tail(phis), Append(args, u.def))

mem2phi(w, d, l) ==
    LET phis == phis_of(w, l)
    IN  IF phis = <<>> THEN drop_kept(w, l)
        ELSE call_phi_lam(phi_lam(drop_kept(w, l), l, phis), l, phis, args_of_app(w, d, l))

-----------------------------------------------------------------------------
(* A slot that is kept stays; a Lam that exists in a copy with more parameters      *)
(* must not be used but by calls.                                                  *)
SSA_slot(w, d) ==
    LET s == sloxy_of(curr_nom(w), d.flags)
        I == ssa_data(w, curr_nom(w))
    IN  IF s \in w.know.ssa.keep THEN w
        ELSE SetDef(set_data(set_val(w, curr_nom(w), s, Bot), curr_nom(w), [I EXCEPT !.writable = @ \cup {s}]),
                    Args(<<d.ops[1], s>>))
SSA_load(w, d) ==
    IF d.ops[2].node # "sloxy" THEN w
    ELSE LET u == get_val(w, curr_nom(w), d.ops[2]) IN SetDef(u, Args(<<d.ops[1], u.def>>))
SSA_store(w, d) ==
    IF d.ops[2] \notin writable(w) THEN w
    ELSE SetDef(set_val(w, curr_nom(w), d.ops[2], d.ops[3]), remem(d.ops[1]))
copied(w, d) == {i \in DOMAIN d.ops : /\ isa_lam(d.ops[i]) /\ isa_workable(d.ops[i].flags)
                                      /\ d.ops[i].flags \in DOMAIN w.know.ssa.mem2phi}
SSA_use(w, d) ==
    IF copied(w, d) = {} THEN w
    ELSE LET i == CHOOSE i \in copied(w, d) : \A j \in copied(w, d) : i <= j
         IN  SetDef(w, rebuild(d, [d.ops EXCEPT ![i] = eta_proxy(d.ops[i].flags)]))

SSA_rewrite(w) ==
    LET d == w.def
        L == {l \in apped_lam(d) : isa_workable(l)}
    IN  CASE d.node = "slot"  -> SSA_slot(w, d)
          [] d.node = "load"  -> SSA_load(w, d)
          [] d.node = "store" -> SSA_store(w, d)
          [] d.node \notin {"slot", "load", "store"} /\ L # {} -> mem2phi(w, d, d.ops[1].flags)
          [] OTHER -> SSA_use(w, d)

RECURSIVE set_vals(_, _, _)
set_vals(w, d, i) == IF i > Len(d.ops) THEN SetDef(w, d.ops[1])
                     ELSE set_vals(set_val(w, curr_nom(w), d.ops[i], d.ops[i + 1]), d, i + 2)
SSA_rewrite_proxy(w) == IF w.def.node = "traxy" THEN set_vals(w, w.def, 2) ELSE w

-----------------------------------------------------------------------------
undo_enter(w, l) == LET S == {i \in DOMAIN w.states : w.states[i].curr_nom = l}
                    IN  IF S = {} THEN No_Undo ELSE (CHOOSE i \in S : \A j \in S : j <= i) - 1

SSA_analyze_phixy_stay(w, p) ==         \* mutant: learns, but does not go back
    [w EXCEPT !.know.ssa.phis = Put(@, p.ops[2].flags, at(@, p.ops[2].flags, {}) \cup {p.ops[1]})]
SSA_analyze_phixy(w, p) ==
    LET l == p.ops[2].flags
        S == at(w.know.ssa.phis, l, {})
    IN  IF p.ops[1] \in S THEN w
        ELSE AskUndo([w EXCEPT !.know.ssa.phis = Put(@, l, S \cup {p.ops[1]})], undo_visit(w, l))
(* A slot that is kept already is taken for a phixy, which a debug build asserts it is. *)
SSA_analyze_sloxy(w, s) ==
    IF s \in w.know.ssa.keep THEN SSA_analyze_phixy(w, s)
    ELSE AskUndo([w EXCEPT !.know.ssa.keep = @ \cup {s}], undo_enter(w, s.ops[1].flags))

(* What may be written in a basic block, and where a Lam that is used once, but      *)
(* not called, comes from: there is no telling if there are two such uses.           *)
SSA_analyze_op_here(w, l, callee) ==    \* mutant: slots may be written where they are made only
    IF callee \/ ~isa_workable(l) THEN w
    ELSE set_data(w, l, [ssa_data(w, l) EXCEPT !.pred = IF @ # 0 THEN 0 ELSE curr_nom(w)])
SSA_analyze_op(w, l, callee) ==
    LET c == curr_nom(w)
        I == ssa_data(w, l)
    IN  IF ~isa_workable(l) THEN w
        ELSE set_data(w, l, [writable |-> IF is_basicblock(w, l) /\ l # c THEN I.writable \cup writable(w) ELSE I.writable,
                             pred     |-> IF callee THEN I.pred ELSE IF I.pred # 0 THEN 0 ELSE c])

RECURSIVE SSA_analyze(_, _, _)
SSA_analyze(w, d, i) ==
    IF i > Len(d.ops) THEN w
    ELSE SSA_analyze(IF isa_lam(d.ops[i]) THEN SSA_analyze_op(w, d.ops[i].flags, d.node = "app" /\ i = 1) ELSE w, d, i + 1)

-----------------------------------------------------------------------------
(* BetaRed: a Lam that is called is inlined if no state has inlined it yet;   *)
(* a second call becomes a proxy.                                             *)
inlinable(w) == {l \in apped_lam(w.def) : isa_workable(l) /\ l \notin w.know.keep}


BetaRed_rewrite(w) ==
    IF inlinable(w) = {} THEN w
    ELSE LET l == CHOOSE l \in inlinable(w) : TRUE
         IN  IF l \in top(w).inlined THEN SetDef(w, Proxy(Lam(l), w.def.ops[2]))
             ELSE reduce(SetTop(w, [top(w) EXCEPT !.inlined = @ \cup {l}, !.copied = @ \cup {l}]),
                         l, w.def.ops[2])


BetaRed_analyze_proxy(w, l) ==
    IF l \in w.know.keep THEN w
    ELSE AskUndo([w EXCEPT !.know.keep = @ \cup {l}], undo_visit(w, l))


BetaRed_analyze_op(w, l) ==
    IF ~isa_workable(l) \/ l \in w.know.keep THEN w
    ELSE AskUndo(SetTop([w EXCEPT !.know.keep = @ \cup {l}], [top(w) EXCEPT !.inlined = @ \cup {l}]),
                 IF l \in top(w).inlined THEN undo_visit(w, l) ELSE No_Undo)

RECURSIVE BetaRed_analyze(_, _, _)
BetaRed_analyze(w, d, i) ==
    IF i > Len(d.ops) THEN w
    ELSE BetaRed_analyze(IF isa_lam(d.ops[i]) THEN BetaRed_analyze_op(w, d.ops[i].flags) ELSE w,
                         d, i + 1)

-----------------------------------------------------------------------------
(* EtaRed: the first operand that is lam x. e x is replaced by e.             *)
is_var(d) == d.node = "var" \/ (d.node = "extract" /\ d.ops[1].node = "var")

eta_rule(w, l) ==
    LET body == w.lams[l].body
    IN  body.node = "app" /\ body.ops[2] = Var(l) /\ (is_var(body.ops[1]) \/ isa_lam(body.ops[1]))

EtaRed_rewrite(w) ==
    LET ops == w.def.ops
        S   == {i \in 1..Len(ops) :
                  isa_lam(ops[i]) /\ is_set(ops[i].flags) /\
                  eta_rule(w, ops[i].flags) /\ ops[i].flags \notin w.know.irreducible}
    IN  IF S = {} THEN w
        ELSE LET i == CHOOSE i \in S : \A j \in S : i <= j
                 l == ops[i].flags
             IN  SetDef(SetTop(w, [top(w) EXCEPT !.reduced = @ \cup {l}]),
                        rebuild(w.def, [ops EXCEPT ![i] = w.lams[l].body.ops[1]]))

EtaRed_analyze_var(w, l) ==
    AskUndo([w EXCEPT !.know.irreducible = @ \cup {l}],
            IF l \in top(w).reduced \ w.know.irreducible THEN undo_visit(w, l) ELSE No_Undo)

-----------------------------------------------------------------------------
(* EtaExp: a Lam to expand gets a wrapper for each place where it is not       *)
(* called; a wrapper that is called is its Lam again.                         *)
eta_exp(w, d, i, l) ==
    LET x == NewLam(w)
    IN  [w EXCEPT !.lams = Put(@, x, [w.lams[l] EXCEPT !.body = App(Lam(l), Var(x))]),
                  !.know.exp2orig = Put(@, x, l),
                  !.know.irreducible = @ \cup {x},
                  !.know.def2new_ops[d][i] = Lam(x)]

EtaExp_op(w, d, i, l) ==
    LET e2o  == w.know.exp2orig
        base == IF l \in w.know.expand THEN {l} ELSE IF l \in DOMAIN e2o THEN {e2o[l]} ELSE {}
    IN  IF ~is_set(l) THEN w
        ELSE IF d.node = "app" /\ i = 1
        THEN IF l \in DOMAIN e2o THEN [w EXCEPT !.know.def2new_ops[d][i] = Lam(e2o[l])] ELSE w
        ELSE IF base # {} /\ w.know.def2new_ops[d][i] = Lam(l)
        THEN eta_exp(w, d, i, CHOOSE b \in base : TRUE)
        ELSE w

RECURSIVE EtaExp_ops(_, _, _)
EtaExp_ops(w, d, i) ==
    IF i > Len(d.ops) THEN w
    ELSE EtaExp_ops(IF isa_lam(d.ops[i]) THEN EtaExp_op(w, d, i, d.ops[i].flags) ELSE w, d, i + 1)

EtaExp_new(w, new) == SetDef(SetTop(w, [top(w) EXCEPT !.exp_done = @ \cup {new}]), new)
EtaExp_rebuild(w)  == EtaExp_new(w, rebuild(w.def, w.know.def2new_ops[w.def]))

EtaExp_rewrite(w) ==
    IF (\A i \in 1..Len(w.def.ops) : ~isa_lam(w.def.ops[i])) \/ w.def \in top(w).exp_done THEN w
    ELSE EtaExp_rebuild(EtaExp_ops([w EXCEPT !.know.def2new_ops = Emplace(@, w.def, w.def.ops)],
                                   w.def, 1))

EtaExp_analyze_proxy(w, l) ==
    IF l \in w.know.expand THEN w ELSE AskUndo([w EXCEPT !.know.expand = @ \cup {l}], undo_visit(w, l))

pos_clash_callee(pos, l, callee) ==     \* mutant: calls do not count
    ~callee /\ l \in DOMAIN pos /\ pos[l] = "Non_Callee_1"

(* Not one of: calls only, or one other use only.                             *)
pos_clash(pos, l, callee) == l \in DOMAIN pos /\ (callee => pos[l] = "Non_Callee_1")

EtaExp_analyze_root(w, l, callee) ==
    IF ~is_set(l) \/ l \in w.know.expand \cup DOMAIN w.know.exp2orig THEN w
    ELSE IF pos_clash(top(w).pos, l, callee)
    THEN AskUndo([w EXCEPT !.know.expand = @ \cup {l}], undo_visit(w, l))
    ELSE SetTop(w, [top(w) EXCEPT !.pos =
                        Emplace(@, l, IF callee THEN "Callee" ELSE "Non_Callee_1")])

(* new2old: a copy that another pass has made counts as its original.         *)
RECURSIVE root(_, _)
root(w, l) == IF l \in DOMAIN w.know.new2old THEN root(w, w.know.new2old[l]) ELSE l
EtaExp_analyze_op(w, l, callee) == IF is_set(l) THEN EtaExp_analyze_root(w, root(w, l), callee) ELSE w

RECURSIVE EtaExp_analyze(_, _, _)
EtaExp_analyze(w, d, i) ==
    IF i > Len(d.ops) THEN w
    ELSE EtaExp_analyze(IF isa_lam(d.ops[i])
                        THEN EtaExp_analyze_op(w, d.ops[i].flags, d.node = "app" /\ i = 1) ELSE w,
                        d, i + 1)

-----------------------------------------------------------------------------
(* TailRecElim: a function that calls itself with its own return continuation *)
(* is split into rec, which sets up the loop, and loop.                       *)
known(w) == apped_lam(w.def) \cap DOMAIN w.know.rec_loop


TailRec_rewrite(w) ==
    IF known(w) = {} THEN w
    ELSE LET rl  == w.know.rec_loop[CHOOSE l \in known(w) : TRUE]
             arg == w.def.ops[2]
         IN  SetDef(w, IF Extract(2, arg) = ret_var(rl.rec)
                       THEN App(Lam(rl.loop), Extract(1, arg)) ELSE App(Lam(rl.rec), arg))

(* The body of l becomes that of loop, by way of Def::reduce.                 *)
TailRec_set(w, l, rec, loop) ==
    [w EXCEPT !.lams[loop].body = w.def,
              !.know.rec_loop = Put(@, l, [rec |-> rec, loop |-> loop]),
              !.know.irreducible = @ \cup {loop}]

TailRec_split(w, l, rec, loop) ==
    TailRec_set(
        reduce([w EXCEPT !.lams =
                   Put(Put(@, rec, [kind |-> "F", body |-> App(Lam(loop), var(rec, 1))]),
                       loop, [kind |-> "K", body |-> Lit])],
               l, Tuple(<<Var(loop), ret_var(rec)>>)),
        l, rec, loop)

tail_calls(w, d) == {l \in apped_lam(d) \ DOMAIN w.know.rec_loop :
                        w.lams[l].kind = "F" /\ Extract(2, d.ops[2]) = ret_var(l)}

TailRec_analyze_stay(w, d) ==       \* mutant: splits, but does not go back
    IF tail_calls(w, d) = {} THEN w
    ELSE TailRec_split(w, CHOOSE l \in tail_calls(w, d) : TRUE, NewLam(w), NewLam(w) + 1)

TailRec_analyze(w, d) ==
    IF tail_calls(w, d) = {} THEN w
    ELSE LET l == CHOOSE l \in tail_calls(w, d) : TRUE
         IN  AskUndo(TailRec_split(w, l, NewLam(w), NewLam(w) + 1), undo_visit(w, l))

-----------------------------------------------------------------------------
(* CopyProp: the parameters of a Lam that is called are Dead until one is used, *)
(* then Prop, as long as each call passes the same def, and in the end Keep.    *)
(* The calls go to a copy of the Lam that has the kept parameters only.         *)
Dead == 0
Prop == 1
Keep == 2
Null == Def("null", 0, <<>>)
num_args(w, l) == CASE w.lams[l].kind = "F" -> 2 [] w.lams[l].kind = "Z" -> 0 [] OTHER -> 1
arg(n, d, i)   == IF n = 1 THEN d ELSE Extract(i, d)
pack_args(ops) == CASE Len(ops) = 0 -> Lit [] Len(ops) = 1 -> ops[1] [] OTHER -> Tuple(ops)
prop_kind(kind, kept) == CASE kept = {} -> "Z" [] kept = {2} -> "R" [] OTHER -> IF kind = "F" THEN "K" ELSE kind
has_proxy(d)   == \E e \in Defs(d) : is_proxy(e)

new_info(n)  == [lat |-> [i \in 1..n |-> Dead], prop |-> 0, args |-> [i \in 1..n |-> Null]]
info(w, l)   == IF l \in DOMAIN w.know.info THEN w.know.info[l] ELSE new_info(num_args(w, l))
args_of(w, l) == IF l \in DOMAIN top(w).args THEN top(w).args[l] ELSE [i \in 1..num_args(w, l) |-> Null]
kept(lat)    == {i \in DOMAIN lat : lat[i] = Keep}
InOrder(S)   == CASE S = {1, 2} -> <<1, 2>> [] S = {} -> <<>> [] OTHER -> <<CHOOSE i \in S : TRUE>>

(* The body of the copy: the operand of the only kind of call for a Prop, a      *)
(* proxy for a Dead one that may turn out to be alive.                          *)
new_var(w, l, k, lat, args, i) ==
    CASE lat[i] = Dead -> Def("varxy", i, <<Lam(l)>>)
      [] lat[i] = Prop -> args[i]
      [] lat[i] = Keep -> Var(k)
set_prop_lam(w, l, k, I) ==
    [w EXCEPT !.lams[k].body = w.def, !.know.keep = @ \cup {k}, !.know.new2old = Put(@, k, l),
              !.know.info = Put(@, l, [I EXCEPT !.prop = k])]
new_prop_lam(w, l, I) ==
    LET k == NewLam(w)
    IN  set_prop_lam(reduce([w EXCEPT !.lams = Put(@, k, [kind |-> prop_kind(w.lams[l].kind, kept(I.lat)), body |-> Lit])], l,
                            pack_args([i \in 1..num_args(w, l) |-> new_var(w, l, k, I.lat, I.args, i)])), l, k, I)

call_prop_lam(w, d, I) ==
    SetDef([w EXCEPT !.know.info = Put(@, I.prop, [new_info(Cardinality(kept(I.lat))) EXCEPT !.lat = [i \in DOMAIN @ |-> Keep]])],
           App(Lam(I.prop), pack_args([j \in 1..Cardinality(kept(I.lat)) |-> arg(Len(I.lat), d.ops[2], InOrder(kept(I.lat))[j])])))

use_prop(w, d, l, I, args) ==
    IF I.prop # 0 /\ I.args = args THEN call_prop_lam(w, d, I)
    ELSE LET u == new_prop_lam(w, l, [I EXCEPT !.args = args]) IN call_prop_lam(u, d, u.know.info[l])

differ_first(d, prop, args) ==          \* mutant: the second parameter is not looked at
    {i \in prop \cap {2} : args[i] # arg(Len(args), d.ops[2], i)}
differ(d, prop, args) == {i \in prop : args[i] # arg(Len(args), d.ops[2], i)}

(* Without a def of its own yet, a Prop takes that of this call; a proxy in it     *)
(* ends the matter until it is gone.                                            *)
CopyProp_args(w, d, l, I, args) ==
    LET n    == Len(I.lat)
        prop == {i \in 1..n : I.lat[i] = Prop}
        wait == {i \in prop : has_proxy(arg(n, d.ops[2], i))}
        seen == {i \in prop : \A j \in wait : i < j}
        new  == [i \in 1..n |-> IF i \in seen /\ args[i] = Null THEN arg(n, d.ops[2], i) ELSE args[i]]
        clash == differ(d, prop, new)
        u    == SetTop([w EXCEPT !.know.info = Put(@, l, I)], [top(w) EXCEPT !.args = Put(@, l, new)])
    IN  CASE wait # {} -> u
          [] wait = {} /\ clash # {} -> SetDef(u, Def("appxy", 0, <<Lam(l)>> \o [j \in DOMAIN InOrder(clash) |-> Def("lit", InOrder(clash)[j], <<>>)]))
          [] OTHER -> use_prop(u, d, l, I, new)

CopyProp_rewrite(w) ==
    LET L == {l \in apped_lam(w.def) : isa_workable(l) /\ num_args(w, l) # 0 /\ kept(info(w, l).lat) # DOMAIN info(w, l).lat}
    IN  IF L = {} THEN w
        ELSE LET l == CHOOSE l \in L : TRUE IN CopyProp_args(w, w.def, l, info(w, l), args_of(w, l))

raise_forget(w, l, S, value) == w       \* mutant: what was learnt is lost with the undo
raise(w, l, S, value) == [w EXCEPT !.know.info = Put(@, l, [info(w, l) EXCEPT !.lat = [i \in DOMAIN @ |-> IF i \in S THEN value ELSE @[i]]])]
CopyProp_analyze_var(w, l, i) ==
    IF info(w, l).lat[i] # Dead THEN w ELSE AskUndo(raise(w, l, {i}, Prop), undo_visit(w, l))
CopyProp_analyze_app(w, d) ==
    LET l == d.ops[1].flags
    IN  AskUndo(raise(w, l, {d.ops[j].flags : j \in 2..Len(d.ops)}, Keep), undo_visit(w, l))

-----------------------------------------------------------------------------
(* The hooks of all passes.  The first pass that changes a def ends the turn. *)
Hook(p, w) == CASE p = "beta_red" -> BetaRed_rewrite(w)
                [] p = "eta_red"  -> EtaRed_rewrite(w)
                [] p = "eta_exp"  -> EtaExp_rewrite(w)
                [] p = "tail_rec" -> TailRec_rewrite(w)
                [] p = "ssa"      -> SSA_rewrite(w)
                [] p = "copy_prop" -> CopyProp_rewrite(w)

RECURSIVE Hooks(_, _, _)
Hooks(w, new, i) ==
    IF i > Len(Passes) \/ w.def # new THEN w ELSE Hooks(Hook(Passes[i], w), new, i + 1)

Analysis(p, w, d) ==
    CASE d.node = "var" -> IF p = "eta_red" THEN EtaRed_analyze_var(w, d.ops[1].flags) ELSE w
      [] p = "beta_red" -> BetaRed_analyze(w, d, 1)
      [] p = "eta_exp"  -> EtaExp_analyze(w, d, 1)
      [] p = "tail_rec" -> TailRec_analyze(w, d)
      [] p = "ssa"      -> SSA_analyze(w, d, 1)
      [] OTHER          -> w

RECURSIVE Analyses(_, _, _)
Analyses(w, d, i) ==
    IF i > Len(Passes) THEN w ELSE Analyses(Analysis(Passes[i], w, d), d, i + 1)

-----------------------------------------------------------------------------
(* PassMan::rewrite leaves its result in w.def.                               *)
map(w, d) == SetTop(w, [top(w) EXCEPT !.old2new = Emplace(Put(@, d, w.def), w.def, w.def)])

lookup(w, d) == {i \in 1..Len(w.states) : d \in DOMAIN w.states[i].old2new}

Visit(w, l) ==
    map(SetTop(SetDef(w, Lam(l)), [top(w) EXCEPT !.nom2visit = Emplace(@, l, curr_undo(w))]), Lam(l))

RECURSIVE rewrite(_, _, _), rewrite_ops(_, _, _, _, _), next_op(_, _, _, _, _),
          hook(_, _, _), settle(_, _, _, _)
rewrite_ops(w, d, i, new_ops, nest) ==
    IF i > Len(d.ops) THEN SetDef(w, rebuild(d, new_ops))
    ELSE next_op(rewrite(w, d.ops[i], nest), d, i, new_ops, nest)
next_op(w, d, i, new_ops, nest) == rewrite_ops(w, d, i + 1, Append(new_ops, w.def), nest)

hook(w, d, nest) == CASE w.def.node = "var" -> map(w, d)
                      [] is_proxy(w.def)    -> settle(SSA_rewrite_proxy(w), w.def, d, nest)
                      [] OTHER              -> settle(Hooks(w, w.def, 1), w.def, d, nest)
settle(w, new, d, nest) == map(IF w.def # new THEN rewrite(w, w.def, nest + 1) ELSE w, d)

rewrite(w, d, nest) ==
    CASE nest > MaxNest     -> [w EXCEPT !.overflow = TRUE, !.def = d]
      [] dep_none(d)        -> SetDef(w, d)
      [] isa_lam(d)         -> Visit(w, d.flags)
      [] lookup(w, d) # {}  ->
            LET found == lookup(w, d)
                new   == w.states[CHOOSE i \in found : \A j \in found : j <= i].old2new[d]
            IN  IF new = d THEN SetDef(w, d) ELSE map(rewrite(w, new, nest + 1), d)
      [] OTHER              -> hook(rewrite_ops(w, d, 1, <<>>, nest), d, nest)

(* PassMan::analyze.                                                          *)
RECURSIVE analyze(_, _), analyze_ops(_, _, _)
analyze_ops(w, d, i) == IF i > Len(d.ops) THEN w ELSE analyze_ops(analyze(w, d.ops[i]), d, i + 1)

analyzed(w, d) == \E i \in 1..Len(w.states) : d \in w.states[i].analyzed
mark(w, d)     == SetTop(w, [top(w) EXCEPT !.analyzed = @ \cup {d}])

analyze(w, d) ==
    CASE dep_none(d) \/ analyzed(w, d) -> w
      [] OTHER -> LET u == mark(w, d) IN
            CASE isa_lam(d)        -> SetTop(u, [top(u) EXCEPT !.stack = Append(@, d.flags)])
              [] d.node = "proxy"  -> BetaRed_analyze_proxy([u EXCEPT !.proxy = TRUE], d.ops[1].flags)
              [] d.node = "varxy"  -> CopyProp_analyze_var([u EXCEPT !.proxy = TRUE], d.ops[1].flags, d.flags)
              [] d.node = "appxy"  -> CopyProp_analyze_app([u EXCEPT !.proxy = TRUE], d)
              [] d.node = "sloxy"  -> SSA_analyze_sloxy([u EXCEPT !.proxy = TRUE], d)
              [] d.node = "phixy"  -> SSA_analyze_phixy([u EXCEPT !.proxy = TRUE], d)
              [] d.node = "etaxy"  -> EtaExp_analyze_proxy([u EXCEPT !.proxy = TRUE], d.ops[1].flags)
              [] d.node = "var"    -> Analyses(u, d, 1)
              [] OTHER             -> Analyses(analyze_ops(u, d, 1), d, 1)

-----------------------------------------------------------------------------
EmptyState == [curr_nom |-> 0, old_body |-> Lit, stack |-> <<>>, nom2visit |-> <<>>,
               old2new |-> <<>>, analyzed |-> {},
               inlined |-> {}, copied |-> {}, reduced |-> {}, exp_done |-> {}, pos |-> <<>>, args |-> <<>>, ssa |-> <<>>]

Init ==
    /\ setup \in Setups
    /\ lams = setup.lams
    /\ states = <<[EmptyState EXCEPT !.stack = <<CHOOSE l \in External : TRUE>>,
                                     !.analyzed = {Lam(l) : l \in External}]>>
    /\ know = [keep |-> {}, irreducible |-> {}, expand |-> {}, exp2orig |-> <<>>,
               def2new_ops |-> <<>>, rec_loop |-> <<>>, cache |-> <<>>,
             info |-> <<>>, new2old |-> <<>>, ssa |-> no_values]
    /\ pc = "loop"
    /\ turns = 0

(* push_state and the rewriting of the operands of the nominal.               *)
Push(n) == [top(Work) EXCEPT !.curr_nom = n, !.stack = SubSeq(@, 1, Len(@) - 1),
                             !.old_body = IF is_set(n) THEN lams[n].body ELSE Lit,
                             !.old2new = <<>>, !.analyzed = {}]

Rewrite ==
    /\ pc = "loop"
    /\ top(Work).stack # <<>>
    /\ turns < MaxTurns
    /\ \E n \in {top(Work).stack[Len(top(Work).stack)]} :
          \/ /\ ~is_set(n)
             /\ states' = Append(states, Push(n))
             /\ UNCHANGED <<lams, know, pc>>
          \/ /\ is_set(n)
             /\ \E w \in {rewrite(SSA_enter([Work EXCEPT !.states = Append(@, Push(n))], n), lams[n].body, 0)} :
                   /\ lams' = [w.lams EXCEPT ![n].body = w.def]
                   /\ states' = w.states
                   /\ know' = w.know
                   /\ pc' = IF w.overflow THEN "overflow" ELSE "analyze"
    /\ turns' = turns + 1
    /\ UNCHANGED setup

(* pop_states: of several states of a nominal the first has its old operands. *)
Restored(all, undo, l) ==
    LET S == {i \in undo+1..Len(states) : states[i].curr_nom = l}
    IN  IF S = {} THEN all[l]
        ELSE [all[l] EXCEPT !.body = states[CHOOSE i \in S : \A j \in S : i <= j].old_body]

(* The analysis of the operands, and pop_states if a pass asks for an undo.   *)
Analyze ==
    /\ pc = "analyze"
    /\ \E w \in {analyze(Work, lams[top(Work).curr_nom].body)} :
          /\ know' = w.know
          /\ \/ /\ w.undo = No_Undo
                /\ lams' = w.lams
                /\ states' = w.states
                /\ pc' = IF w.proxy THEN "proxy" ELSE "loop"
             \/ /\ w.undo # No_Undo
                /\ lams' = [l \in DOMAIN w.lams |-> Restored(w.lams, w.undo, l)]
                /\ states' = SubSeq(states, 1, w.undo)
                /\ pc' = "loop"
    /\ UNCHANGED <<turns, setup>>

Finish ==
    /\ pc = "loop"
    /\ top(Work).stack = <<>>
    /\ pc' = "done"
    /\ UNCHANGED <<lams, states, know, turns, setup>>

Next == Rewrite \/ Analyze \/ Finish
Spec == Init /\ [][Next]_vars

-----------------------------------------------------------------------------
Live == Reach(lams, External)

(* The assertion at the end of run()'s loop.                                  *)
NoProxyLeft == pc # "proxy"

Uses(pass) == \E i \in DOMAIN Passes : Passes[i] = pass

(* What the program is called with, and what counts of what comes out: a mem is   *)
(* not compared, since the slots in it come and go.                              *)
Input(x)  == IF Uses("ssa") THEN <<<<>>, x, Closure(0, <<>>)>> ELSE <<x, Closure(0, <<>>)>>
Output(r) == [to |-> r.to, arg |-> IF Uses("ssa") /\ r.to # Diverges.to THEN r.arg[2] ELSE r.arg]
Run(L, l, x, f) == Output(Jump(L, Closure(l, <<>>), Input(x), f))

(* The program means what it meant before, at every turn of the loop; with        *)
(* SSAConstr and CopyProp, which put proxies for what they do not know yet, in     *)
(* the end.                                                                       *)
SameMeaning ==
    pc = "done" \/ (pc = "loop" /\ ~Uses("ssa") /\ ~Uses("copy_prop")) =>
        \A l \in External, x \in {0, 1} :
            LET m == Run(old, l, x, Fuel) IN
            m.to # Diverges.to => Run(lams, l, x, 4 * Fuel) = m

(* beta_red.h: a Lam is inlined if it occurs "exactly once in the program in  *)
(* callee position": what was inlined is not used anywhere else.              *)
InlinedIsDead == top(Work).copied \cap Live = {}

(* SSAConstr "promotes slots, loads, and stores to SSA values": what is left of    *)
(* them has to do with a slot whose address goes elsewhere.                       *)
Escapes(s) == \E d \in UNION {Defs(lams[k].body) : k \in Live \ Unset} :
                 d.node \notin {"load", "store"} /\ \E i \in DOMAIN d.ops : d.ops[i] = Extract(2, s)
Promoted ==
    pc = "done" => \A s \in UNION {Defs(lams[k].body) : k \in Live \ Unset} : s.node = "slot" => Escapes(s)

(* eta_exp.h: in the end every Lam is used by calls only, or exactly once     *)
(* otherwise.                                                                 *)
Users(l) == {<<d, i>> \in (UNION {Defs(lams[k].body) : k \in Live \ Unset}) \X {1, 2} :
                d.node # "var" /\ i \in 1..Len(d.ops) /\ d.ops[i] = Lam(l)}

OneUser ==
    \A l \in Live \ Unset :
        \/ \A u \in Users(l) : u[1].node = "app" /\ u[2] = 1
        \/ Cardinality(Users(l)) = 1

Inlined == pc = "done" /\ Len(Passes) = 3 => InlinedIsDead /\ OneUser

(* No function is left that calls itself as the last thing it does.           *)
NoTailCall ==
    pc = "done" /\ Uses("tail_rec") =>
        \A d \in UNION {Defs(lams[k].body) : k \in Live \ Unset} :
            \A l \in apped_lam(d) :
                lams[l].kind = "F" => Extract(2, d.ops[2]) # ret_var(l)

(* run() ends within the bounds.                                              *)
Stabilizes == pc # "overflow" /\ turns < MaxTurns
=============================================================================
