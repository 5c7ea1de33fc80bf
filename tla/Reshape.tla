------------------------------ MODULE Reshape -------------------------------
(***************************************************************************)
(* Reshape of the mem dialect: all functions get a new signature, flat       *)
(* (.Cn [mem, ...args, ret]) or in arg style (.Cn [[mem, args], ret]), with   *)
(* what is passed and used rearranged accordingly.  Types and axioms do not    *)
(* mention what is rewritten here, so that rewriting them changes nothing; a    *)
(* pack is the tuple of its equal elements.                                   *)
(***************************************************************************)
EXTENDS Lambda
LOCAL INSTANCE SequencesExt

CONSTANTS
    Programs,   \* the programs to start from, as functions from Lams
    Entry,      \* the external Lam
    Modes,      \* "flat", "arg"
    Fuel        \* bound: jumps of the programs that are run to compare them

VARIABLES
    lams,       \* domain, filter and body of each
    mode, todo, seen,
    main,       \* is the external Lam named "main"?
    external,   \* what the World lists as external now
    old2new,
    old         \* the program it was started with

vars == <<lams, mode, todo, seen, main, external, old2new, old>>

-----------------------------------------------------------------------------
(* Types.  World::sigma makes an array of equal elements.                       *)
Ty(node, ops) == [node |-> node, ops |-> ops]
M       == Ty("mem", <<>>)
A       == Ty("A", <<>>)
B       == Ty("B", <<>>)
None    == Ty("none", <<>>)        \* of what an assertion has stopped at
Pi(dom) == Ty("pi", <<dom>>)
sigma(ops) == CASE Len(ops) = 1 -> ops[1]
                [] Len(ops) > 1 /\ (\A i \in DOMAIN ops : ops[i] = ops[1]) -> Ty("arr", ops)
                [] OTHER -> Ty("sigma", ops)

Failed  == Def("failed", 0, <<>>)
Conv(v) == Def("prim", 1, <<v>>)   \* an operation from A to B

RECURSIVE type(_, _)
elem(t, i) == IF i \in DOMAIN t.ops THEN t.ops[i] ELSE None
type(L, d) == CASE isa_lam(d)         -> Pi(L[d.flags].dom)
                [] d.node = "var"     -> L[d.ops[1].flags].dom
                [] d.node = "extract" -> elem(type(L, d.ops[1]), d.flags)
                [] d.node = "args"    -> sigma([i \in DOMAIN d.ops |-> type(L, d.ops[i])])
                [] d.node = "prim"    -> IF d.flags = 1 THEN B ELSE type(L, d.ops[1])
                [] d.node = "lit"     -> A
                [] OTHER              -> None

(* World::tuple: all elements of a tuple, in their order, are that tuple.         *)
tuple(L, ops) ==
    CASE Len(ops) = 1 -> ops[1]
      [] Len(ops) > 1 /\ \E d \in {ops[1].ops[i] : i \in DOMAIN ops[1].ops} :
              /\ \A i \in DOMAIN ops : ops[i] = Extract(i, d)
              /\ type(L, d) = sigma([i \in DOMAIN ops |-> type(L, ops[i])]) -> ops[1].ops[1]
      [] OTHER -> Args(ops)

-----------------------------------------------------------------------------
should_flatten(t) == \/ t.node = "sigma"
                     \/ t.node = "arr" /\ Len(t.ops) = 2 /\ t.ops[1].node = "pi"

RECURSIVE flatten_ty(_), flatten_def(_, _)
flatten_ty(t) == IF should_flatten(t) THEN FlattenSeq([i \in DOMAIN t.ops |-> flatten_ty(t.ops[i])]) ELSE <<t>>
flatten_def(L, d) ==
    LET t == type(L, d)
    IN  IF should_flatten(t) THEN FlattenSeq([i \in DOMAIN t.ops |-> flatten_def(L, Extract(i, d))]) ELSE <<d>>

(* The first mem, in a sequence, and what is not a mem.                          *)
is_mem(t)  == t = M
isnt_mem(t) == ~is_mem(t)
mem_ty(ts)  == SubSeq(SelectSeq(ts, is_mem), 1, IF \E i \in DOMAIN ts : is_mem(ts[i]) THEN 1 ELSE 0)
mem_def(L, ds) == LET is(d) == is_mem(type(L, d))
                  IN  SubSeq(SelectSeq(ds, is), 1, IF \E i \in DOMAIN ds : is(ds[i]) THEN 1 ELSE 0)
args_def(L, ds) == LET isnt(d) == isnt_mem(type(L, d)) IN SelectSeq(ds, isnt)

(* Both sides put mem and args, and then ret, in a pair; of no args at all the     *)
(* last one is looked at all the same.                                            *)
arg_type(mem, ts) ==
    LET n    == Len(ts)
        pair(xs) == IF mem # <<>> THEN sigma(<<mem[1], sigma(xs)>>) ELSE sigma(xs)
    IN  CASE n = 0 -> None
          [] n # 0 /\ ts[n].node = "pi" -> sigma(<<pair(SubSeq(ts, 1, n - 1)), ts[n]>>)
          [] OTHER -> pair(ts)
arg_def(L, mem, ds) ==
    LET n    == Len(ds)
        pair(xs) == IF mem # <<>> THEN tuple(L, <<mem[1], tuple(L, xs)>>) ELSE tuple(L, xs)
    IN  CASE n = 0 -> Failed
          [] n # 0 /\ type(L, ds[n]).node = "pi" -> tuple(L, <<pair(SubSeq(ds, 1, n - 1)), ds[n]>>)
          [] OTHER -> pair(ds)

reshape_sigma_order(m, ts) ==        \* mutant: mem stays where it is
    IF m = "flat" THEN sigma(ts) ELSE arg_type(mem_ty(ts), SelectSeq(ts, isnt_mem))
reshape_sigma(m, ts) ==
    CASE m = "flat" -> sigma(mem_ty(ts) \o SelectSeq(ts, isnt_mem))
      [] m = "arg" /\ Len(ts) <= 1 -> sigma(ts)
      [] OTHER -> arg_type(mem_ty(ts), SelectSeq(ts, isnt_mem))
RECURSIVE reshape_type(_, _)
reshape_type(m, t) ==
    CASE t.node = "pi"    -> Pi(reshape_type(m, t.ops[1]))
      [] t.node = "sigma" -> reshape_sigma(m, [i \in DOMAIN flatten_ty(t) |-> reshape_type(m, flatten_ty(t)[i])])
      [] OTHER            -> t

reshape(m, L, d) ==
    LET ds == flatten_def(L, d)
    IN  CASE Len(ds) = 1 -> ds[1]
          [] Len(ds) # 1 /\ m = "flat" -> tuple(L, mem_def(L, ds) \o args_def(L, ds))
          [] OTHER -> arg_def(L, mem_def(L, ds), args_def(L, ds))

(* The shape t out of a queue of defs.  The type of a function is not compared.     *)
leaf(L, ds, t, mem) ==
    LET q == args_def(L, ds)
        ok == q # <<>> /\ (type(L, q[1]).node = "pi" \/ type(L, q[1]) = t)
    IN  CASE is_mem(t) -> [def |-> IF mem = <<>> THEN Failed ELSE mem[1], queue |-> ds]
          [] isnt_mem(t) /\ ok -> [def |-> q[1], queue |-> Tail(q)]
          [] OTHER -> [def |-> Failed, queue |-> <<>>]

RECURSIVE target(_, _, _, _), targets(_, _, _, _, _)
targets(L, ds, t, mem, i) ==
    IF i > Len(t.ops) THEN [defs |-> <<>>, queue |-> ds]
    ELSE LET r == target(L, ds, t.ops[i], mem)
             s == targets(L, r.queue, t, mem, i + 1)
         IN  [defs |-> <<r.def>> \o s.defs, queue |-> s.queue]
target(L, ds, t, mem) ==
    IF should_flatten(t)
    THEN LET s == targets(L, ds, t, mem, 1) IN [def |-> tuple(L, s.defs), queue |-> s.queue]
    ELSE leaf(L, ds, t, mem)
reshape_to(L, d, t) == LET ds == flatten_def(L, d) IN target(L, ds, t, mem_def(L, ds)).def

-----------------------------------------------------------------------------
Put(f, x, y) == (x :> y) @@ f
Work         == [lams |-> lams, memo |-> old2new, ext |-> external, def |-> Lit]
SetDef(w, d) == [w EXCEPT !.def = d]
remember(w, d) == [w EXCEPT !.memo = Put(@, d, w.def)]

stub(w, l, n) ==
    LET L == Put(w.lams, n, [dom |-> reshape_type(mode, w.lams[l].dom), filter |-> FALSE, body |-> Lit])
    IN  [w EXCEPT !.lams = L, !.memo = Put(Put(@, Lam(l), Lam(n)), Var(l), reshape_to(L, Var(n), L[l].dom))]
in_place(w, l) == [w EXCEPT !.memo = Put(@, Var(l), reshape_to(w.lams, Var(l), w.lams[l].dom))]
set_body(w, l, n) == [w EXCEPT !.lams[n].body = w.def, !.lams[n].filter = TRUE, !.def = Lam(n),
                               !.ext = IF l \in @ THEN (@ \ {l}) \cup {n} ELSE @]

RECURSIVE rewrite_def(_, _), rewrite_def_(_, _), rewrite_ops(_, _, _, _), reshape_lam(_, _)
rewrite_ops(w, d, i, new) ==
    IF i > Len(d.ops) THEN SetDef(w, IF d.node = "args" THEN tuple(w.lams, new) ELSE rebuild(d, new))
    ELSE \* the next operand, with what the last one has left
         LET u == rewrite_def(w, d.ops[i]) IN rewrite_ops(u, d, i + 1, Append(new, u.def))
reshape_lam(w, l) ==
    LET n == Cardinality(DOMAIN w.lams) + 1
    IN  CASE ~is_set(l) -> SetDef(w, Lam(l))
          [] is_set(l) /\ main /\ l = Entry -> set_body(rewrite_def(in_place(w, l), w.lams[l].body), l, l)
          [] OTHER -> set_body(rewrite_def(stub(w, l, n), w.lams[l].body), l, n)
rewrite_def_(w, d) ==
    CASE isa_lam(d) -> reshape_lam(w, d.flags)
      [] d.node = "app" -> LET u == rewrite_def(w, d.ops[1])
                               v == rewrite_def(u, d.ops[2])
                           IN  SetDef(v, App(u.def, reshape(mode, v.lams, v.def)))
      [] d.node = "prim" -> LET u == rewrite_def(w, d.ops[1]) IN SetDef(u, rebuild(d, <<reshape(mode, u.lams, u.def)>>))
      [] d.node = "var" -> SetDef(w, Failed)         \* it is asserted that all Vars are known
      [] OTHER -> rewrite_ops(w, d, 1, <<>>)
rewrite_def(w, d) == IF d \in DOMAIN w.memo THEN SetDef(w, w.memo[d]) ELSE remember(rewrite_def_(w, d), d)

-----------------------------------------------------------------------------
Init ==
    /\ lams \in Programs /\ old = lams
    /\ mode \in Modes /\ main \in BOOLEAN
    /\ external = {Entry} /\ todo = {Entry} /\ seen = {Entry}
    /\ old2new = <<>>

(* PassMan enters a nominal, which does all the work, and goes on with those that   *)
(* it finds there afterwards: in main's case those that are reshaped already.       *)
Visit ==
    /\ \E n \in todo :
          \E w \in {IF is_set(n) THEN rewrite_def(Work, Lam(n)) ELSE Work} :
             /\ lams' = w.lams /\ old2new' = w.memo /\ external' = w.ext
             /\ \E found \in {IF is_set(n) THEN Refs(w.lams[n].body) ELSE {}} :
                   /\ seen' = seen \cup found
                   /\ todo' = (todo \cup (found \ seen)) \ {n}
    /\ UNCHANGED <<mode, main, old>>

Next == Visit
Spec == Init /\ [][Next]_vars

-----------------------------------------------------------------------------
Live  == {l \in Reach(lams, external) : is_set(l)}
Done  == Entry \notin todo

(* A program that was reshaped does what it did, with all it does to memory.          *)
start(L, l, x) == IF Len(L[l].dom.ops) = 2 THEN <<<<0, x>>, Closure(0, <<>>)>> ELSE <<0, x, Closure(0, <<>>)>>
Run(L, l, x)   == Jump(L, Closure(l, <<>>), start(L, l, x), Fuel)
Preserved == Done => \A x \in 0..1 : \A l \in external : Run(lams, l, x) = Run(old, Entry, x)

(* "rewrite all signatures of functions with consistent reassociation of arguments.    *)
(* This change is propagated to (nested) applications."  (reshape.h)                    *)
WellTyped == Done => \A l \in Live :
    LET d == lams[l].body IN type(lams, d.ops[1]) = Pi(type(lams, d.ops[2]))

(* "Arg: Cn[ [mem, args], ret]", "Flat: Cn[mem, ...args, ret]", for all but main.         *)
flat_form(t) == t.node = "sigma" => \A i \in DOMAIN t.ops : t.ops[i].node # "sigma" /\ (is_mem(t.ops[i]) => i = 1)
arg_form(t)  == flatten_ty(t) # <<t>> =>
    /\ Len(t.ops) = 2
    /\ LET u == IF t.ops[2].node = "pi" THEN t.ops[1] ELSE t
       IN  \A s \in {u} \cup (IF u.node = "sigma" /\ is_mem(u.ops[1]) THEN {u.ops[2]} ELSE {}) :
              s.node = "sigma" => (s = u /\ is_mem(u.ops[1])) \/ \A i \in DOMAIN s.ops : ~is_mem(s.ops[i]) /\ ~should_flatten(s.ops[i])
InForm == Done => \A l \in Live : (main => l # Entry) =>
    IF mode = "flat" THEN flat_form(lams[l].dom) ELSE arg_form(lams[l].dom)

(* The assertions: every Var is known, "Reshape: argument type mismatch", "Reshape: not enough arguments".     *)
Matched == \A l \in DOMAIN lams : Failed \notin Defs(lams[l].body)
=============================================================================
