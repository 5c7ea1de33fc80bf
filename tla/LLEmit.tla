------------------------------- MODULE LLEmit -------------------------------
(* The emitter (thorin/be/emitter.h) with the child for LLVM (ll.cpp): how the  *)
(* graph of a function becomes blocks of instructions, where memory is a value  *)
(* in the graph and the order of instructions in LLVM. Which instruction an     *)
(* arithmetic axiom becomes is the subject of module LLInstr.                  *)
EXTENDS Integers, SequencesExt, TLC

CONSTANT Programs
\* A program: the lams of the scope in reverse post-order (the entry first), the number of vars of
\* each without ret (the first is the mem), and its body. Defs are terms; <<"proj", d, i>> is a component
\* of the result of d, where 0 is the mem.
VARIABLES p, at, e
vars == <<p, at, e>>

Kinds == {"var", "lit", "lam", "proj", "load", "store", "free", "malloc", "slot", "add", "tuple", "ext"}
None == <<>>
ops(d) == CASE d[1] \in {"var", "lit", "lam"} -> <<>>
            [] d[1] = "proj" -> <<d[2]>>
            [] OTHER -> Tail(d)
IsMem(d) == \/ d[1] \in {"var", "proj"} /\ d[3] = 0
            \/ d[1] \in {"store", "free"}
BodyOps(app) == CASE app[1] = "ret"    -> app[2]
                  [] app[1] = "jump"   -> app[3]
                  [] app[1] = "branch" -> <<app[3]>> \o app[4]
                  [] app[1] = "call"   -> app[2]
                  [] app[1] = "bot"    -> <<>>
Succs(app) == CASE app[1] = "jump" -> {app[2]} [] app[1] = "branch" -> ToSet(app[2])
                [] app[1] = "call" -> {app[3]} [] OTHER -> {}
Lams(P) == ToSet(P.order)
Entry(P) == P.order[1]

-----------------------------------------------------------------------------
(* scheduler_.smart, by what module Schedule shows of it.                      *)
RECURSIVE Below(_)
Below(d) == {d} \cup UNION {Below(c) : c \in ToSet(ops(d))}
Used_by(P) == [l \in Lams(P) |-> UNION {Below(d) : d \in ToSet(BodyOps(P.body[l]))}]
Flow(P) == [entry |-> Entry(P), succs |-> [l \in Lams(P) |-> Succs(P.body[l])]]
G == INSTANCE DefGraph
doms(P) == LET D == G!Dominated(Flow(P)) IN [l \in Lams(P) |-> {a \in Lams(P) : l \in D[a]}]
Deepest(dom, S) == CHOOSE l \in S : \A m \in S : Cardinality(dom[m]) <= Cardinality(dom[l])
\* The deepest lam whose vars d needs; the common dominator of the lams that need d.
early(P, dom, d) == Deepest(dom, {Entry(P)} \cup {v[2] : v \in {v \in Below(d) : v[1] = "var"}})
late(P, dom, users) == Deepest(dom, {a \in Lams(P) : \A l \in users : a \in dom[l]})
smart(dom, depth, first, last) ==
    LET path == {l \in dom[last] : first \in dom[l]}
    IN Deepest(dom, {l \in path : \A m \in path : depth[l] <= depth[m]})
IsConst(d) == \A c \in Below(d) : c[1] # "var"
Places(P) ==
    LET dom == doms(P)
        depth == [l \in Lams(P) |-> G!LoopDepth(Flow(P), l)]
        used == Used_by(P)
    IN [d \in UNION {used[l] : l \in Lams(P)} |->
           IF IsConst(d) THEN Entry(P)
           ELSE smart(dom, depth, early(P, dom, d), late(P, dom, {l \in Lams(P) : d \in used[l]}))]

-----------------------------------------------------------------------------
(* An instruction is its name, its opcode and its operands. e.body, e.tail and   *)
(* e.phis belong to the blocks, e.val is what the last emission has returned.  *)
assign(E, b, name, op, args) == [E EXCEPT !.body[b] = Append(@, <<name, op, args>>), !.val = name]
print_body(E, b, op, args) == [E EXCEPT !.body[b] = Append(@, <<None, op, args>>), !.val = None]
tail(E, b, name, op, args) == [E EXCEPT !.tail[b] = Append(@, <<name, op, args>>), !.val = name]
is_const(d) == d[1] = "tuple" /\ \A i \in 2..Len(d) : d[i][1] = "lit"
emit_tuple(E, b, d, args) == IF is_const(d) THEN [E EXCEPT !.val = d] ELSE assign(E, b, d, "insertvalue", args)
\* A component that is picked by a number which is not known: through a slot of the entry.
emit_pick(E, b, d, args) ==
    LET slot == <<"alloca", d>>
        F == [E EXCEPT !.body[Entry(p)] = <<<<slot, "alloca", <<>>>>>> \o @]
    IN assign(F, b, d, "gep", Append(args, slot))

\* free is put into the tail of its block.
free(E, b, args) == tail(E, b, None, "free", args)
\* The memory operand is emitted for what it leaves in the blocks, not for its value.
Used_values(d) == SelectSeq(ops(d), LAMBDA c : ~IsMem(c))
Used(d) == ops(d)

RECURSIVE emit_unsafe(_, _)
emit_bb(E, b, d) ==
    LET F == IF d[1] = "var" THEN E ELSE FoldLeft(emit_unsafe, E, Used(d))
        values == SelectSeq([i \in DOMAIN ops(d) |-> IF ops(d)[i] \in DOMAIN F.locals THEN F.locals[ops(d)[i]] ELSE None],
                            LAMBDA v : v # None)
    IN CASE d[1] = "var" -> [E EXCEPT !.val = None]
         [] d[1] \in {"lit", "lam"} -> [E EXCEPT !.val = d]
         [] d[1] = "proj" -> [F EXCEPT !.val = IF IsMem(d) THEN None ELSE F.locals[d[2]]]
         [] d[1] \in {"load", "malloc", "slot", "add"} -> assign(F, b, d, d[1], values)
         [] d[1] = "store" -> print_body(F, b, d[1], values)
         [] d[1] = "free"  -> free(F, b, values)
         [] d[1] = "tuple" -> emit_tuple(F, b, d, values)
         [] d[1] = "ext"   -> emit_pick(F, b, d, values)
emit_unsafe(E, d) ==
    IF d \in DOMAIN E.locals THEN [E EXCEPT !.val = E.locals[d]]
    ELSE LET F == emit_bb(E, E.place[d], d) IN [F EXCEPT !.locals = (d :> F.val) @@ @]

-----------------------------------------------------------------------------
(* emit_epilogue: the body of a lam.                                           *)
emit_args(E, args) == FoldLeft(emit_unsafe, E, args)
Values(E, args) == SelectSeq([i \in DOMAIN args |-> E.locals[args[i]]], LAMBDA v : v # None)
\* What arrives in the var i of a block from the lam l.
phi(E, callee, i, v, l) ==
    LET x == <<"var", callee, i>>
    IN [E EXCEPT !.phis = (x :> Append(IF x \in DOMAIN @ THEN @[x] ELSE <<>>, <<v, l>>)) @@ @, !.locals = (x :> x) @@ @]
pass_args(E, callee, args, l) ==
    FoldLeftDomain(LAMBDA F, i : LET H == emit_unsafe(F, args[i])
                                 IN IF H.val = None THEN H ELSE phi(H, callee, i - 1, H.val, l), E, args)

emit_return(E, l, args) == LET F == emit_args(E, args) IN tail(F, l, None, "ret", Values(F, args))
emit_jump(E, l, callee, args) == tail(pass_args(E, callee, args, l), l, None, "br", <<callee>>)
\* One edge for each component, also when a block is among them twice.
\* br takes the block for true first, a tuple has it last.
emit_branch(E, l, callees, cond, args) ==
    LET F == FoldLeft(LAMBDA H, c : pass_args(H, c, args, l), E, callees)
        H == emit_unsafe(F, cond)
    IN tail(H, l, None, "br", <<H.val>> \o callees)
\* The results of a call: more than one comes as a struct without the mem.
results(E, l, ret, name) ==
    LET n == p.vars[ret]
    IN FoldLeft(LAMBDA F, i : LET part == <<"part", <<"var", ret, i>>>>
                              IN IF n > 2 THEN phi(tail(F, l, part, "extractvalue", <<name, <<"lit", i - 1>>>>), ret, i, part, l)
                                 ELSE phi(F, ret, i, name, l),
                E, [i \in 1 .. n - 1 |-> i])
emit_call(E, l, args, ret) ==
    LET F == emit_args(E, args)
        name == <<"call", l>>
        H == tail(F, l, name, "call", <<<<"lit", p.vars[ret] - 1>>>> \o Values(F, args))
    IN tail(results(H, l, ret, name), l, None, "br", <<ret>>)

emit_epilogue(E, l) ==
    LET app == p.body[l]
    IN CASE app[1] = "ret"    -> emit_return(E, l, app[2])
         [] app[1] = "jump"   -> emit_jump(E, l, app[2], app[3])
         [] app[1] = "branch" -> emit_branch(E, l, app[2], app[3], app[4])
         [] app[1] = "call"   -> emit_call(E, l, app[2], app[3])
         [] app[1] = "bot"    -> tail(E, l, None, "ret", <<>>)

-----------------------------------------------------------------------------
\* finalize prints a block: what is in its head for each predecessor, then its instructions.
head(E, l, pred) == [x \in {x \in DOMAIN E.phis : x[2] = l} |-> SelectSeq(E.phis[x], LAMBDA v : v[2] = pred)]
block(E, l) == E.body[l] \o E.tail[l]

\* The vars of a function have their names from the start.
prepare(P) ==
    LET empty == [l \in Lams(P) |-> <<>>]
    IN [locals |-> [x \in {"var"} \X {Entry(P)} \X (1 .. P.vars[Entry(P)] - 1) |-> x], val |-> None,
        place |-> Places(P), body |-> empty, tail |-> empty, phis |-> <<>>]
Init == p \in Programs /\ at = 0 /\ e = None
Visit == at = 0 /\ at' = 1 /\ e' = prepare(p) /\ UNCHANGED p
Epilogue == at \in 1..Len(p.order) /\ e' = emit_epilogue(e, p.order[at]) /\ at' = at + 1 /\ UNCHANGED p
Next == Visit \/ Epilogue
Spec == Init /\ [][Next]_vars

-----------------------------------------------------------------------------
\* Memories: the cells (-2 once freed), what the external function has been called with, and whether
\* something undefined has happened.
Fresh == [cells |-> <<>>, calls |-> <<>>, bad |-> FALSE]
Bad(m) == [m EXCEPT !.bad = TRUE]
Alive(m, q) == q - 100 \in DOMAIN m.cells /\ m.cells[q - 100] # -2
Read(m, q) == IF Alive(m, q) THEN m.cells[q - 100] ELSE -1
Touch(m, q) == IF Alive(m, q) THEN m ELSE Bad(m)
Write(m, q, v) == IF Alive(m, q) THEN [m EXCEPT !.cells[q - 100] = v] ELSE Bad(m)
Grow(m) == [m EXCEPT !.cells = Append(@, 0)]
Ptr(m) == 101 + Len(m.cells)
Called(m, v) == [m EXCEPT !.calls = Append(@, <<v, m.cells>>)]
Result(v, i) == (v + i) % 3

\* The graph: a lam is a function, a memory is a value.
RECURSIVE Ev(_, _), Go(_, _, _)
Ev(env, d) ==
    CASE d[1] = "var" -> env[d]
      [] d[1] = "lit" -> d[2]
      [] d[1] = "proj" -> IF d[3] = 0 THEN Ev(env, d[2]).m ELSE Ev(env, d[2]).v
      [] d[1] = "load" -> LET m == Ev(env, d[2]) q == Ev(env, d[3]) IN [m |-> Touch(m, q), v |-> Read(m, q)]
      [] d[1] = "store" -> Write(Ev(env, d[2]), Ev(env, d[3]), Ev(env, d[4]))
      [] d[1] = "free" -> Write(Ev(env, d[2]), Ev(env, d[3]), -2)
      [] d[1] \in {"malloc", "slot"} -> LET m == Ev(env, d[2]) IN [m |-> Grow(m), v |-> Ptr(m)]
      [] d[1] = "add" -> (Ev(env, d[2]) + Ev(env, d[3])) % 3
      [] d[1] = "tuple" -> <<Ev(env, d[2]), Ev(env, d[3])>>
      [] d[1] = "ext" -> Ev(env, d[2])[Ev(env, d[3]) + 1]
Bind(env, l, vals) == [x \in {"var"} \X {l} \X (0 .. Len(vals) - 1) |-> vals[x[3] + 1]] @@ env
Go(env, l, fuel) ==
    LET app == p.body[l]
        vals(args) == [i \in DOMAIN args |-> Ev(env, args[i])]
    IN CASE fuel = 0 \/ app[1] = "bot" -> [m |-> Bad(Fresh), out |-> <<>>]
         [] app[1] = "ret" -> [m |-> Ev(env, app[2][1]), out |-> Tail(vals(app[2]))]
         [] app[1] = "jump" -> Go(Bind(env, app[2], vals(app[3])), app[2], fuel - 1)
         [] app[1] = "branch" -> LET c == app[2][Ev(env, app[3]) + 1] IN Go(Bind(env, c, vals(app[4])), c, fuel - 1)
         [] app[1] = "call" -> LET m == Ev(env, app[2][1]) v == Ev(env, app[2][2])
                               IN Go(Bind(env, app[3], <<Called(m, v)>> \o [i \in 1 .. p.vars[app[3]] - 1 |-> Result(v, i)]), app[3], fuel - 1)

\* LLVM: blocks of instructions. A name that has no value is undefined, and so is an instruction
\* behind the end of the block.
Val(S, args, i) == IF i \notin DOMAIN args THEN -1
                   ELSE CASE args[i][1] = "lit" -> args[i][2]
                          [] is_const(args[i]) -> <<args[i][2][2], args[i][3][2]>>
                          [] OTHER -> IF args[i] \in DOMAIN S.regs THEN S.regs[args[i]] ELSE -1
Known(S, args) == \A i \in DOMAIN args : args[i][1] = "lit" \/ is_const(args[i]) \/ args[i] \in DOMAIN S.regs
Set(S, name, v) == [S EXCEPT !.regs = (name :> v) @@ @]
Step(S, ins) ==
    LET op == ins[2]
        a == ins[3]
        x == Val(S, a, 1)
        y == Val(S, a, 2)
    IN CASE S.stop \/ (op # "br" /\ ~Known(S, a)) -> [S EXCEPT !.m = Bad(@)]
         [] ~S.stop /\ op = "br" -> [S EXCEPT !.stop = TRUE, !.next = IF Len(a) = 1 THEN a[1] ELSE a[x + 2]]
         [] ~S.stop /\ op # "br" /\ Known(S, a) ->
            CASE op = "load"   -> [Set(S, ins[1], Read(S.m, x)) EXCEPT !.m = Touch(@, x)]
              [] op = "store"  -> [S EXCEPT !.m = Write(@, x, y)]
              [] op = "free"   -> [S EXCEPT !.m = Write(@, x, -2)]
              [] op \in {"malloc", "slot"} -> [Set(S, ins[1], Ptr(S.m)) EXCEPT !.m = Grow(@)]
              [] op = "alloca" -> Set(S, ins[1], 0)
              [] op = "add"    -> Set(S, ins[1], (x + y) % 3)
              [] op = "insertvalue" -> Set(S, ins[1], <<x, y>>)
              [] op = "gep"    -> Set(S, ins[1], x[y + 1])
              [] op = "call"   -> [Set(S, ins[1], IF x = 1 THEN Result(y, 1) ELSE [i \in 1..x |-> Result(y, i)]) EXCEPT !.m = Called(@, y)]
              [] op = "extractvalue" -> IF y + 1 \in DOMAIN x THEN Set(S, ins[1], x[y + 1]) ELSE [S EXCEPT !.m = Bad(@)]
              [] op = "ret"    -> [S EXCEPT !.stop = TRUE, !.next = "", !.out = [i \in DOMAIN a |-> Val(S, a, i)]]
RECURSIVE Exec(_, _, _, _)
Exec(S, l, from, fuel) ==
    LET phis == head(e, l, from)
        T == [S EXCEPT !.regs = [x \in DOMAIN phis |-> IF phis[x] = <<>> THEN -1 ELSE Val(S, phis[x][1], 1)] @@ @, !.stop = FALSE]
        U == FoldLeft(Step, T, block(e, l))
    IN IF U.m.bad \/ ~U.stop \/ fuel = 0 THEN [U EXCEPT !.m = Bad(@)]
       ELSE IF U.next = "" THEN U ELSE Exec(U, U.next, l, fuel - 1)

-----------------------------------------------------------------------------
Finished == at > Len(p.order)
\* The function that is emitted leaves the memory, calls and returns as the graph says: the loads and
\* stores come in the order of the memory values though each is emitted where it is first asked for.
SameResult == Finished => \A x \in 0..1 :
    \E want \in {Go(Bind(<<>>, Entry(p), <<Fresh, x>>), Entry(p), 8)} :
        ~want.m.bad => \E got \in {Exec([regs |-> <<"var", Entry(p), 1>> :> x, m |-> Fresh, out |-> <<>>, stop |-> FALSE, next |-> None], Entry(p), "", 8)} :
            ~got.m.bad /\ got.m = want.m /\ got.out = want.out

\* A phi names each edge that leads to its block once, as often as there are such edges.
Edges(k, l) == LET ends == SelectSeq(e.tail[k], LAMBDA i : i[2] = "br")
               IN IF ends = <<>> THEN 0 ELSE Len(SelectSeq(ends[1][3], LAMBDA t : t = l))
PhiPerEdge == Finished => \A x \in DOMAIN e.phis : \A k \in Lams(p) :
                  Len(SelectSeq(e.phis[x], LAMBDA v : v[2] = k)) = Edges(k, x[2])
=============================================================================
