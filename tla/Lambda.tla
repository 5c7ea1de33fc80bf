------------------------------- MODULE Lambda -------------------------------
(***************************************************************************)
(* Programs as the optimizer sees them: nominal Lams whose bodies are       *)
(* structural defs, what World's factories normalize on the way, Scope and  *)
(* Def::reduce, and what a program means.                                   *)
(*                                                                          *)
(* A structural def is a value here, so that equal ones are identical, as   *)
(* hash-consing makes them.  There are three kinds of Lams: functions       *)
(* ("F" : .Cn [V, .Cn V]) with a return continuation, continuations         *)
(* ("K" : .Cn V), and direct functions ("D" : V -> V).                      *)
(***************************************************************************)
EXTENDS Integers, Sequences, FiniteSets, TLC


CONSTANTS
    Unset,      \* Lams without a body: imported continuations
    External    \* Lams the World lists as externals

-----------------------------------------------------------------------------
Def(node, flags, ops) == [node |-> node, flags |-> flags, ops |-> ops]

Lit       == Def("lit", 0, <<>>)
Lam(l)    == Def("lam", l, <<>>)
Var(l)    == Def("var", 0, <<Lam(l)>>)
Prim(v)   == Def("prim", 0, <<v>>)            \* an axiom applied to v
Proxy(lam, arg) == Def("proxy", 0, <<lam, arg>>)

isa_lam(d)   == d.node = "lam"
dep_none(d)  == d.node = "lit"

(* World::extract and World::tuple as far as they normalize: an element of a  *)
(* tuple is found, equal elements make a pack, and a tuple of all elements of *)
(* a def is that def.  A branch is an extract whose index is not a literal.   *)
Extract(i, d) == CASE d.node \in {"tuple", "args"} -> d.ops[i]
                   [] d.node = "pack"  -> d.ops[1]
                   [] OTHER            -> Def("extract", i, <<d>>)

Branch(d, index) == IF d.node = "pack" THEN d.ops[1] ELSE Def("branch", 0, <<d, index>>)

Tuple(ops) ==
    CASE \A i \in 1..Len(ops) : ops[i] = ops[1] -> Def("pack", 0, <<ops[1]>>)
      [] \A i \in 1..Len(ops) : /\ ops[i].node = "extract" /\ ops[i].flags = i
                                /\ ops[i].ops = ops[1].ops -> ops[1].ops[1]
      [] OTHER -> Def("tuple", 0, ops)

(* A tuple of any number of elements, which is left as it is.  World::tuple makes a  *)
(* pack of equal ones, and of all elements of a tuple that tuple: Extract gets the   *)
(* same of them.                                                              *)
Args(ops) == Def("args", 0, ops)

App(callee, arg) == Def("app", 0, <<callee, arg>>)

(* Def::rebuild with new operands.                                            *)
rebuild(d, ops) == CASE d.node = "extract" -> Extract(d.flags, ops[1])
                     [] d.node = "branch"  -> Branch(ops[1], ops[2])
                     [] d.node = "tuple"   -> Tuple(ops)
                     [] OTHER              -> Def(d.node, d.flags, ops)

(* The vars of a function: its value and its return continuation.             *)
var(l, i)  == Extract(i, Var(l))
ret_var(l) == var(l, 2)

is_set(l)      == l \notin Unset
isa_workable(l) == l \notin External /\ is_set(l)

(* The Lam that an App calls, as a set that is empty if there is none.        *)
apped_lam(d) == IF d.node = "app" /\ isa_lam(d.ops[1]) THEN {d.ops[1].flags} ELSE {}

-----------------------------------------------------------------------------
(* All defs a body is made of, nominals not entered.                          *)
RECURSIVE Defs(_)
Defs(d) == {d} \cup UNION {Defs(d.ops[i]) : i \in 1..Len(d.ops)}

(* The Lams a body mentions, be it only by their Vars, and those it uses.      *)
Mentions(d) == {e.flags : e \in {e \in Defs(d) : isa_lam(e)}}

RECURSIVE Refs(_)
Refs(d) == IF d.node = "var" THEN {} ELSE IF isa_lam(d) THEN {d.flags}
           ELSE UNION {Refs(d.ops[i]) : i \in 1..Len(d.ops)}

(* All Lams a program reaches from the Lams S.                                *)
RECURSIVE Reach(_, _)
Reach(lams, S) ==
    LET T == S \cup UNION {Refs(lams[l].body) : l \in {l \in S : is_set(l)}}
    IN  IF T = S THEN S ELSE Reach(lams, T)

(* The nominals found by Scope(l), which follows uses from the Var of l; the  *)
(* entry l itself is not among them.                                          *)
RECURSIVE BoundFrom(_, _, _)
BoundFrom(lams, l, B) ==
    LET C == {k \in DOMAIN lams \ {l} : is_set(k) /\
                 (Var(l) \in Defs(lams[k].body) \/ Mentions(lams[k].body) \cap B # {})}
    IN  IF C = B THEN B ELSE BoundFrom(lams, l, C)

(* Scope::bound: those of them that the entry reaches.                        *)
RECURSIVE ReachWithin(_, _, _)
ReachWithin(lams, S, B) ==
    LET T == S \cup UNION {Mentions(lams[k].body) \cap B : k \in S}
    IN  IF T = S THEN S ELSE ReachWithin(lams, T, B)

bound_within(lams, l, B) == ReachWithin(lams, Mentions(lams[l].body) \cap B, B)
bound(lams, l) == bound_within(lams, l, BoundFrom(lams, l, {}))

(* ScopeRewriter: the defs of the map m are replaced.                         *)
RECURSIVE Subst(_, _)
Subst(d, m) == IF d \in DOMAIN m THEN m[d]
               ELSE rebuild(d, [i \in 1..Len(d.ops) |-> Subst(d.ops[i], m)])

(* Def::reduce: the body of l with arg for its Var; what is bound in l is     *)
(* copied.  The copies get the next free numbers.                             *)
stubs(C, n) == CHOOSE f \in [C -> n+1..n+Cardinality(C)] : \A c, d \in C : c < d => f[c] < f[d]

Renamed(lams, l, copy, m) ==
    [lams |-> lams @@ [k \in {copy[c] : c \in DOMAIN copy} |->
                          LET c == CHOOSE c \in DOMAIN copy : copy[c] = k
                          IN  [lams[c] EXCEPT !.body = Subst(@, m)]],
     body |-> Subst(lams[l].body, m)]

ReducedBy(lams, l, arg, copy) ==
    Renamed(lams, l, copy,
            [k \in {Lam(c) : c \in DOMAIN copy} |-> Lam(copy[k.flags])] @@ (Var(l) :> arg))

Reduced(lams, l, arg) ==
    ReducedBy(lams, l, arg, stubs(bound(lams, l), Cardinality(DOMAIN lams)))

-----------------------------------------------------------------------------
(* What a program means: the continuation it jumps to in the end, which is    *)
(* the one it was started with (0) or an imported one, and the number it      *)
(* passes.  The axiom adds one, a branch tests for zero.  A continuation is a *)
(* Lam with the values of the Vars around it.  A proxy stands for the App it  *)
(* replaced.  A mem is the contents of the slots, which are 0 at first.        *)
Closure(k, env) == [lam |-> k, env |-> env]
Stuck           == Closure(-2, <<>>)    \* the Var of a Lam that was not called

RECURSIVE Eval(_, _, _)
Eval(lams, d, env) ==
    CASE d.node = "lam"     -> Closure(d.flags, env)
      [] d.node = "lit"     -> 0
      [] d.node = "var"     -> IF d.ops[1].flags \in DOMAIN env THEN env[d.ops[1].flags]
                               ELSE <<0, Stuck>>
      [] d.node = "extract" -> Eval(lams, d.ops[1], env)[d.flags]
      [] d.node = "branch"  -> Eval(lams, d.ops[1], env)[IF Eval(lams, d.ops[2], env) = 0 THEN 1 ELSE 2]
      [] d.node \in {"tuple", "args"} -> [i \in 1..Len(d.ops) |-> Eval(lams, d.ops[i], env)]
      [] d.node = "pack"    -> [i \in 1..2 |-> Eval(lams, d.ops[1], env)]
      [] d.node = "prim"    -> Eval(lams, d.ops[1], env) + 1
      [] d.node = "remem"   -> Eval(lams, d.ops[1], env)
      [] d.node = "slot"    -> <<(d.flags :> 0) @@ Eval(lams, d.ops[1], env), d.flags>>
      [] d.node = "load"    -> LET m == Eval(lams, d.ops[1], env) IN <<m, m[Eval(lams, d.ops[2], env)]>>
      [] d.node = "store"   -> [Eval(lams, d.ops[1], env) EXCEPT ![Eval(lams, d.ops[2], env)] = Eval(lams, d.ops[3], env)]
      [] OTHER              -> LET f == d.ops[1].flags    \* a call of a direct function
                               IN  Eval(lams, lams[f].body,
                                        (f :> Eval(lams, d.ops[2], env)) @@ env)

(* One jump after another, at most fuel of them.                              *)
Diverges == [to |-> -1, arg |-> 0]

RECURSIVE Jump(_, _, _, _)
Jump(lams, clo, arg, fuel) ==
    IF clo.lam <= 0 \/ clo.lam \in Unset THEN [to |-> clo.lam, arg |-> arg]
    ELSE IF fuel = 0 THEN Diverges
    ELSE LET env  == (clo.lam :> arg) @@ clo.env
             body == lams[clo.lam].body
         IN  Jump(lams, Eval(lams, body.ops[1], env), Eval(lams, body.ops[2], env), fuel - 1)

Meaning(lams, l, x, fuel) == Jump(lams, Closure(l, <<>>), <<x, Closure(0, <<>>)>>, fuel)

(* A Lam that the World lists uses no Var but its own.                        *)
Closed(lams, l) == \A v \in DOMAIN lams \ {l} : l \notin BoundFrom(lams, v, {})
=============================================================================
