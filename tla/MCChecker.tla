----------------------------- MODULE MCChecker -----------------------------
(***************************************************************************)
(* What binders do: which defs are bound in a nominal and which are free (Scope, *)
(* which this module extends), and which terms are the same up to their        *)
(* binders (Checker), with worlds and questions for it.  The setups plain,     *)
(* pair, values and unset are those in which its answers can be trusted; the    *)
(* others show what is reported in the README under "Known divergences".       *)
(***************************************************************************)
EXTENDS Scope, Sequences

VARIABLES setup, world, equiv_, vars_, asked

others  == <<setup, world, equiv_, vars_, asked>>
allVars == <<vars, others>>

-----------------------------------------------------------------------------
(* Three nominals, a literal and two structural defs.                          *)
lit    == 0
V(n)   == n + 3

AllDefs == 0..8

(* In these the Var of 2 has the type 8, an Idx of the shape 7 of the array 2, and 7  *)
(* may be a bottom whose type is the Var of 1; and 1 may have no Var.              *)
Arrays ==
    {[noms  |-> 1..3, const |-> IF s = {lit} THEN {lit, 7, 8} ELSE {lit}, var |-> [n \in has |-> V(n)],
      ops   |-> [d \in 0..8 |-> CASE d = lit -> {} [] d = 1 -> {x} [] d = 2 -> {7, y} [] d = 3 -> {z}
                                  [] d = 5 -> {2, 8} [] d \in {4, 6} -> {d - 3} [] d = 7 -> s [] d = 8 -> {7}]] :
        has \in {1..3, 2..3}, x \in {2, 3, V(2), 7, 8}, y \in {V(1), V(2), 3}, z \in {V(2), 8}, s \in {{V(1)}, {lit}}}

AllPrograms ==
    {[noms  |-> 1..3, const |-> {lit}, var |-> [n \in 1..3 |-> V(n)],
      ops   |-> [d \in 0..8 |-> CASE d = lit -> {} [] d \in 1..3 -> b[d] [] d \in 4..6 -> {d - 3}
                                  [] d = 7 -> s [] d = 8 -> t]] :
        b \in [1..3 -> {{}} \cup {{d} : d \in 1..8}],
        s \in {{V(1), V(2)}, {lit, 2}},
        t \in {{7, V(3)}, {V(1), 3}}}
    \cup Arrays

-----------------------------------------------------------------------------
D(node, isnom, type, ops, of) ==
    [node |-> node, nom |-> isnom, set |-> TRUE, type |-> type, flags |-> IF node = "Lit" THEN of ELSE 0, ops |-> ops, of |-> of]

(* 1 *, 2 Nat, 3-4 literals 1 and 2, 5 [Nat, Nat], 6 <<2; Nat>>, 7 [Nat, *], then     *)
(* the nominals A, B and C with their codomains, and their variables in some order. *)
Base == <<D("Type", FALSE, 0, <<>>, 0), D("Nat", FALSE, 1, <<>>, 0), D("Lit", FALSE, 2, <<>>, 1), D("Lit", FALSE, 2, <<>>, 2),
          D("Sigma", FALSE, 1, <<2, 2>>, 0), D("Arr", FALSE, 1, <<4, 2>>, 0), D("Sigma", FALSE, 1, <<2, 1>>, 0)>>
A == 8
B == 9
C == 10
Pi(cod, set) == [D("Pi", TRUE, 1, <<1, cod>>, 0) EXCEPT !.set = set]
World(cods, set, order) ==
    Base \o [i \in 1..3 |-> Pi(cods[i], set[i])] \o [i \in 1..3 |-> D("Var", FALSE, 1, <<>>, order[i])]
VarOf(order, n) == 10 + CHOOSE i \in 1..3 : order[i] = n
Ordered == <<A, B, C>>
Orders  == {o \in [1..3 -> {A, B, C}] : {o[i] : i \in 1..3} = {A, B, C}}
AllSet  == [i \in 1..3 |-> TRUE]

(* Codomains without a variable, or the variable of the Pi itself.                 *)
PlainGraphs  == {World(<<c, d, e>>, AllSet, Ordered) : c, d \in {2, 5, 6, 7, 8, 9, 10}, e \in {5, 7}}
PlainAsked   == {<<x, y>> : x, y \in {2, 5, 6, 7, A, B, C}}
PairGraphs   == {World(<<c, d, 2>>, AllSet, Ordered) : c \in {2, 5, 6, 7, 9, 10, 11}, d \in {2, 5, 6, 7, 10, 12}}
BinderGraphs == {World(<<VarOf(Ordered, A), VarOf(Ordered, B), VarOf(Ordered, C)>>, AllSet, Ordered)}
OrderGraphs  == {World(<<VarOf(o, A), VarOf(o, B), VarOf(o, C)>>, AllSet, o) : o \in Orders}
Pis          == {<<x, y>> : x, y \in {A, B, C}}
Pairs        == {<<A, B>>, <<B, A>>, <<A, 2>>, <<5, A>>}

(* A = Pi [A, Nat]. Nat and B = Pi [B, Nat]. *                                     *)
MemoGraphs   == {Base \o <<D("Pi", TRUE, 1, <<11, 2>>, 0), D("Pi", TRUE, 1, <<12, 1>>, 0), Pi(2, TRUE),
                           D("Sigma", FALSE, 1, <<8, 2>>, 0), D("Sigma", FALSE, 1, <<9, 2>>, 0)>>}
MemoAsked    == {<<8, 9>>, <<11, 12>>}
StaleAsked   == {<<A, B>>, <<11, 12>>}
SetGraphs    == {World(<<c, d, C>>, <<TRUE, s, t>>, Ordered) : c, d \in {5, A, B, C}, s, t \in BOOLEAN}
(* 8 is the nominal [x: Nat, Idx x], 13 and 14 are Idx 2 and Idx 1, 15 [Nat, Idx 2],  *)
(* then values: of Idx 2, pairs of Nat and Idx 2 and of two Nats, one of a Join.      *)
ValueGraphs  == {Base \o <<D("Sigma", TRUE, 1, <<2, 12>>, 0), D("Axiom", FALSE, 1, <<>>, 0), D("Var", FALSE, 8, <<>>, 8),
    D("Extract", FALSE, 2, <<10, 3>>, 0), D("App", FALSE, 1, <<9, 11>>, 0), D("App", FALSE, 1, <<9, 4>>, 0), D("App", FALSE, 1, <<9, 3>>, 0),
    D("Sigma", FALSE, 1, <<2, 13>>, 0), D("Bot", FALSE, 13, <<>>, 0), D("Tuple", FALSE, 15, <<4, 16>>, 0), D("Tuple", FALSE, 15, <<3, 16>>, 0),
    D("Tuple", FALSE, 6, <<3, 4>>, 0), D("Join", FALSE, 1, <<2, 13>>, 0), D("Vel", FALSE, 20, <<3>>, 0), D("Sigma", FALSE, 1, <<20, 2>>, 0),
    D("Tuple", FALSE, 22, <<21, 4>>, 0), D("Sigma", FALSE, 1, <<2, 15>>, 0), D("Tuple", FALSE, 24, <<3, 17>>, 0)>>}
ValuePairs   == {<<t, v>> : t \in {2, 5, 6, 8, 13, 15, 20, 22, 24}, v \in {3, 16, 17, 18, 19, 21, 23, 25}}
ValueAsked   == {<<5, 6>>, <<8, 15>>, <<13, 14>>}
ValueReduce(w, s, v) == IF s = 8 THEN <<2, IF w[v].ops[1] = 4 THEN 13 ELSE 14>> ELSE w[s].ops

Setup(graphs, asks, max) == [graphs |-> graphs, asked |-> asks, values |-> {}, max |-> max]
MCSetups == [plain  |-> Setup(PlainGraphs, PlainAsked, 2),
             pair   |-> Setup(PairGraphs, Pairs, 2),
             values |-> [Setup(ValueGraphs, ValueAsked, 2) EXCEPT !.values = ValuePairs],
             unset  |-> Setup(SetGraphs, Pis, 3),
             binder |-> Setup(BinderGraphs, Pis, 2),
             order  |-> Setup(OrderGraphs, Pis, 1),
             memo   |-> Setup(MemoGraphs, MemoAsked, 2),
             stale  |-> Setup(BinderGraphs, StaleAsked, 2)]

K == INSTANCE Checker WITH Setups <- MCSetups, Reduce <- ValueReduce, g <- world

(* Scope stands still while the checker is asked, and the other way round.          *)
Nested  == CHOOSE p \in AllPrograms : p.ops[1] = {2} /\ p.ops[2] = {V(1)} /\ p.ops[3] = {}
idle    == "idle"
AllInit == \/ Init /\ entry = 1 /\ setup = idle /\ world = idle /\ equiv_ = idle /\ vars_ = idle /\ asked = <<>>
           \/ g = Nested /\ entry = 1 /\ Init /\ K!Init
AllNext == \/ setup = idle /\ Next /\ UNCHANGED others
           \/ setup # idle /\ K!Next /\ UNCHANGED vars
AllSpec == AllInit /\ [][AllNext]_allVars
(* These are programs that the theorems about Scope are about.                     *)
ASSUME AllPrograms_OK == ProgramsOK /\ VarsTyped

-----------------------------------------------------------------------------
Asks(kind, pairs) == [i \in DOMAIN pairs |-> <<kind, pairs[i][1], pairs[i][2]>>]
Log == [i \in DOMAIN asked |-> <<asked[i].kind, asked[i].x, asked[i].y>>]

Right ==
    \/ setup \in {"plain", "pair", "values"}
    \/ setup = "unset" /\ \A i, j \in DOMAIN asked : asked[i].kind = "equiv" /\ asked[j].kind = "set" => i > j
    \/ setup = "order" /\ world \in BinderGraphs
    \/ setup \in {"binder", "memo", "stale"} /\ Len(asked) = 1

TooMany == setup = "binder" /\ Log = Asks("equiv", <<<<A, B>>, <<A, C>>>>)
Crossed == setup = "order" /\ world = World(<<12, 13, 11>>, AllSet, <<C, A, B>>) /\ Log = Asks("equiv", <<<<A, C>>>>)
Unset   == setup = "unset" /\ world = World(<<C, A, C>>, AllSet, Ordered)
           /\ Log = <<<<"equiv", A, B>>, <<"set", C, C>>, <<"equiv", A, B>>>>
Assumed == setup = "memo" /\ Log = Asks("equiv", <<<<8, 9>>, <<11, 12>>>>)
Free    == setup = "stale" /\ Log = Asks("equiv", <<<<A, B>>, <<11, 12>>>>)

(* check.h:19, 22: equiv answers yes exactly for what is alpha-equivalent, and          *)
(* assignable for the types that a value is a value of.  Not so, when a Pi is        *)
(* compared a second time, when variables were made in another order than their Pis, *)
(* or when a nominal has been set since: what is equivalent is then told apart; and    *)
(* not when what was assumed meanwhile, or a Pi that is not around any more, makes     *)
(* what differs equal.  And is_free compares a Var without components with itself,    *)
(* so that every def with operands counts as one that it is free in (scope.cpp:99);   *)
(* and it says no of a def without operands whose type depends on the Var (:96).       *)
Undivided == INSTANCE Scope WITH Split <- {}
Bottoms   == INSTANCE Scope WITH Bare <- {lit, 7}
Exact ==
    /\ Right => K!Sound /\ K!Complete /\ K!Assigns
    /\ TooMany \/ Crossed \/ Unset => ~K!Complete
    /\ Assumed \/ Free => ~K!Sound
    /\ pc = "done" /\ g.ops[1] = {1} => Undivided!is_free(1) /\ 1 \notin Dependent(g, 1)
    /\ pc = "done" /\ g.ops[1] = {7} /\ g.ops[7] = {V(1)} /\ 1 \in DOMAIN g.var
          => 7 \in Dependent(g, 1) /\ ~Bottoms!is_free(7)

(* check.cpp:27: see Steady of Checker.                                            *)
Steady == setup # idle => K!Steady
=============================================================================
