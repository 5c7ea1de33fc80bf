----------------------------- MODULE MCRewrite ------------------------------
(***************************************************************************)
(* The rewriting passes, each on programs of its own: the dialect direct,    *)
(* the passes of thorin/pass/rw, and Reshape of the dialect mem. part says   *)
(* which of them a behaviour is of; the variables stand for those of its     *)
(* module, and what it has no use for is idle.                              *)
(***************************************************************************)
EXTENDS Lambda
LOCAL INSTANCE SequencesExt

VARIABLES part, lams, phase, todo, seen, memo, s1, s2, s3, old

vars == <<part, lams, phase, todo, seen, memo, s1, s2, s3, old>>
idle == "idle"
x    == Extract(1, Var(1))
some(S) == CHOOSE v \in S : TRUE

-----------------------------------------------------------------------------
(* A function (1), two direct functions (2, 3) of which the first may use the   *)
(* value of 1, and two continuations (4, 5) that 1 jumps to.                    *)
DirectProgram(m, b, c, k, l) ==
    1 :> [kind |-> "F", body |-> m] @@ 2 :> [kind |-> "D", body |-> b] @@ 3 :> [kind |-> "D", body |-> c] @@
    4 :> [kind |-> "K", body |-> k] @@ 5 :> [kind |-> "K", body |-> l]

AllDirects ==
    LET f == 2
        g == 3
        Call(h, a) == App(Lam(h), a)
        fs == {Prim(Var(f)), Prim(x)}
        gs == {Call(f, Var(g)), Prim(Call(f, Prim(Var(g))))}
        exprs(v) == {Call(f, v), Call(g, Call(f, v)), Prim(Call(g, Prim(v)))}
        ks == {App(ret_var(1), e) : e \in exprs(Var(4)) \cup {x, Call(f, x), Call(f, Lit)}}
        either(c) == Branch(Tuple(<<Lam(4), Lam(5)>>), c)
        mains == {App(j, e) : j \in {ret_var(1), Lam(4), either(x), either(Call(f, x))}, e \in exprs(x) \cup {x, Call(f, Lit)}}
        ls == {App(Lam(4), Call(f, Var(5))), App(ret_var(1), Call(g, Var(5))), App(ret_var(1), Call(f, x))}
    IN  {DirectProgram(m, b, c, k, l) : m \in mains, b \in fs, c \in gs, k \in ks, l \in ls}

(* No call is in two bodies, but in this program, where both 4 and 5 call 2 with x. *)
Shared(p) == LET calls(l) == {d \in Defs(p[l].body) : apped_lam(d) \cap {2, 3} # {}}
             IN  \E i \in DOMAIN p : \E j \in DOMAIN p \ {i} : calls(i) \cap calls(j) # {}
SharesCall == DirectProgram(App(Branch(Tuple(<<Lam(4), Lam(5)>>), x), x), Prim(Var(2)), App(Lam(2), Var(3)),
                            App(ret_var(1), App(Lam(2), x)), App(ret_var(1), App(Lam(2), x)))
Directs == {p \in AllDirects : ~Shared(p)} \cup {SharesCall}

D == INSTANCE Direct WITH Programs <- Directs, Main <- 1, Fuel <- 30, twin <- s1, rewritten_lams <- s2
DirectInit == D!Init /\ s3 = idle
DirectNext == D!Next /\ UNCHANGED s3

-----------------------------------------------------------------------------
(* A function (1) that calls one of two functions (2, 3) of the same domain, and   *)
(* a continuation (4).  Arguments for parameters: a or b for values, c for all      *)
(* continuations but the last.                                                     *)
T == INSTANCE RWPasses WITH Programs <- {}, Phases <- <<>>, Main <- 1, Fuel <- 12, cache <- s1, spec <- s2, tup2sca <- s3

Sigs == {<<T!Sig(<<T!Val, T!Val>>), T!Cont>>, <<T!Val, T!Cont, T!Cont>>, <<T!Nom(<<T!Val, T!Val>>), T!Cont>>,
         <<T!Sig(<<>>), T!Val, T!Cont>>, <<T!Sig(<<T!Sig(<<T!Val, T!Val>>), T!Val>>), T!Cont>>}

RECURSIVE MakeOf(_, _, _), LeavesOf(_, _)
MakeOf(t, a, b) == CASE t = T!Val -> a
                     [] t # T!Val /\ Len(t.ops) = 0 -> T!tuple(<<>>)
                     [] OTHER -> Args([i \in DOMAIN t.ops |-> IF i = 1 THEN MakeOf(t.ops[i], a, Prim(b)) ELSE MakeOf(t.ops[i], Prim(b), a)])
LeavesOf(t, d)  == CASE t = T!Val -> {d} [] t = T!Cont -> {}
                     [] OTHER -> UNION {LeavesOf(t.ops[i], Extract(i, d)) : i \in DOMAIN t.ops}

Pass(sig, a, b, c, r) == T!tuple([i \in DOMAIN sig |-> IF i = Len(sig) THEN r ELSE IF sig[i] = T!Cont THEN c ELSE MakeOf(sig[i], a, b)])
values(sig, l) == UNION {LeavesOf(sig[i], Extract(i, Var(l))) : i \in DOMAIN sig}
conts(sig, l)  == {Extract(i, Var(l)) : i \in {i \in DOMAIN sig : sig[i] = T!Cont}}

Leaf(sig, l)     == {App(c, v) : c \in conts(sig, l), v \in values(sig, l)}
                    \cup {App(Lam(4), Prim(some(values(sig, l)))), App(ret_var(1), x), App(Lam(4), x)}
Again(sig, l, k) == {App(Lam(k), Pass(sig, some(values(sig, l)), Lit, some(conts(sig, l)), c)) : c \in conts(sig, l)}
Mains(sig)       == {App(Lam(2), Pass(sig, x, Prim(x), Lam(4), ret_var(1))), App(Lam(2), Pass(sig, Lit, x, Lam(4), Lam(4))),
                     App(Branch(Tuple(<<Lam(2), Lam(3)>>), x), Pass(sig, x, Prim(x), Lam(4), ret_var(1)))}
Fours(sig)       == {App(ret_var(1), Prim(Var(4))), App(Lam(3), Pass(sig, Lit, Var(4), Lam(4), ret_var(1)))}

RWProgram(sig, m, b, f, c, g, k) ==
    1 :> [kind |-> "F", sig |-> <<T!Val, T!Cont>>, filter |-> "ff", body |-> m] @@
    2 :> [kind |-> "F", sig |-> sig, filter |-> f, body |-> b] @@
    3 :> [kind |-> "F", sig |-> sig, filter |-> g, body |-> c] @@
    4 :> [kind |-> "K", sig |-> <<T!Val>>, filter |-> "ff", body |-> k]

Evaluating == UNION {{RWProgram(s, m, b, f, c, g, App(ret_var(1), Prim(Var(4)))) :
                         m \in Mains(s), b \in Leaf(s, 2) \cup Again(s, 2, 3), f \in {"ff", "known"},
                         c \in Leaf(s, 3), g \in {"tt", "known"}} : s \in Sigs}
Looping == UNION {{RWProgram(s, m, b, "ff", c, "ff", k) :
                         m \in Mains(s), b \in Leaf(s, 2) \cup Again(s, 2, 3), c \in Leaf(s, 3) \cup Again(s, 3, 2) \cup Again(s, 3, 3),
                         k \in Fours(s)} : s \in Sigs}

RW == INSTANCE RWPasses WITH Programs <- Evaluating \cup Looping, Phases <- <<"partial_eval", "scalerize", "lam_spec", "ret_wrap">>,
         Main <- 1, Fuel <- 12, cache <- s1, spec <- s2, tup2sca <- s3

(* LamSpec alone on a function of two continuations that does not call itself.      *)
PassesTwo == {LET s == <<T!Val, T!Cont, T!Cont>>
              IN  RWProgram(s, App(Lam(2), Pass(s, x, x, Lam(4), ret_var(1))), App(Extract(2, Var(2)), Extract(1, Var(2))), "ff",
                            App(ret_var(1), x), "ff", App(ret_var(1), Prim(Var(4))))}
SP == INSTANCE RWPasses WITH Programs <- PassesTwo, Phases <- <<"lam_spec">>,
         Main <- 1, Fuel <- 12, cache <- s1, spec <- s2, tup2sca <- s3

-----------------------------------------------------------------------------
(* main calls f (2) with a continuation, 3 or its own, and f calls it or hands it  *)
(* on; 3 calls main's.                                                            *)
S == INSTANCE Reshape WITH Programs <- {}, Modes <- {}, Entry <- 1, Fuel <- 8, mode <- phase, old2new <- memo, main <- s1, external <- s2
Sg(ts) == S!sigma(ts)
M   == S!M
A   == S!A
B   == S!B
U   == Sg(<<>>)
Fn(t) == S!Pi(t)

Inner == {Sg(<<M, A>>), Sg(<<Sg(<<M, B>>), A>>), Sg(<<A, Sg(<<B, M>>)>>), Sg(<<U, M, A>>)}
Outer(k) == {Sg(<<M, A, k>>), Sg(<<Sg(<<M, A, B>>), A, k>>), Sg(<<A, Sg(<<Sg(<<B, A>>), M>>), k>>),
             Sg(<<M, Sg(<<M, A>>), k>>), Sg(<<k, Sg(<<B, U>>), M, A>>), Sg(<<Sg(<<k, A>>), Sg(<<M, k>>)>>),
             Sg(<<Sg(<<M, B>>), Sg(<<A, A, A>>), k>>), Sg(<<M, Sg(<<A, k>>)>>)}

(* A def of type t out of a mem, a value and a continuation.                       *)
Row(ds) == IF Len(ds) = 1 THEN ds[1] ELSE Args(ds)
RECURSIVE Make(_, _, _, _), Leaves(_, _)
Make(t, m, a, k) ==
    CASE t = M -> m [] t = A -> a [] t = B -> S!Conv(a) [] t.node = "pi" -> k
      [] OTHER -> Row([i \in DOMAIN t.ops |-> Make(t.ops[i], m, IF i = 1 THEN a ELSE Prim(a), k)])
Leaves(t, d) == IF t.node \in {"sigma", "arr"} THEN UNION {Leaves(t.ops[i], Extract(i, d)) : i \in DOMAIN t.ops} ELSE {<<t, d>>}
of(t, l, s)  == {y[2] : y \in {y \in Leaves(t, Var(l)) : y[1] = s}}

call(k, t, m, a, c) == App(k, Make(t, m, a, c))
ret == Extract(3, Var(1))

Shape(t, s, m, b, c) == 1 :> [dom |-> Sg(<<M, A, Fn(Sg(<<M, A>>))>>), filter |-> FALSE, body |-> m] @@ 2 :> [dom |-> t, filter |-> FALSE, body |-> b] @@ 3 :> [dom |-> s, filter |-> FALSE, body |-> c]
With(t, s) == {Shape(t, s, call(Lam(2), t, x, Extract(2, Var(1)), IF s = Sg(<<M, A>>) /\ own THEN ret ELSE Lam(3)), b,
                     App(ret, Args(<<some(of(s, 3, M)), a>>))) :
                 own \in BOOLEAN, a \in of(s, 3, A),
                 b \in {call(k, s, Prim(some(of(t, 2, M))), a, Lit) : k \in of(t, 2, Fn(s)), a \in of(t, 2, A)}
                       \cup {call(Lam(2), t, Prim(some(of(t, 2, M))), Lit, k) : k \in of(t, 2, Fn(s))}}
Shapes == UNION {UNION {With(t, s) : t \in Outer(Fn(s))} : s \in Inner}

(* Equal: 3 gets an array of two values.  Unit: one of its parameters is a unit.   *)
(* Pair: f gets an array of two functions.                                        *)
UsesOf(t, s, d) == Shape(t, s, call(Lam(2), t, x, Extract(2, Var(1)), Lam(3)), call(some(of(t, 2, Fn(s))), s, some(of(t, 2, M)), Lit, Lit),
                         App(ret, Args(<<x, d>>)))
Equal == UsesOf(Sg(<<M, A, A, Fn(Sg(<<M, A>>))>>), Sg(<<M, A>>), Extract(2, Var(3)))
Unit  == UsesOf(Sg(<<M, A, Fn(Sg(<<A, U, A>>))>>), Sg(<<A, U, A>>), Extract(1, Var(3)))
Pair  == LET s == Sg(<<A, Sg(<<A, B>>)>>)
         IN  Shape(Sg(<<Fn(s), Fn(s)>>), s, App(Lam(2), Args(<<Lam(3), Lam(3)>>)), App(Extract(1, Var(2)), Make(s, Lit, Lit, Lit)),
                   App(ret, Args(<<x, Extract(1, Var(3))>>)))

RS == INSTANCE Reshape WITH Programs <- Shapes \cup {Equal, Unit, Pair}, Modes <- {"flat", "arg"}, Entry <- 1, Fuel <- 8,
         mode <- phase, old2new <- memo, main <- s1, external <- s2
ShapeInit == RS!Init /\ (old = Equal => phase = "arg") /\ (old \in {Unit, Pair} => phase = "flat") /\ s3 = idle
ShapeNext == RS!Next /\ UNCHANGED s3

-----------------------------------------------------------------------------
Init == \/ part = "direct"  /\ DirectInit
        \/ part = "rw"      /\ RW!Init
        \/ part = "spec"    /\ SP!Init
        \/ part = "reshape" /\ ShapeInit

Step(p, Action) == part = p /\ Action /\ part' = p
Next == \/ Step("direct", DirectNext)
        \/ Step("rw", RW!Next)
        \/ Step("spec", SP!Next)
        \/ Step("reshape", ShapeNext)
Spec == Init /\ [][Next]_vars

-----------------------------------------------------------------------------
(* What comes out does what went in did: it jumps to the same continuation, with   *)
(* the same value and the same mem; with the passes of pass/rw even after each     *)
(* nominal that is visited.  Assertions of Reshape fail for Equal and Unit.         *)
Preserved ==
    CASE part = "direct" -> old = SharesCall \/ D!Preserved
      [] part = "rw"     -> RW!Preserved
      [] part = "reshape" -> IF old \in {Equal, Unit} THEN RS!Done => ~RS!Matched
                             ELSE RS!Matched /\ (old # Pair => RS!Preserved)
      [] OTHER -> TRUE

(* What was split off is used only below the call that delivers it; the function    *)
(* escapes for SharesCall.  A call and the callee's type fit, not so for Pair.       *)
WellFormed ==
    CASE part = "direct"  -> IF old = SharesCall /\ phase = "done" THEN ~D!StaysClosed ELSE old # SharesCall => D!StaysClosed
      [] part = "reshape" -> old \in {Equal, Unit} \/ (IF old = Pair THEN RS!Done => ~RS!WellTyped ELSE RS!WellTyped)
      [] OTHER -> TRUE

(* The form that each pass is there for: no direct calls; no call whose filter says  *)
(* yes, no parameter to open, no return continuation that is passed; the two styles. *)
(* LamSpec leaves continuations that are passed: see PassesTwo.                      *)
InForm ==
    CASE part = "direct" -> old = SharesCall \/ D!NoDirectCall
      [] part = "rw"     -> RW!Evaluated /\ RW!FlatCalls /\ RW!RetOnlyCalled
      [] part = "spec"   -> phase = 2 => ~SP!FirstOrder
      [] OTHER           -> old \in {Equal, Unit, Pair} \/ RS!InForm
=============================================================================
