----------------------------- MODULE MCOptimize -----------------------------
(***************************************************************************)
(* Small programs for Optimize: main is external, f and h are functions, k  *)
(* is a continuation, g a direct function, e an imported continuation.      *)
(***************************************************************************)
EXTENDS Optimize

BetaEta   == <<"beta_red", "eta_red", "eta_exp">>
CopyPasses == <<"beta_red", "eta_red", "eta_exp", "copy_prop">>
AllPasses == <<"beta_red", "eta_red", "eta_exp", "tail_rec">>
SSAPasses == <<"beta_red", "eta_red", "eta_exp", "ssa">>

main == 1
f == 2
h == 3
k == 4
g == 5
e == 6

Val(l, v) == LET x == IF l = k THEN Var(k) ELSE var(l, 1)
             IN  CASE v = "x"  -> x
                   [] v = "gx" -> App(Lam(g), x)

(* Funs: the functions that may be called; Calls: the values a call may pass;  *)
(* Conts: the continuations that may be passed; Tests: the Lams that may branch. *)
Bodies(l, Funs, Calls, Conts, Tests) ==
    LET Returns == {ret_var(c) : c \in {main} \cup Funs} \cup {Lam(c) : c \in Conts}
    IN  {App(Lam(c), Tuple(<<Val(l, v), r>>)) : c \in Funs, v \in Calls, r \in Returns}
        \cup {App(r, Val(l, v)) : v \in Calls, r \in Returns}
        \cup {App(Branch(Tuple(<<Lam(c), r>>), Val(l, "x")), Val(l, v)) :
                  c \in IF l \in Tests THEN Conts ELSE {}, v \in Calls, r \in Returns}

Programs(Funs, Calls, Conts, Tests) ==
    LET B(l) == Bodies(l, Funs, Calls, Conts, Tests) IN
    {p \in {[l \in 1..6 |-> CASE l = g -> [kind |-> "D", body |-> Prim(Var(g))]
                             [] l = e -> [kind |-> "K", body |-> Lit]
                             [] l = k -> [kind |-> "K", body |-> bk]
                             [] l = main -> [kind |-> "F", body |-> bm]
                             [] l = f -> [kind |-> "F", body |-> bf]
                             [] l = h -> [kind |-> "F", body |-> bh]] :
              bm \in B(main), bf \in B(f),
              bh \in IF h \in Funs THEN B(h) ELSE {Lit},
              bk \in IF k \in Conts THEN B(k) ELSE {Lit}} :
        \A l \in External : Closed(p, l)}

-----------------------------------------------------------------------------
(* main with two slots, p and q, and the basic blocks 2 and 3 within main, which *)
(* load, store and jump; 4 gets an address, from one of them or from 5.         *)
arg1(i) == Extract(i, Var(1))
slot1 == Def("slot", 1, <<arg1(1)>>)
slot2 == Def("slot", 2, <<Extract(1, slot1)>>)
p == Extract(2, slot1)
q == Extract(2, slot2)
ret == arg1(3)
load(m, ptr)  == Def("load", 0, <<m, ptr>>)
store(m, ptr, v) == Def("store", 0, <<m, ptr, v>>)

Stmt(s, m) == CASE s = "skip" -> m
                [] s = "p=x"  -> store(m, p, arg1(2))
                [] s = "p=0"  -> store(m, p, Lit)
                [] s = "p=1"  -> store(m, p, Prim(Lit))
                [] s = "q=p"  -> store(Extract(1, load(m, p)), q, Extract(2, load(m, p)))
                [] s = "p++"  -> store(Extract(1, load(m, p)), p, Prim(Extract(2, load(m, p))))
Term(t, m) == CASE t = "2"    -> App(Lam(2), m)
                [] t = "3"    -> App(Lam(3), m)
                [] t = "2|3"  -> App(Branch(Tuple(<<Lam(2), Lam(3)>>), Extract(2, load(m, p))), Extract(1, load(m, p)))
                [] t = "3|2"  -> App(Branch(Tuple(<<Lam(3), Lam(2)>>), Extract(2, load(m, p))), Extract(1, load(m, p)))
                [] t = "2|4"  -> App(Branch(Tuple(<<Lam(2), Lam(5)>>), Extract(2, load(m, p))), Extract(1, load(m, p)))
                [] t = "p"    -> App(ret, Args(<<Extract(1, load(m, p)), Extract(2, load(m, p))>>))
                [] t = "q"    -> App(ret, Args(<<Extract(1, load(m, q)), Extract(2, load(m, q))>>))
                [] t = "4"    -> App(Lam(4), Args(<<m, p>>))

Body(s, t, m) == Term(t, Stmt(s, m))
four == App(ret, Args(<<Extract(1, load(Extract(1, Var(4)), Extract(2, Var(4)))), Prim(Extract(2, load(Extract(1, Var(4)), Extract(2, Var(4)))))>>))
five == App(Lam(4), Args(<<Var(5), p>>))
Slotted(m, b, c) == 1 :> [kind |-> "F", n |-> 3, body |-> m] @@ 2 :> [kind |-> "M", n |-> 1, body |-> b] @@
                    3 :> [kind |-> "M", n |-> 1, body |-> c] @@ 4 :> [kind |-> "M", n |-> 2, body |-> four] @@ 5 :> [kind |-> "M", n |-> 1, body |-> five] @@
                    e :> [kind |-> "M", n |-> 1, body |-> Lit]
Entries == {Body(s, t, Extract(1, slot2)) : s \in {"skip", "p=x"}, t \in {"2", "2|3", "2|4"}}

(* Two blocks that only jump to each other are EtaRed's circle, see Circle.          *)
Endless(prog) == \A l \in 2..3 : prog[l].body = App(Lam(5 - l), Var(l))

SlotPrograms == {prog \in {Slotted(m, b, c) : m \in Entries,
                  b \in {Body(s, t, Var(2)) : s \in {"skip", "p++", "p=0"}, t \in {"3", "2|3", "3|2", "p", "4"}},
                  c \in {Body(s, t, Var(3)) : s \in {"skip", "p=1", "q=p"}, t \in {"2", "2|3", "p", "q", "4"}}} : ~Endless(prog)}

-----------------------------------------------------------------------------
With(passes, progs) == {[lams |-> prog, passes |-> passes] : prog \in progs}

(* Two functions that only call each other: EtaRed replaces each by the other.     *)
Circle == [l \in 1..6 |-> CASE l \in {main, h} -> [kind |-> "F", body |-> App(Lam(f), Var(l))]
                           [] l = f -> [kind |-> "F", body |-> App(Lam(h), Var(l))]
                           [] l \in {k, e} -> [kind |-> "K", body |-> Lit]
                           [] l = g -> [kind |-> "D", body |-> Prim(Var(g))]]

MCSetups == With(AllPasses, Programs({2}, {"x", "gx"}, {4}, {2, 4}))
            \cup With(CopyPasses, Programs({2}, {"x", "gx"}, {4}, {2, 4}))
            \cup With(BetaEta, Programs({2}, {"x", "gx"}, {4, 6}, {2}))
            \cup With(SSAPasses, SlotPrograms) \cup With(BetaEta, {Circle})

(* TailRecElim copies a proxy of BetaRed.                                        *)
ProxySetups  == With(AllPasses, Programs({2}, {"x", "gx"}, {4}, {}))

-----------------------------------------------------------------------------
(* The proxies of BetaRed that TailRecElim copies stay: see OptProxy.             *)
StabilizesElse == IF old = Circle THEN pc # "done" ELSE Stabilizes

NoProxyLeftElse == ~Uses("tail_rec") => NoProxyLeft

(* SSAConstr: main and the loop 2, which increments p, branch to 2 and 3 by one    *)
(* tuple, so that 3 gets the p of main when 2 goes to it.                          *)
StaleReads == {Slotted(Body(s, "2|3", Extract(1, slot2)), Body("p++", "2|3", Var(2)), Body(c[1], c[2], Var(3))) :
                  s \in {"skip", "p=x"}, c \in ({"skip", "q=p"} \X {"4", "p"}) \cup {<<"q=p", "q">>}}
SameButStale == IF pc = "done" /\ old \in StaleReads THEN ~SameMeaning ELSE SameMeaning
=============================================================================
