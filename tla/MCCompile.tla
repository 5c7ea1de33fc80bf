----------------------------- MODULE MCCompile ------------------------------
(***************************************************************************)
(* What compiles a program as a whole: phases, the pipeline that a program   *)
(* describes, the scheduler by which the emitter finds a block for each def,  *)
(* which this module extends, and the emitter for LLVM.  part says which of   *)
(* them a behaviour is of; old and s1 to s7 stand for the variables of its    *)
(* module, the rest is idle.                                                *)
(***************************************************************************)
EXTENDS Schedule, TLC

VARIABLES part, old, s1, s2, s3, s4, s5, s6, s7

others  == <<old, s1, s2, s3, s4, s5, s6, s7>>
allVars == <<part, vars, others>>
idle == "idle"
Seqs == INSTANCE SequencesExt

-----------------------------------------------------------------------------
(* Three nominals: two functions and a function type, an inference variable or   *)
(* a third function, with every body of a small set.  A type depends on its own  *)
(* variable, but does not contain itself; an inference variable is solved by     *)
(* what it is not part of.                                                      *)
T == INSTANCE Phases WITH Worlds <- {}, MaxMarks <- 2, MaxPhases <- 2,
        noms <- s1, ext <- s2, run <- s3, marks <- s4, phases <- s5
Nom(k) == T!Nom(k)
Str(f, ops) == T!Str(f, ops)
TypeBodies == {T!Null, Str("lit", <<>>), Nom(2), T!VarOf(1), Str("app", <<Nom(1), T!VarOf(3)>>), Str("app", <<Nom(3), T!VarOf(1)>>),
               Str("app", <<Nom(3), Str("app", <<Nom(2), Nom(3)>>)>>)}
Fun(name, type, body) == [sort |-> "lam", name |-> name, type |-> type, ops |-> <<body>>]
Third(sort, body) == [sort |-> sort, name |-> 9, type |-> Str("star", <<>>),
                      ops |-> IF sort = "pi" THEN <<Str("lit", <<>>), body>> ELSE <<body>>]
Thirds == [lam |-> TypeBodies, pi |-> {Str("lit", <<>>), Str("app", <<T!VarOf(3)>>), Str("app", <<Str("lit", <<>>)>>)},
           infer |-> {T!Null, Str("lit", <<>>), T!VarOf(1)}]
TypesOf(s) == IF s = "pi" THEN {Str("cn", <<>>), Nom(3)} ELSE {Str("cn", <<>>)}

Worlds == UNION {UNION {{<<Fun(1, Str("cn", <<>>), a), Fun(2, t, b), Third(s, c)>> : a, b \in TypeBodies, c \in Thirds[s]} :
                          t \in TypesOf(s)} : s \in {"lam", "pi", "infer"}}
(* Two functions of the same name.                                             *)
Namesakes == <<Fun(1, Str("cn", <<>>), T!VarOf(1)), Fun(1, Str("cn", <<>>), T!VarOf(2))>>

PH == INSTANCE Phases WITH Worlds <- Worlds \cup {Namesakes}, MaxMarks <- 2, MaxPhases <- 2,
        noms <- s1, ext <- s2, run <- s3, marks <- s4, phases <- s5
PhasesInit == PH!Init /\ s6 = idle /\ s7 = idle /\ old = s1
PhasesNext == PH!Next /\ UNCHANGED <<s6, s7, old>> /\ (old = Namesakes => s3'.kind = "none")

(* The program afterwards is the one from before.  Of two namesakes the second   *)
(* says that it is external as soon as the first one is.                        *)
ProgramKept ==
    part = "phases" =>
        IF old = Namesakes THEN s2 # <<>> => ~PH!ExternalIsOwn
        ELSE PH!Copied /\ PH!NoOld /\ PH!Clean /\ (s5 = 0 => PH!ExternalIsOwn)

-----------------------------------------------------------------------------
(* Pipelines of up to two phases: a pass list of up to three passes, alone or    *)
(* combined of two lists, with selections of a dialect and functions, beside     *)
(* phases of other kinds.  The functions _compile and _fallback_compile, one of   *)
(* another name and one that is no pipeline.                                    *)
eta    == <<"pass", "eta_red">>
exp    == <<"arg", "eta_exp", eta>>
sel(q) == <<"select", "clos", q, <<"null">>>>
Passes == {eta, exp, <<"arg", "scalerize", exp>>, sel(eta), <<"arg", "eta_exp", <<"null">>>>, <<"apply", <<"pass", "beta_red">>>>}
Lists  == {<<"list", l>> : l \in UNION {[1..n -> Passes] : n \in 1..2} \cup [1..3 -> {eta, exp, sel(eta)}]}
          \cup {<<"combine", <<<<"list", a>>, <<"list", b>>>>>> : a, b \in UNION {[1..n -> {exp, sel(eta)}] : n \in 0..2}}
Leads  == {<<>>, <<<<"phase", "add_mem">>>>, <<<<"phase", "lower_typed_clos">>, <<"single", eta>>>>,
           <<<<"combined", <<<<"single", exp>>, <<"select", "mem", <<"single", eta>>, <<"passes", <<>>>>>>>>>>>>}
(* A pass that takes a selection for its argument.                              *)
TakesSelection == <<<<"pass_phase", <<"list", <<sel(eta), <<"arg", "eta_exp", sel(eta)>>>>>>>>>>
Fallback == <<<<"phase", "add_mem">>>>

PL0 == INSTANCE Pipeline WITH Programs <- {}, Dirty <- {}, externals <- s1, loaded <- s2, pipeline <- s3, todo <- s4,
          man <- s5, pipe <- s6, inst <- s7
Choice(n, names, body) == [externals |-> [m \in names \cup {n, "main"} |-> IF m = "main" THEN PL0!Other ELSE IF m = n THEN body ELSE Fallback],
                           loaded |-> {"clos"}]
Bodies == {a \o <<<<"pass_phase", l>>>> : a \in Leads, l \in Lists} \cup {TakesSelection}
Pipelines == {[Choice("_compile", e, b) EXCEPT !.loaded = d] : e \in SUBSET {"mine"}, b \in Bodies, d \in SUBSET {"clos", "mem"}}
             \cup {Choice(n, e, a \o <<<<"pass_phase", <<"list", <<eta>>>>>>>>) : n \in {"aa", "zz"}, a \in Leads,
                         e \in SUBSET {"_default_compile", "_fallback_compile", "_core_compile"}}
PL == INSTANCE Pipeline WITH Programs <- Pipelines, Dirty <- {"add_mem", "lower_typed_clos"}, externals <- s1, loaded <- s2,
          pipeline <- s3, todo <- s4, man <- s5, pipe <- s6, inst <- s7
PipelineInit == PL!Init /\ old = idle
PipelineNext == PL!Next /\ UNCHANGED old

(* The phases and passes are those that the program asks for, each with the       *)
(* argument it asks for; but a selection that is an argument is lost.            *)
PipelineAsked ==
    part = "pipeline" =>
        /\ PL!InOrder /\ PL!OwnArgument /\ PL!OnlyCode
        /\ (s3 = TakesSelection /\ s4 = <<>> /\ "clos" \in s2) => ~PL!SelectedArgument

-----------------------------------------------------------------------------
(* Functions for the emitter, with branches, a loop, a switch and calls.  Two    *)
(* operations change memory or value: Do.                                       *)
Num(n) == <<"lit", n>>
V(l, i) == <<"var", l, i>>
X == V("e", 1)
New == <<"malloc", V("e", 0)>>
Q == <<"proj", New, 1>>
Do(mv, o) ==
    CASE o = "ld" -> LET d == <<"load", mv[1], Q>> IN <<<<"proj", d, 0>>, <<"proj", d, 1>>>>
      [] o = "st" -> <<<<"store", mv[1], Q, <<"add", mv[2], Num(1)>>>>, mv[2]>>
      [] o = "fr" -> <<<<"free", mv[1], Q>>, mv[2]>>
      [] o = "ml" -> LET d == <<"slot", mv[1]>> IN <<<<"store", <<"proj", d, 0>>, <<"proj", d, 1>>, mv[2]>>, mv[2]>>
      [] o = "tp" -> <<mv[1], <<"ext", <<"tuple", mv[2], Num(1)>>, X>>>>
Chain(mv, s) == Seqs!FoldLeft(Do, mv, s)
First(s) == Chain(<<<<"store", <<"proj", New, 0>>, Q, X>>, X>>, s)
VarCount(order, n) == [l \in Seqs!ToSet(order) |-> IF l = "e" THEN 2 ELSE n]
WithoutVars(count, labels) == [l \in DOMAIN count |-> IF l \in labels THEN 0 ELSE count[l]]

Diamond(s, t, u, w, args, order) ==
    LET E == First(s)
        In(l) == IF args THEN <<V(l, 0), V(l, 1)>> ELSE E
    IN [order |-> order, vars |-> WithoutVars(VarCount(order, 2), IF args THEN {} ELSE {"b", "c"}),
        body |-> "e" :> <<"branch", <<"b", "c">>, X, IF args THEN E ELSE <<>>>>
              @@ "b" :> <<"jump", "j", Chain(In("b"), t)>> @@ "c" :> <<"jump", "j", Chain(In("c"), u)>>
              @@ "j" :> <<"ret", Chain(<<V("j", 0), V("j", 1)>>, w)>>]
Loops(s, t, w) ==
    LET E == First(s)
        B == Chain(<<V("h", 0), V("h", 1)>>, t)
    IN [order |-> <<"e", "h", "b", "x">>, vars |-> WithoutVars(VarCount(<<"e", "h", "b", "x">>, 2), {"b", "x"}), body |->
        "e" :> <<"jump", "h", <<E[1], X>>>> @@ "h" :> <<"branch", <<"x", "b">>, V("h", 1), <<>>>>
     @@ "b" :> <<"jump", "h", <<B[1], <<"add", V("h", 1), <<"add", Num(2), <<"add", E[2], <<"add", E[2], E[2]>>>>>>>>>>>>
     @@ "x" :> <<"ret", Chain(<<V("h", 0), <<"add", V("h", 1), X>>>>, w)>>]
Switch(s, t, u, order) ==
    LET E == First(s)
    IN [order |-> order, vars |-> VarCount(order, 2), body |->
        "e" :> <<"branch", <<"b", "c", "b">>, <<"add", X, Num(1)>>, E>>
     @@ "b" :> <<"jump", "j", Chain(<<V("b", 0), V("b", 1)>>, t)>> @@ "c" :> <<"jump", "j", Chain(<<V("c", 0), V("c", 1)>>, u)>>
     @@ "j" :> <<"ret", <<V("j", 0), V("j", 1), X>>>>]
Call(s, t, w, n, l) ==
    LET E == First(s)
        K == Chain(<<V("k", 0), IF n = 1 THEN E[2] ELSE V("k", n - 1)>>, t)
        R == Chain(<<V("d", 0), V("d", 1)>>, w)
    IN [order |-> <<"e", "k", "d">>, vars |-> [VarCount(<<"e", "k", "d">>, 2) EXCEPT !["k"] = n], body |->
        "e" :> <<"call", E, "k">> @@ "k" :> (IF l = "d" THEN <<"jump", "d", K>> ELSE <<"call", K, "d">>)
     @@ "d" :> <<"ret", IF n = 3 THEN R \o <<V("k", 1), V("k", 2)>> ELSE R>>]
Stop(s) ==
    [order |-> <<"e", "b", "c">>, vars |-> VarCount(<<"e", "b", "c">>, 2), body |->
     "e" :> <<"branch", <<"b", "c">>, X, First(s)>> @@ "b" :> <<"bot">> @@ "c" :> <<"ret", <<V("c", 0), V("c", 1)>>>>]

(* No, or one, or two operations.                                              *)
One(S) == {<<>>} \cup {<<o>> : o \in S}
Two(S) == One(S) \cup {<<o, q>> : o, q \in S}
MemOps == {"ld", "st", "fr"}
AllOps == {"ld", "st", "fr", "ml", "tp"}
Orders == {<<"e", "b", "c", "j">>, <<"e", "c", "b", "j">>}
Functions ==
    {Diamond(s, t, u, w, TRUE, o) : s \in One(AllOps), t \in One(AllOps), u \in One({"st"}), w \in One(MemOps), o \in Orders}
    \cup {Diamond(s, t, u, w, FALSE, o) : s \in One({"ld", "st", "tp"}), t \in One(AllOps), u \in One({"ld", "st"}), w \in One(MemOps), o \in Orders}
    \cup {Loops(s, t, w) : s \in One({"ld", "st", "ml"}), t \in Two({"ld", "st", "ml"}), w \in One(MemOps)}
    \cup {Switch(s, t, u, o) : s \in One(AllOps), t \in One(MemOps), u \in One({"st"}), o \in Orders}
    \cup {Call(s, t, w, n, l) : s \in One(MemOps), t \in One(MemOps), w \in One(MemOps), n \in 1..3, l \in {"d", "call"}}
    \cup {Stop(s) : s \in Two(AllOps)}
(* The memory that free leaves is used in both branches without being passed.   *)
FreedBefore == {Diamond(<<"fr">>, <<"ml">>, <<"ml">>, <<>>, FALSE, o) : o \in Orders}

LL == INSTANCE LLEmit WITH Programs <- Functions \cup FreedBefore, p <- s1, at <- s2, e <- s3
LLInit == LL!Init /\ old = idle /\ s4 = idle /\ s5 = idle /\ s6 = idle /\ s7 = idle
LLNext == LL!Next /\ UNCHANGED <<old, s4, s5, s6, s7>>

(* The emitted function does what the graph means; free comes too late in those   *)
(* of FreedBefore.                                                              *)
EmittedMeansTheSame ==
    part = "ll" => IF s1 \in FreedBefore THEN LL!Finished => ~LL!SameResult
                   ELSE LL!SameResult /\ LL!PhiPerEdge

-----------------------------------------------------------------------------
(* Four nominals that jump to each other, and two structural defs that they use. *)
a == 13
b == 14
AllBodies ==
    {[noms |-> 1..4, const |-> {}, var |-> [n \in 1..4 |-> n + 4],
      ops |-> [d \in 1..14 |->
                  CASE d \in 1..4   -> {d + 8}
                    [] d \in 5..8   -> {d - 4}
                    [] d \in 9..12  -> {5} \cup to[d - 8] \cup (IF d - 8 \in users THEN {b} ELSE {})
                    [] d = a        -> {5} \cup av
                    [] d = b        -> {a, 5} \cup bv]] :
        to \in {t \in [1..4 -> SUBSET {2, 3, 4}] : t[1] \in {{2}, {2, 3}} /\ 3 \notin t[3] /\ t[4] \subseteq {3}},
        users \in {{3}, {4}, {3, 4}}, av \in {{}, {6}}, bv \in {{}, {7}}}

(* The control-flow graph that CFA makes of them, and its loops.                 *)
Through(p, B)  == [d \in 1..14 |-> IF d \in p.noms THEN {} ELSE (p.ops[d] \cap B) \ Vars(p)]
Jumps(p, B)    == [n \in p.noms |-> Reach(Through(p, B), (p.ops[n] \cap B) \ Vars(p)) \cap p.noms]
Reached(js, e) == [n \in Reach(js, {e}) |-> js[n]]
ScopeAt(p, ss) == [g |-> p, entry |-> 1, succs |-> ss,
                   loop |-> [n \in DOMAIN ss |-> LoopDepth([entry |-> 1, succs |-> ss], n)]]

AllDefs   == 1..14
AllScopes == {ScopeAt(p, Reached(Jumps(p, Bound(p, 1)), 1)) : p \in AllBodies}

(* They are scopes that the theorems about Schedule are about.                      *)
ASSUME AllScopes_OK == ScopesOK

(* Three of the defs are asked for.  The constructor, and a call, take what they *)
(* have to look at in one order.                                               *)
least(S)  == CHOOSE d \in S : \A c \in S : d <= c
Now       == calls[Len(calls)].todo
InOrder   == /\ pc = "uses" /\ queue # {} => least(queue) \notin queue'
             /\ pc = "calls" /\ calls # <<>> /\ Len(calls') = Len(calls) => calls'[Len(calls)].todo = Now \ {least(Now)}
             /\ pc = "calls" /\ Len(calls') > Len(calls) => calls'[Len(calls')].def = least(Now)
ScheduleNext == Next /\ DOMAIN smart_' \subseteq {a, b, 11} /\ InOrder

(* The scheduler stands still while another part runs.                          *)
OneScope == CHOOSE s \in AllScopes : DOMAIN s.succs = {1, 2} /\ s.g.ops[a] = {5} /\ s.g.ops[b] = {a, 5}
Resting  == INSTANCE Schedule WITH Scopes <- {OneScope}

-----------------------------------------------------------------------------
AllInit ==
    \/ part = "schedule" /\ Init /\ old = idle /\ s1 = idle /\ s2 = idle /\ s3 = idle /\ s4 = idle /\ s5 = idle
       /\ s6 = idle /\ s7 = idle
    \/ part = "phases"   /\ Resting!Init /\ PhasesInit
    \/ part = "pipeline" /\ Resting!Init /\ PipelineInit
    \/ part = "ll"       /\ Resting!Init /\ LLInit

Step(q, Action) == part = q /\ Action /\ part' = q /\ UNCHANGED vars
AllNext ==
    \/ part = "schedule" /\ ScheduleNext /\ UNCHANGED <<part, others>>
    \/ Step("phases", PhasesNext)
    \/ Step("pipeline", PipelineNext)
    \/ Step("ll", LLNext)
AllSpec == AllInit /\ [][AllNext]_allVars
=============================================================================
