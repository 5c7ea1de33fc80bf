------------------------------ MODULE Pipeline ------------------------------
(* How a program describes its own compilation: the expressions of the compile *)
(* and opt dialects, their normalizers, and the PipelineBuilder that walks     *)
(* them and adds passes and phases. An expression is a tuple with a tag; equal *)
(* expressions are one definition, as in the World. A pass expression is       *)
(* <<"null">>, <<"pass", class>>, <<"arg", class, pass>>, a selection or an    *)
(* application of a function that reduces to one.                              *)
EXTENDS Integers, Sequences, FiniteSets, SequencesExt, TLC

CONSTANTS Programs,    \* what to start from: the externals and the dialects
          Dirty        \* the classes of phases after which the Pipeline adds a Cleanup
VARIABLES externals,   \* a name to the body of a function [] -> Pipeline, or to Other
          loaded,      \* the dialects of the builder
          pipeline,    \* the body of the chosen one
          todo,        \* what handle_optimization_part has still to see
          man, pipe,   \* the PassMan under construction and the phases
          inst         \* pass_instances_

vars == <<externals, loaded, pipeline, todo, man, pipe, inst>>

Other == <<"other">>
NoMan == <<"no man">>
NoPass == <<>>

-----------------------------------------------------------------------------
\* The passes of <<"list", passes>> or <<"combine", lists>>.
Listed(l) == IF l[1] = "combine" THEN FlattenSeq([i \in DOMAIN l[2] |-> l[2][i][2]]) ELSE l[2]
normalize_pass_phase(l) == <<"passes", Listed(l)>>
normalize_single_pass_phase(p) == <<"passes", <<p>>>>
RECURSIVE Normalized(_)
normalize_combined_phase(ps) == <<"phases", [i \in DOMAIN ps |-> Normalized(ps[i])]>>
Normalized(e) ==
    CASE e[1] = "pass_phase" -> normalize_pass_phase(e[2])
      [] e[1] = "single" -> normalize_single_pass_phase(e[2])
      [] e[1] = "combined" -> normalize_combined_phase(e[2])
      [] e[1] = "select" -> <<"select", e[2], Normalized(e[3]), Normalized(e[4])>>
      [] OTHER -> e

-----------------------------------------------------------------------------
\* optimize: the functions of these names, then the first other function that gives a Pipeline.
Preferred == <<"_compile", "_default_compile", "_core_compile", "_fallback_compile">>
IsPipeline(n) == n \in DOMAIN externals /\ externals[n] # Other
Found == SelectSeq(Preferred, LAMBDA n : n \in DOMAIN externals)
compilation == IF Found # <<>> THEN Head(Found) ELSE CHOOSE n \in DOMAIN externals : IsPipeline(n)
MadeInternal == Range(Found) \cup {n \in DOMAIN externals : IsPipeline(n)}
optimize ==
    /\ todo = <<>> /\ pipe = <<>> /\ \E n \in DOMAIN externals : IsPipeline(n)
    /\ pipeline' = externals[compilation] /\ todo' = [i \in DOMAIN pipeline' |-> Normalized(pipeline'[i])]
    /\ externals' = [n \in DOMAIN externals \ MadeInternal |-> externals[n]]
    /\ UNCHANGED <<loaded, man, pipe, inst>>

-----------------------------------------------------------------------------
Part == Head(todo)
Is(tag) == todo # <<>> /\ Part[1] = tag

\* An instance is the phase whose PassMan has it, and its class; there is one of a class in a PassMan.
Instance(class) == <<Len(pipe) + 1, class>>
get_pass_instance(p) == IF p \in DOMAIN inst THEN inst[p] ELSE NoPass
remember_pass_first(p, i) == IF p \in DOMAIN inst THEN inst ELSE (p :> i) @@ inst
remember_pass_instance(p, i) == (p :> i) @@ inst
add(class, arg) ==
    IF \E i \in DOMAIN man : man[i].class = class THEN man
    ELSE Append(man, [class |-> class, arg |-> arg, def |-> Part])
AddPass(class, arg) ==
    /\ man' = add(class, arg)
    /\ inst' = remember_pass_instance(Part, Instance(class))
    /\ todo' = Tail(todo)
    /\ UNCHANGED <<externals, loaded, pipeline, pipe>>

NullPass ==
    /\ Is("null")
    /\ inst' = remember_pass_instance(Part, NoPass) /\ todo' = Tail(todo)
    /\ UNCHANGED <<externals, loaded, pipeline, man, pipe>>
Pass == Is("pass") /\ AddPass(Part[2], NoPass)
PassWithArg == Is("arg") /\ AddPass(Part[2], get_pass_instance(Part[3]))

\* add_phase, with a Cleanup after a dirty one; not between begin_pass_phase and end_pass_phase.
Phase ==
    /\ Is("phase") /\ man = NoMan
    /\ pipe' = pipe \o <<<<"phase", Part[2]>>>> \o (IF Part[2] \in Dirty THEN <<<<"phase", "cleanup">>>> ELSE <<>>)
    /\ todo' = Tail(todo)
    /\ UNCHANGED <<externals, loaded, pipeline, man, inst>>
begin_pass_phase ==
    /\ Is("passes")
    /\ man' = <<>> /\ todo' = Part[2] \o <<<<"end">>>> \o Tail(todo)
    /\ UNCHANGED <<externals, loaded, pipeline, pipe, inst>>
end_pass_phase ==
    /\ Is("end")
    /\ pipe' = Append(pipe, <<"man", man>>) /\ man' = NoMan /\ todo' = Tail(todo)
    /\ UNCHANGED <<externals, loaded, pipeline, inst>>
add_phases ==
    /\ Is("phases")
    /\ todo' = Part[2] \o Tail(todo)
    /\ UNCHANGED <<externals, loaded, pipeline, man, pipe, inst>>

\* <<"select", dialect, then, else>> and an applied function <<"apply", body>>.
is_registered_dialect(d) == d \in loaded
dialect_select ==
    /\ Is("select")
    /\ todo' = <<IF is_registered_dialect(Part[2]) THEN Part[3] ELSE Part[4]>> \o Tail(todo)
    /\ UNCHANGED <<externals, loaded, pipeline, man, pipe, inst>>
ReduceLam ==
    /\ Is("apply")
    /\ todo' = <<Part[2]>> \o Tail(todo)
    /\ UNCHANGED <<externals, loaded, pipeline, man, pipe, inst>>

Build == NullPass \/ Pass \/ PassWithArg \/ Phase \/ begin_pass_phase \/ end_pass_phase \/ add_phases \/ dialect_select \/ ReduceLam
Next == optimize \/ Build

Init ==
    /\ \E q \in Programs : externals = q.externals /\ loaded = q.loaded
    /\ pipeline = <<>> /\ todo = <<>> /\ man = NoMan /\ pipe = <<>> /\ inst = <<>>
Spec == Init /\ [][Next]_vars

-----------------------------------------------------------------------------
\* What a phase expression means: the phases in order, each with the pass expressions in order.
RECURSIVE Meaning(_), Passes(_)
Passes(p) ==
    CASE p[1] = "null" -> <<>>
      [] p[1] = "select" -> Passes(p[IF p[2] \in loaded THEN 3 ELSE 4])
      [] p[1] = "apply" -> Passes(p[2])
      [] OTHER -> <<p>>
Meaning(e) ==
    CASE e[1] = "pass_phase" -> IF e[2][1] = "list" THEN Meaning(<<"passes", e[2][2]>>)
                                ELSE Meaning(<<"passes", e[2][2][1][2] \o e[2][2][2][2]>>)
      [] e[1] = "single" -> Meaning(<<"passes", <<e[2]>>>>)
      [] e[1] = "passes" -> <<<<"man", FlattenSeq([i \in DOMAIN e[2] |-> Passes(e[2][i])])>>>>
      [] e[1] = "combined" -> FlattenSeq([i \in DOMAIN e[2] |-> Meaning(e[2][i])])
      [] e[1] = "select" -> Meaning(e[IF e[2] \in loaded THEN 3 ELSE 4])
      [] OTHER -> <<<<"phase", e[2]>>>> \o (IF e[2] \in Dirty THEN <<<<"phase", "cleanup">>>> ELSE <<>>)
Classes(ps) == [i \in DOMAIN ps |-> ps[i][2]]
Simple(q) == IF q[1] = "man" THEN <<"man", [i \in DOMAIN q[2] |-> q[2][i].class]>> ELSE q
Wanted(q) == IF q[1] = "man" THEN <<"man", FoldLeft(LAMBDA a, c : IF c \in Range(a) THEN a ELSE Append(a, c), <<>>, Classes(q[2]))>> ELSE q

Finished == pipeline # <<>> /\ todo = <<>>

\* At the end the pipeline has the phases the program asked for, in its order, each with the passes of
\* its list, in the order of the list and one of a class, a combined list being its lists one after
\* another and a selection the alternative of its dialect.
InOrder ==
    Finished => [i \in DOMAIN pipe |-> Simple(pipe[i])]
                = LET ps == FlattenSeq([i \in DOMAIN pipeline |-> Meaning(pipeline[i])]) IN [i \in DOMAIN ps |-> Wanted(ps[i])]

\* A pass whose argument is a pass listed before it in its own phase works with that pass, of its own
\* PassMan, whatever was built of the same expression in a phase before.
OwnArgument ==
    \A i \in DOMAIN pipe : pipe[i][1] = "man" =>
        \A j \in DOMAIN pipe[i][2] :
            LET p == pipe[i][2][j] IN
            (p.def[1] = "arg" /\ \E k \in 1..(j - 1) : pipe[i][2][k].def = p.def[3]) => p.arg = <<i, p.def[3][2]>>

\* The same for a pass listed before it as the chosen alternative of a selection.
Resolved(p) == IF p[1] = "select" THEN Passes(p) ELSE <<p>>
SelectedArgument ==
    \A i \in DOMAIN pipe : pipe[i][1] = "man" =>
        \A j \in DOMAIN pipe[i][2] :
            LET p == pipe[i][2][j] IN
            (p.def[1] = "arg" /\ \E k \in 1..(j - 1) : <<pipe[i][2][k].def>> = Resolved(p.def[3])) => p.arg # NoPass

\* Once a pipeline was chosen, no function that describes one is left for the code generator, and what
\* is no such function is untouched.
OnlyCode == pipeline # <<>> => DOMAIN externals = {"main"}
=============================================================================
