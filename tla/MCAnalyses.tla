----------------------------- MODULE MCAnalyses ------------------------------
(***************************************************************************)
(* DomTree, which this module extends, on small graphs, and the analyses      *)
(* before and after it, each on programs or graphs of its own.  part says    *)
(* which one a behaviour is of; input, entry, stage and s1 to s8 stand for    *)
(* the variables of its module, and what it has no use for is idle.          *)
(***************************************************************************)
EXTENDS DomTree

VARIABLES part, input, entry, stage, s1, s2, s3, s4, s5, s6, s7, s8

others  == <<input, entry, stage, s1, s2, s3, s4, s5, s6, s7, s8>>
allVars == <<part, vars, others>>
idle == "idle"

(* The graphs below are graphs that the theorems about DomTree are about.           *)
ASSUME Graphs_OK == GraphsOK

-----------------------------------------------------------------------------
(* Three nominals with a body each that mentions two of them or of their Vars.  *)
Things == 1..6
Bodies == {{a, b} : a, b \in Things} \cup {{}}

AllDeps == {[noms |-> 1..3, const |-> {0}, var |-> [n \in 1..3 |-> n + 3],
             ops |-> [d \in 0..9 |-> IF d = 0 THEN {} ELSE IF d \in 1..3 THEN (IF b[d] = {} THEN {} ELSE {d + 6})
                                     ELSE IF d \in Things THEN {d - 3} ELSE b[d - 6]]] : b \in [1..3 -> Bodies]}

Deps(P) == INSTANCE DepTree WITH Defs <- 0..9, Programs <- P, External <- {1}, Root <- 0, g <- input,
               todo <- s1, tree <- s2, noms <- s3, pushed <- s4, visited <- s5, pc <- stage

(* The external is closed: it depends on no Var but its own.                    *)
ClosedProgram(p) == p.ops[1] # {} /\ \A n \in {2, 3} : 1 \notin Deps({})!Dependent(p, n)

(* What a nominal mentions other than by its Var.                              *)
Mentions(p)  == [d \in 0..9 |-> IF d \in p.noms THEN UNION {p.ops[c] \cap p.noms : c \in p.ops[d]} ELSE {}]
Recursive(p) == \E m \in 1..3 : m \in Reach(Mentions(p), Mentions(p)[m])
CallsItself(p) == \E m \in 1..3 : m \in Mentions(p)[m]

Endless     == CHOOSE p \in AllDeps : p.ops[7] = {1} /\ p.ops[2] = {} /\ p.ops[3] = {}
DepPrograms == {p \in AllDeps : ~CallsItself(p) /\ ClosedProgram(p)} \cup {Endless}

DepsInit == Deps(DepPrograms)!Init /\ entry = idle /\ s6 = idle /\ s7 = idle /\ s8 = idle
DepsNext == Deps({})!Next /\ UNCHANGED <<entry, s6, s7, s8>>

(* The tree is exact if there is no recursion.  If nominals mention each other   *)
(* what it says is true, but it may miss a dependency, as it does for           *)
(* MissesOne; if one mentions itself it is never finished.                     *)
MissesOne == input.ops[7] = {2} /\ input.ops[8] = {3, 4} /\ input.ops[9] = {2}

DependsExact ==
    part = "deps" =>
        /\ Deps({})!DependsSound /\ Deps({})!AllDiscovered /\ Deps({})!VisitsTopLevel
        /\ ~Recursive(input) => Deps({})!DependsExact
        /\ MissesOne /\ stage = "done" => ~Deps({})!DependsExact
        /\ ~Deps({})!TreeIsFinished <=> input = Endless /\ s1 = {}

-----------------------------------------------------------------------------
(* An entry and three nominals, of which the last may be imported.              *)
Controls ==
    {[noms |-> 1..4, const |-> {}, var |-> [n \in {1} |-> 5],
      ops |-> [d \in 1..9 |-> CASE d = 5 -> {1}
                                [] d \in 1..4 -> IF d \in imported THEN {} ELSE {d + 5}
                                [] OTHER -> mentions[d - 5] \cup {5}]] :
        mentions \in [1..4 -> SUBSET {2, 3, 4}], imported \in {{}, {4}}}

Graph == INSTANCE CFA WITH Defs <- 1..9, Programs <- Controls, exit <- 0, g <- input, bound <- s1, nodes <- s2,
            succs <- s3, cfg_queue <- s4, cfg_done <- s5, reachable <- s6, stack <- s7, on_stack <- s8, pc <- stage

(* Every node lies between entry and exit, endless loops included, and only they *)
(* and dead ends have been given an edge to the exit.                          *)
CfgNumbered == part = "flow" => Graph!CfgNumbered

-----------------------------------------------------------------------------
(* Graphs with three nodes between entry and exit.                             *)
Node5 == 1..5
Graphs5 ==
    {F \in {[entry |-> 1, exit |-> 5,
             succs |-> [n \in 1..5 |-> IF n = 1 THEN 2..first ELSE IF n \in 2..4 THEN s[n] \ {n} ELSE {}]] :
                first \in 2..4, s \in [2..4 -> SUBSET (2..5)]} : IsFlowGraph(F)}

-----------------------------------------------------------------------------
(* Graphs with four nodes between entry and exit.                              *)
Graphs6 ==
    {F \in {[entry |-> 1, exit |-> 6,
             succs |-> [n \in 1..6 |->
                           IF n = 1 THEN first
                           ELSE IF n = 6 THEN {}
                           ELSE (IF n = 3 THEN s[n] ELSE s[n] \ {n}) \cup (IF n = 5 THEN {6} ELSE {})]] :
                first \in {{2}, {2, 3}},
                s \in {f \in [2..5 -> SUBSET (2..5)] : f[4] \subseteq {2, 3, 5} /\ f[5] \subseteq {2, 4}}} :
        IsFlowGraph(F)}

Nest == INSTANCE LoopTree WITH Node <- 1..6, Graphs <- Graphs6, G <- input, tree <- s1, heads <- s2, work <- s3, entries <- s4

NestInit == Nest!Init /\ entry = idle /\ stage = idle /\ s5 = idle /\ s6 = idle /\ s7 = idle /\ s8 = idle
NestNext == Nest!Next /\ UNCHANGED <<entry, stage, s5, s6, s7, s8>>

(* The nesting of loops is the one by definition.  The heads are the nodes that  *)
(* no other dominates as long as each loop has one of them, but not in          *)
(* TwoEntries, whose loop of 3, 4 and 5 is entered at 3 and at 4.              *)
TwoEntries == input.succs = <<{2}, {3, 4}, {5}, {3, 5}, {4, 6}, {}>>

LoopsExact ==
    part = "loops" =>
        /\ Nest!LeafEach /\ Nest!HeadsGuard /\ Nest!DepthExact
        /\ (\A h \in Nest!Loops : Cardinality(s1[h].cf_nodes) = 1) => Nest!HeadsUndominated
        /\ TwoEntries /\ Nest!done => ~Nest!HeadsUndominated

(* The two trees that are built by recursion over graphs with cycles.           *)
TreesExact == DependsExact /\ LoopsExact

-----------------------------------------------------------------------------
(* DomTree stands still while another part runs.                                *)
Line   == [entry |-> 1, exit |-> 5, succs |-> [n \in 1..5 |-> IF n = 5 THEN {} ELSE {n + 1}]]
AtRest == G = Forward(Line) /\ Init
Idle   == input = idle /\ entry = idle /\ stage = idle /\ s1 = idle /\ s2 = idle /\ s3 = idle /\ s4 = idle /\ s5 = idle
          /\ s6 = idle /\ s7 = idle /\ s8 = idle
AllInit ==
    \/ part = "dom" /\ Init /\ Idle
    \/ part = "deps" /\ AtRest /\ DepsInit
    \/ part = "flow" /\ AtRest /\ Graph!Init /\ entry = 1
    \/ part = "loops" /\ AtRest /\ NestInit

Step(p, A) == part = p /\ A /\ part' = p /\ UNCHANGED vars
AllNext ==
    \/ part = "dom" /\ Next /\ UNCHANGED <<part, others>>
    \/ Step("deps", DepsNext)
    \/ Step("flow", Graph!Next)
    \/ Step("loops", NestNext)
AllSpec == AllInit /\ [][AllNext]_allVars
=============================================================================
