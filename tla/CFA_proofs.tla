----------------------------- MODULE CFA_proofs -----------------------------
(***************************************************************************)
(* What TLAPS proves of CFA, for any program and any order of its queues and *)
(* of the successors that link_to_exit pushes.                              *)
(***************************************************************************)
EXTENDS CFA

-----------------------------------------------------------------------------
(* What the entry reaches, and what reaches the exit.                           *)
FromEntry == Least(succs, {entry})
ToExit    == Least(PredsOf(succs), {exit})

(* The nodes are in the scope, apart from the entry and the exit, and only they   *)
(* have successors.                                                            *)
NodeInv ==
    /\ nodes \subseteq bound \cup {entry, exit} /\ {entry, exit} \subseteq nodes
    /\ succs \in [Nodes -> SUBSET nodes]
    /\ nodes \ {exit} \subseteq FromEntry

(* What has left the queue has its targets as successors; a node that was never  *)
(* queued is not set.                                                          *)
VisitInv ==
    /\ cfg_queue \subseteq cfg_done /\ cfg_done \subseteq nodes \ {exit}
    /\ \A n \in Nodes : succs[n] = IF n \in cfg_done \ cfg_queue THEN Targets(n) ELSE {}
    /\ \A n \in nodes \ {exit} : n \in cfg_done \/ ~is_set(g, n)
    /\ reachable = {} /\ stack = <<>> /\ on_stack = {}

(* link_to_exit adds edges to the exit only, one for each dead end among them,    *)
(* and knows all that reaches the exit.                                        *)
EdgeInv ==
    /\ cfg_queue \subseteq cfg_done /\ cfg_done \subseteq nodes \ {exit}
    /\ succs[exit] = {} /\ \A n \in Nodes \ nodes : succs[n] = {}
    /\ \A n \in nodes \ {exit} : /\ succs[n] \ {exit} = Targets(n)
                                 /\ Targets(n) = {} => succs[n] = {exit}
    /\ reachable = ToExit

(* What was pushed is on the stack still, or reaches the exit, and what it jumps *)
(* to was pushed, too.                                                         *)
StackInv ==
    /\ entry \in on_stack /\ on_stack \subseteq nodes
    /\ stack \in Seq(on_stack)
    /\ \A n \in on_stack : \/ \E k \in 1..Len(stack) : stack[k] = n
                           \/ n \in reachable /\ succs[n] \subseteq on_stack \cup {exit}

(* What was given an edge to the exit is a dead end or reaches none.             *)
EndlessInv ==
    \A n \in Added : \/ Targets(n) = {}
                     \/ \A m \in Least(Flow, {n}) \cap nodes : Flow[m] # {}

IInv ==
    /\ g \in Programs /\ IsProgram(g) /\ DefsOf(g) = Defs /\ exit \notin Defs
    /\ IsFiniteSet(Defs)
    /\ entry \in g.noms /\ bound \subseteq Defs
    /\ NodeInv
    /\ \/ pc = "visit" /\ VisitInv
       \/ pc = "link" /\ EdgeInv /\ StackInv /\ EndlessInv
       \/ pc = "done" /\ EdgeInv /\ StackInv /\ EndlessInv /\ stack = <<>>

-----------------------------------------------------------------------------
(* The targets of a def are nominals in the scope; what is not set has none.     *)
LEMMA TargetsIn ==
    ASSUME g \in Programs, IsProgram(g), DefsOf(g) = Defs, IsFiniteSet(Defs), bound \subseteq Defs,
           NEW n \in Defs
    PROVE  /\ Targets(n) \subseteq g.noms \cap bound
           /\ ~is_set(g, n) => Targets(n) = {}
<1> DEFINE S == (g.ops[n] \cap bound) \ Vars(g)
<1>1. Through \in [Defs -> SUBSET Defs] /\ \A d \in Defs : Through[d] \subseteq bound
  BY DEF Through
<1>2. S \in SUBSET Defs /\ S \subseteq bound
  OBVIOUS
<1>3. Targets(n) = Least(Through, S) \cap g.noms
  BY <1>1, <1>2, ReachIs DEF Targets
<1> HIDE DEF S
<1>4. \A C \in SUBSET Defs : S \subseteq C /\ IsClosed(Through, C) => Least(Through, S) \subseteq C
  BY <1>1, <1>2, LeastIs
<1>5. Least(Through, S) \subseteq bound
  <2>1. IsClosed(Through, bound)
    BY <1>1 DEF IsClosed
  <2> QED BY <1>2, <1>4, <2>1
<1>6. ASSUME ~is_set(g, n) PROVE Targets(n) = {}
  <2>1. S = {}
    BY <1>6 DEF S, is_set
  <2>2. IsClosed(Through, {})
    BY DEF IsClosed
  <2> QED BY <1>3, <1>4, <2>1, <2>2
<1> QED BY <1>3, <1>5, <1>6

(* What the entry reaches, and what reaches the exit, in the terms of LeastIs.   *)
LEMMA FromEntryIs ==
    ASSUME entry \in Nodes, succs \in [Nodes -> SUBSET Nodes]
    PROVE  /\ entry \in FromEntry /\ FromEntry \subseteq Nodes
           /\ \A n \in FromEntry : succs[n] \subseteq FromEntry
           /\ \A C \in SUBSET Nodes : entry \in C /\ (\A n \in C : succs[n] \subseteq C) => FromEntry \subseteq C
BY LeastIs DEF FromEntry, IsClosed

LEMMA ToExitIs ==
    ASSUME NEW S, S \in [Nodes -> SUBSET Nodes], NEW x \in Nodes
    PROVE  /\ PredsOf(S) \in [Nodes -> SUBSET Nodes]
           /\ x \in Least(PredsOf(S), {x}) /\ Least(PredsOf(S), {x}) \subseteq Nodes
           /\ \A p \in Nodes, n \in Least(PredsOf(S), {x}) : n \in S[p] => p \in Least(PredsOf(S), {x})
           /\ \A C \in SUBSET Nodes : x \in C /\ (\A p \in Nodes, n \in C : n \in S[p] => p \in C)
                                        => Least(PredsOf(S), {x}) \subseteq C
<1>1. PredsOf(S) \in [Nodes -> SUBSET Nodes] /\ \A n \in Nodes : PredsOf(S)[n] = {p \in Nodes : n \in S[p]}
  BY DEF PredsOf
<1> DEFINE P == PredsOf(S)
<1> HIDE DEF P
<1>2. P \in [Nodes -> SUBSET Nodes] /\ \A n \in Nodes : P[n] = {p \in Nodes : n \in S[p]}
  BY <1>1 DEF P
<1>3. /\ {x} \subseteq Least(P, {x}) /\ Least(P, {x}) \subseteq Nodes
      /\ IsClosed(P, Least(P, {x}))
      /\ \A C \in SUBSET Nodes : {x} \subseteq C /\ IsClosed(P, C) => Least(P, {x}) \subseteq C
  BY <1>2, LeastIs
<1>4. ASSUME NEW C \in SUBSET Nodes PROVE IsClosed(P, C) <=> \A p \in Nodes, n \in C : n \in S[p] => p \in C
  BY <1>2 DEF IsClosed
<1>5. /\ P \in [Nodes -> SUBSET Nodes]
      /\ x \in Least(P, {x}) /\ Least(P, {x}) \subseteq Nodes
      /\ \A p \in Nodes, n \in Least(P, {x}) : n \in S[p] => p \in Least(P, {x})
      /\ \A C \in SUBSET Nodes : x \in C /\ (\A p \in Nodes, n \in C : n \in S[p] => p \in C)
                                   => Least(P, {x}) \subseteq C
  BY <1>2, <1>3, <1>4
<1> QED BY <1>5 DEF P

LEMMA NodesFinite == IsFiniteSet(Defs) => IsFiniteSet(Nodes)
BY FS_AddElement DEF Nodes

(* The elements of a concatenation.                                            *)
LEMMA ConcatAt ==
    ASSUME NEW S, NEW s \in Seq(S), NEW t \in Seq(S)
    PROVE  /\ s \o t \in Seq(S) /\ Len(s \o t) = Len(s) + Len(t)
           /\ \A k \in 1..Len(s) : (s \o t)[k] = s[k]
           /\ \A k \in 1..Len(t) : (s \o t)[Len(s) + k] = t[k]
<1>1. Len(s) \in Nat /\ Len(t) \in Nat
  OBVIOUS
<1>2. s \o t \in Seq(S) /\ Len(s \o t) = Len(s) + Len(t)
  OBVIOUS
<1>3. ASSUME NEW k \in 1..Len(s) PROVE (s \o t)[k] = s[k]
  BY <1>1
<1>4. ASSUME NEW k \in 1..Len(t) PROVE (s \o t)[Len(s) + k] = t[k]
  <2>1. Len(s) + k \in 1..(Len(s) + Len(t)) /\ ~(Len(s) + k <= Len(s)) /\ (Len(s) + k) - Len(s) = k
    BY <1>1
  <2> QED BY <1>1, <2>1
<1> QED BY <1>2, <1>3, <1>4

(* An order of a set holds all of it.                                          *)
LEMMA OrderIs ==
    ASSUME NEW S, IsFiniteSet(S), NEW order \in SetToSeqs(S)
    PROVE  /\ order \in Seq(S) /\ Len(order) \in Nat
           /\ \A x \in S : \E k \in 1..Len(order) : order[k] = x
<1> DEFINE N == Cardinality(S)
<1>1. N \in Nat
  BY FS_CardinalityType
<1>2. order \in [1..N -> S] /\ \A a, b \in 1..N : a # b => order[a] # order[b]
  BY DEF SetToSeqs
<1>3. order \in Seq(S) /\ Len(order) = N
  BY <1>1, <1>2
<1>4. \A x \in S : \E k \in 1..N : order[k] = x
  BY <1>2, Onto
<1> QED BY <1>1, <1>3, <1>4

-----------------------------------------------------------------------------
(* A CFG starts with its entry and its exit.                                    *)
LEMMA InitInv == ProgramsOK /\ IsFiniteSet(Defs) /\ Init => IInv
<1> SUFFICES ASSUME ProgramsOK, IsFiniteSet(Defs), Init PROVE IInv
  OBVIOUS
<1>1. /\ g \in Programs /\ IsProgram(g) /\ DefsOf(g) = Defs /\ exit \notin Defs
      /\ entry \in g.noms /\ is_set(g, entry)
  BY DEF Init, ProgramsOK
<1>2. entry \in Defs /\ entry # exit
  BY <1>1 DEF IsProgram
<1>3. bound \subseteq Defs
  <2> DEFINE D    == Dependent(g, entry)
             next == OpsWithin(g, D)
             S    == g.ops[entry] \cap D
  <2>1. next \in [Defs -> SUBSET Defs] /\ S \in SUBSET Defs
    BY <1>1, <1>2 DEF OpsWithin, IsProgram
  <2>2. bound = Reach(next, S)
    BY DEF Init, Bound, LiveOf
  <2> HIDE DEF next, S
  <2> QED BY <2>1, <2>2, ReachIs, LeastIs
<1>4. NodeInv
  <2>1. nodes = {entry, exit} /\ succs = [n \in Nodes |-> {}]
    BY DEF Init
  <2>2. entry \in FromEntry
    BY <1>2, <2>1, FromEntryIs DEF Nodes
  <2> QED BY <2>1, <2>2 DEF NodeInv
<1>5. pc = "visit" /\ VisitInv
  BY <1>2 DEF Init, VisitInv
<1> QED BY <1>1, <1>3, <1>4, <1>5 DEF IInv

(* What a step leaves alone of the program.                                     *)
Same == UNCHANGED <<g, entry, bound>>

LEMMA SameTargets ==
    ASSUME Same, NEW n
    PROVE  Targets(n)' = Targets(n) /\ is_set(g, n)' = is_set(g, n)
<1>1. Through' = Through
  BY DEF Same, Through, Vars
<1>2. (g.ops[n] \cap bound) \ Vars(g) = ((g.ops[n] \cap bound) \ Vars(g))'
  BY DEF Same, Vars
<1> QED BY <1>1, <1>2 DEF Same, Targets, is_set

(* The facts that every step starts from.                                       *)
LEMMA Facts ==
    ASSUME IInv
    PROVE  /\ entry \in Defs /\ entry # exit /\ nodes \subseteq Nodes /\ g.noms \subseteq Defs
           /\ IsFiniteSet(Nodes) /\ succs \in [Nodes -> SUBSET Nodes]
           /\ \A n \in Defs : /\ Targets(n) \subseteq g.noms \cap bound
                              /\ ~is_set(g, n) => Targets(n) = {}
<1>1. entry \in Defs /\ entry # exit /\ g.noms \subseteq Defs
  BY DEF IInv, IsProgram
<1>2. nodes \subseteq Nodes
  BY <1>1 DEF IInv, NodeInv, Nodes
<1> QED BY <1>1, <1>2, TargetsIn, NodesFinite DEF IInv, NodeInv

LEMMA VisitNomInv == ASSUME IInv, VisitNom PROVE IInv'
<1>1. pc = "visit" /\ VisitInv /\ NodeInv /\ pc' = "visit" /\ Same
  BY DEF IInv, VisitNom, Same
<1>2. PICK src \in cfg_queue :
          LET new == {n \in Targets(src) : is_set(g, n)} \ cfg_done
          IN  /\ nodes' = nodes \cup Targets(src)
              /\ succs' = [succs EXCEPT ![src] = Targets(src)]
              /\ cfg_done' = cfg_done \cup new
              /\ cfg_queue' = (cfg_queue \ {src}) \cup new
  BY DEF VisitNom
<1> DEFINE new == {n \in Targets(src) : is_set(g, n)} \ cfg_done
<1>3. src \in nodes /\ src # exit /\ src \in Defs /\ src \in Nodes
  BY <1>1, Facts DEF VisitInv, Nodes
<1>4. Targets(src) \subseteq g.noms \cap bound /\ exit \notin Targets(src) /\ Targets(src) \subseteq Defs
  BY <1>3, Facts DEF IInv
<1>5. \A n \in Nodes : succs'[n] = IF n = src THEN Targets(src) ELSE succs[n]
  BY <1>2, <1>3 DEF IInv, NodeInv
<1>6. succs[src] = {}
  BY <1>1, <1>3 DEF VisitInv
<1>7. NodeInv'
  <2>1. nodes' \subseteq bound' \cup {entry', exit} /\ {entry', exit} \subseteq nodes'
    BY <1>1, <1>2, <1>4 DEF NodeInv, Same
  <2>2. succs' \in [Nodes -> SUBSET nodes']
    BY <1>1, <1>2, <1>3 DEF NodeInv
  <2>3. nodes' \ {exit} \subseteq FromEntry'
    <3>1. entry' = entry /\ entry \in Nodes /\ nodes' \subseteq Nodes
      BY <1>1, <1>2, <1>4, Facts DEF Same, Nodes
    <3>2. succs' \in [Nodes -> SUBSET Nodes]
      BY <2>2, <3>1
    <3>3. FromEntry \subseteq FromEntry'
      <4>1. \A n \in Nodes : succs[n] \subseteq succs'[n]
        BY <1>5, <1>6
      <4>2. Least(succs, {entry}) \subseteq Least(succs', {entry})
        BY <3>1, <3>2, <4>1, Facts, LeastGrows
      <4> QED BY <3>1, <4>2 DEF FromEntry
    <3>4. \A n \in FromEntry' : succs'[n] \subseteq FromEntry'
      <4>1. \A n \in Least(succs', {entry}) : succs'[n] \subseteq Least(succs', {entry})
        BY <3>1, <3>2, LeastIs DEF IsClosed
      <4> QED BY <3>1, <4>1 DEF FromEntry
    <3>5. src \in FromEntry'
      BY <1>1, <1>3, <3>3 DEF NodeInv
    <3>6. Targets(src) \subseteq FromEntry'
      BY <1>3, <1>5, <3>4, <3>5
    <3> QED BY <1>1, <1>2, <3>3, <3>6 DEF NodeInv
  <2> QED BY <2>1, <2>2, <2>3 DEF NodeInv
<1>8. VisitInv'
  <2>1. cfg_queue' \subseteq cfg_done' /\ cfg_done' \subseteq nodes' \ {exit}
    BY <1>1, <1>2, <1>4 DEF VisitInv
  <2>2. ASSUME NEW n \in Nodes
        PROVE  succs'[n] = IF n \in cfg_done' \ cfg_queue' THEN Targets(n) ELSE {}
    <3>1. CASE n = src
      BY <1>1, <1>2, <1>5, <3>1 DEF VisitInv
    <3>2. CASE n # src
      <4>1. n \in cfg_done' \ cfg_queue' <=> n \in cfg_done \ cfg_queue
        BY <1>2, <3>2
      <4> QED BY <1>1, <1>5, <3>2, <4>1 DEF VisitInv
    <3> QED BY <3>1, <3>2
  <2>3. \A n \in nodes' \ {exit} : n \in cfg_done' \/ ~is_set(g, n)
    BY <1>1, <1>2 DEF VisitInv
  <2>4. reachable' = {} /\ stack' = <<>> /\ on_stack' = {}
    BY <1>1 DEF VisitInv, VisitNom
  <2>5. \A n : Targets(n)' = Targets(n) /\ is_set(g, n)' = is_set(g, n)
    BY <1>1, SameTargets
  <2> QED BY <2>1, <2>2, <2>3, <2>4, <2>5 DEF VisitInv
<1> QED BY <1>1, <1>7, <1>8 DEF IInv, Same

LEMMA LinkDeadEndsInv == ASSUME IInv, LinkDeadEnds PROVE IInv'
<1>1. pc = "visit" /\ VisitInv /\ NodeInv /\ cfg_queue = {} /\ pc' = "link" /\ Same
  BY DEF IInv, LinkDeadEnds, Same
<1>2. /\ entry \in Defs /\ entry # exit /\ nodes \subseteq Nodes /\ IsFiniteSet(Nodes)
      /\ \A n \in nodes \ {exit} : n \in Defs
  BY Facts DEF Nodes
<1>3. \A n \in nodes \ {exit} : succs[n] = Targets(n) /\ exit \notin Targets(n)
  BY <1>1, <1>2, Facts DEF VisitInv, IInv
<1>4. \A n \in Nodes : succs'[n] = IF n \in nodes \ {exit} /\ succs[n] = {} THEN {exit} ELSE succs[n]
  BY DEF LinkDeadEnds
<1>5. \A n \in Nodes : n \notin nodes \ {exit} => succs[n] = {}
  BY <1>1 DEF VisitInv
<1>6. NodeInv'
  <2>1. succs' \in [Nodes -> SUBSET nodes]
    BY <1>1 DEF LinkDeadEnds, NodeInv
  <2>2. \A n \in Nodes : succs[n] \subseteq succs'[n]
    BY <1>4
  <2>3. succs' \in [Nodes -> SUBSET Nodes] /\ entry \in Nodes
    BY <1>2, <2>1 DEF Nodes
  <2>4. Least(succs, {entry}) \subseteq Least(succs', {entry})
    BY <2>2, <2>3, Facts, LeastGrows
  <2> QED BY <1>1, <2>1, <2>4 DEF NodeInv, FromEntry, LinkDeadEnds
<1>7. EdgeInv'
  <2>1. cfg_queue' \subseteq cfg_done' /\ cfg_done' \subseteq nodes' \ {exit}
    BY <1>1 DEF LinkDeadEnds, VisitInv
  <2>2. succs'[exit] = {} /\ \A n \in Nodes \ nodes' : succs'[n] = {}
    BY <1>4, <1>5 DEF LinkDeadEnds, Nodes
  <2>3. \A n \in nodes \ {exit} : succs'[n] \ {exit} = Targets(n) /\ (Targets(n) = {} => succs'[n] = {exit})
    BY <1>2, <1>3, <1>4
  <2>4. reachable' = ToExit'
    <3>1. succs' \in [Nodes -> SUBSET Nodes] /\ exit \in Nodes
      BY <1>2, <1>6 DEF NodeInv, LinkDeadEnds, Nodes
    <3>2. PredsOf(succs') \in [Nodes -> SUBSET Nodes]
      BY <3>1 DEF PredsOf
    <3>3. reachable' = Reach(PredsOf(succs'), {exit})
      BY DEF LinkDeadEnds, BackwardsReachable
    <3>4. reachable' = Least(PredsOf(succs'), {exit})
      BY <1>2, <3>1, <3>2, <3>3, ReachIs
    <3>5. PredsOf(succs') = PredsOf(succs)'
      BY DEF PredsOf
    <3> QED BY <3>4, <3>5 DEF ToExit
  <2>5. \A n : Targets(n)' = Targets(n)
    BY <1>1, SameTargets
  <2>6. nodes' = nodes
    BY DEF LinkDeadEnds
  <2> QED BY <2>1, <2>2, <2>3, <2>4, <2>5, <2>6 DEF EdgeInv
<1>8. StackInv'
  <2>1. stack' = <<entry>> /\ on_stack' = {entry} /\ entry' = entry /\ nodes' = nodes
    BY DEF LinkDeadEnds
  <2>2. Len(stack') = 1 /\ stack'[1] = entry /\ stack' \in Seq(on_stack')
    BY <2>1
  <2> QED BY <1>1, <2>1, <2>2 DEF StackInv, NodeInv
<1>9. EndlessInv'
  <2> SUFFICES ASSUME NEW n \in Added' PROVE Targets(n) = {}
    BY <1>1, SameTargets DEF EndlessInv
  <2>1. n \in nodes \ {exit} /\ exit \in succs'[n] /\ n \in Nodes
    BY <1>2 DEF Added, LinkDeadEnds
  <2> QED BY <1>3, <1>4, <2>1
<1> QED BY <1>1, <1>6, <1>7, <1>8, <1>9 DEF IInv, Same

LEMMA PushSuccsInv == ASSUME IInv, PushSuccs PROVE IInv'
<1>1. /\ pc = "link" /\ EdgeInv /\ StackInv /\ EndlessInv /\ NodeInv /\ pc' = "link" /\ Same
      /\ stack # <<>>
  BY DEF IInv, PushSuccs, Same
<1>2. PICK order \in SetToSeqs(todo) : stack' = stack \o order
  BY DEF PushSuccs
<1>3. UNCHANGED <<nodes, succs, cfg_queue, cfg_done, reachable>> /\ on_stack' = on_stack \cup todo
  BY DEF PushSuccs
<1>4. \A n : Targets(n)' = Targets(n)
  BY <1>1, SameTargets
<1>5. NodeInv'
  BY <1>1, <1>3 DEF NodeInv, FromEntry, Same
<1>6. EdgeInv'
  BY <1>1, <1>3, <1>4 DEF EdgeInv, ToExit, PredsOf
<1>7. EndlessInv'
  <2>1. Flow' = Flow /\ Added' = Added
    BY <1>3, <1>4 DEF Flow, Added
  <2> QED BY <1>1, <1>3, <1>4, <2>1 DEF EndlessInv
<1>8. Len(stack) \in Nat /\ Len(stack) > 0 /\ Last(stack) \in on_stack
  BY <1>1 DEF StackInv, Last
<1>9. todo \subseteq nodes
  BY <1>1, <1>8, Facts DEF todo, NodeInv, StackInv
<1>10. /\ order \in Seq(todo) /\ Len(order) \in Nat
       /\ \A x \in todo : \E k \in 1..Len(order) : order[k] = x
  <2>1. IsFiniteSet(todo)
    BY <1>9, Facts, FS_Subset
  <2> QED BY <1>2, <2>1, OrderIs
<1>11. StackInv'
  <2>1. entry' \in on_stack' /\ on_stack' \subseteq nodes'
    BY <1>1, <1>3, <1>9 DEF StackInv, Same
  <2>2. stack \in Seq(on_stack') /\ order \in Seq(on_stack')
    <3>1. on_stack \subseteq on_stack' /\ todo \subseteq on_stack'
      BY <1>3
    <3> QED BY <1>1, <1>10, <3>1 DEF StackInv
  <2>3. /\ stack' \in Seq(on_stack') /\ Len(stack') = Len(stack) + Len(order)
        /\ \A k \in 1..Len(stack) : stack'[k] = stack[k]
        /\ \A k \in 1..Len(order) : stack'[Len(stack) + k] = order[k]
    BY <1>2, <2>2, ConcatAt
  <2>4. \A k \in 1..Len(stack) : k \in 1..Len(stack') /\ stack'[k] = stack[k]
    BY <1>8, <1>10, <2>3
  <2>5. \A k \in 1..Len(order) : Len(stack) + k \in 1..Len(stack') /\ stack'[Len(stack) + k] = order[k]
    BY <1>8, <1>10, <2>3
  <2>6. ASSUME NEW n \in on_stack'
        PROVE  \/ \E k \in 1..Len(stack') : stack'[k] = n
               \/ n \in reachable /\ succs[n] \subseteq on_stack' \cup {exit}
    <3>1. CASE n \in todo
      BY <1>10, <2>5, <3>1
    <3>2. CASE n \in on_stack
      BY <1>1, <1>3, <2>4, <3>2 DEF StackInv
    <3> QED BY <1>3, <3>1, <3>2
  <2> QED BY <1>3, <2>1, <2>3, <2>6 DEF StackInv
<1> QED BY <1>1, <1>5, <1>6, <1>7, <1>11 DEF IInv, Same

(* An edge to the exit for a node that did not reach it: what reaches the exit    *)
(* now is what did before and what reaches that node.                            *)
LEMMA LinkedReach ==
    ASSUME IInv, EdgeInv, NEW n \in nodes, n \notin reachable, Link(n)
    PROVE  /\ succs' = [succs EXCEPT ![n] = @ \cup {exit}]
           /\ reachable' = ToExit' /\ n \in reachable' /\ reachable \subseteq reachable'
<1>1. succs' = [succs EXCEPT ![n] = @ \cup {exit}] /\ reachable' = reachable \cup Reach(PredsOf(succs'), {n})
  BY DEF Link, BackwardsReachable
<1>2. n \in Nodes /\ exit \in Nodes /\ succs \in [Nodes -> SUBSET Nodes] /\ succs' \in [Nodes -> SUBSET Nodes]
  BY <1>1, Facts DEF Nodes
<1>3. \A p \in Nodes : succs'[p] = IF p = n THEN succs[p] \cup {exit} ELSE succs[p]
  BY <1>1, <1>2
<1> DEFINE P == PredsOf(succs')
           L == Least(P, {exit})
           M == Least(P, {n})
<1>4. reachable' = reachable \cup M
  <2>1. P \in [Nodes -> SUBSET Nodes] /\ {n} \in SUBSET Nodes
    BY <1>2, ToExitIs
  <2>2. Reach(P, {n}) = M
    BY <2>1, Facts, ReachIs
  <2> QED BY <1>1, <2>2
<1>5. /\ exit \in L /\ L \subseteq Nodes
      /\ \A p \in Nodes, m \in L : m \in succs'[p] => p \in L
      /\ \A C \in SUBSET Nodes : exit \in C /\ (\A p \in Nodes, m \in C : m \in succs'[p] => p \in C) => L \subseteq C
  BY <1>2, ToExitIs
<1>6. /\ n \in M /\ M \subseteq Nodes
      /\ \A p \in Nodes, m \in M : m \in succs'[p] => p \in M
      /\ \A C \in SUBSET Nodes : n \in C /\ (\A p \in Nodes, m \in C : m \in succs'[p] => p \in C) => M \subseteq C
  BY <1>2, ToExitIs
<1>7. /\ exit \in reachable /\ reachable \subseteq Nodes
      /\ \A p \in Nodes, m \in reachable : m \in succs[p] => p \in reachable
      /\ \A C \in SUBSET Nodes : exit \in C /\ (\A p \in Nodes, m \in C : m \in succs[p] => p \in C) => reachable \subseteq C
  BY <1>2, ToExitIs DEF EdgeInv, ToExit
<1> HIDE DEF P, L, M
<1>8. reachable \cup M \subseteq L
  <2>1. reachable \subseteq L
    <3>1. \A p \in Nodes, m \in L : m \in succs[p] => p \in L
      BY <1>3, <1>5
    <3> QED BY <1>5, <1>7, <3>1
  <2>2. M \subseteq L
    <3>1. n \in L
      BY <1>2, <1>3, <1>5
    <3> QED BY <1>5, <1>6, <3>1
  <2> QED BY <2>1, <2>2
<1>9. L \subseteq reachable \cup M
  <2>1. ASSUME NEW p \in Nodes, NEW m \in reachable \cup M, m \in succs'[p] PROVE p \in reachable \cup M
    BY <1>3, <1>6, <1>7, <2>1
  <2> QED BY <1>5, <1>6, <1>7, <2>1
<1>10. L = ToExit'
  BY DEF L, P, ToExit, PredsOf
<1> QED BY <1>1, <1>4, <1>6, <1>8, <1>9, <1>10

(* A node that does not reach the exit reaches no dead end: those have an edge   *)
(* to it.                                                                     *)
LEMMA NoDeadEnd ==
    ASSUME IInv, EdgeInv, NEW n \in nodes, n \notin reachable, NEW m \in Least(Flow, {n}) \cap nodes
    PROVE  Flow[m] # {}
<1>1. /\ nodes \subseteq Nodes /\ succs \in [Nodes -> SUBSET Nodes] /\ n \in Nodes /\ exit \in Nodes
      /\ \A d \in nodes \ {exit} : d \in Defs
  BY Facts DEF Nodes
<1>2. /\ exit \in reachable
      /\ \A p \in Nodes, d \in reachable : d \in succs[p] => p \in reachable
  BY <1>1, ToExitIs DEF EdgeInv, ToExit
<1>3. \A d \in nodes \ {exit} : Flow[d] = Targets(d) /\ Targets(d) \subseteq succs[d] /\ succs[d] \subseteq nodes
  BY <1>1 DEF EdgeInv, Flow, IInv, NodeInv
<1>4. n \in Least(Flow, {n}) /\ Least(Flow, {n}) \subseteq nodes \ reachable
  <2>1. ASSUME NEW d \in Nodes PROVE Flow[d] \subseteq Nodes
    BY <2>1, Facts DEF Flow, Nodes, IInv
  <2>2. Flow \in [Nodes -> SUBSET Nodes]
    BY <2>1 DEF Flow
  <2>3. IsClosed(Flow, nodes \ reachable)
    BY <1>1, <1>2, <1>3 DEF IsClosed
  <2> QED BY <1>1, <2>2, <2>3, LeastIs
<1>5. m \in nodes \ {exit} /\ m \notin reachable
  BY <1>2, <1>4
<1>6. exit \notin succs[m]
  BY <1>1, <1>2, <1>5
<1> QED BY <1>3, <1>5, <1>6 DEF EdgeInv

LEMMA PopNodeInv == ASSUME IInv, PopNode PROVE IInv'
<1> DEFINE n == Last(stack)
<1>1. /\ pc = "link" /\ EdgeInv /\ StackInv /\ EndlessInv /\ NodeInv /\ pc' = "link" /\ Same
      /\ stack # <<>> /\ todo = {} /\ Link(n) /\ stack' = Front(stack)
      /\ UNCHANGED <<nodes, cfg_queue, cfg_done, on_stack>>
  BY DEF IInv, PopNode, Same
<1>2. \A d : Targets(d)' = Targets(d)
  BY <1>1, SameTargets
<1>3. Len(stack) \in Nat \ {0} /\ stack \in Seq(on_stack) /\ n = stack[Len(stack)] /\ n \in on_stack /\ n \in nodes
  BY <1>1 DEF StackInv, Last
<1>4. nodes \subseteq Nodes /\ succs \in [Nodes -> SUBSET Nodes] /\ entry \in Nodes /\ exit \in Nodes /\ exit \notin Defs
  BY Facts DEF Nodes, IInv
<1>5. exit \in reachable
  BY <1>1, <1>4, ToExitIs DEF EdgeInv, ToExit
<1> HIDE DEF n
<1>6. \/ n \in reachable /\ UNCHANGED <<succs, reachable>>
      \/ n \notin reachable /\ n # exit /\ succs' = [succs EXCEPT ![n] = @ \cup {exit}] /\ reachable' = ToExit'
  BY <1>1, <1>3, <1>5, LinkedReach DEF Link
<1>7. n \in reachable' /\ reachable \subseteq reachable'
  BY <1>1, <1>3, <1>6, LinkedReach
<1>8. \A d \in Nodes : /\ succs[d] \subseteq succs'[d] /\ succs'[d] \subseteq succs[d] \cup {exit}
                       /\ d # n => succs'[d] = succs[d]
  BY <1>3, <1>4, <1>6
<1>9. NodeInv'
  <2>1. succs' \in [Nodes -> SUBSET nodes]
    BY <1>1, <1>3, <1>4, <1>6 DEF NodeInv
  <2>2. Least(succs, {entry}) \subseteq Least(succs', {entry})
    <3>1. succs' \in [Nodes -> SUBSET Nodes]
      BY <1>4, <2>1
    <3> QED BY <1>4, <1>8, <3>1, LeastGrows
  <2> QED BY <1>1, <2>1, <2>2 DEF NodeInv, FromEntry, Same
<1>10. EdgeInv'
  <2>1. CASE n \in reachable
    <3>1. UNCHANGED <<succs, reachable>>
      BY <1>6, <2>1
    <3> QED BY <1>1, <1>2, <3>1 DEF EdgeInv, ToExit, PredsOf
  <2>2. CASE n \notin reachable
    <3>1. n # exit /\ reachable' = ToExit' /\ succs' = [succs EXCEPT ![n] = @ \cup {exit}]
      BY <1>6, <2>2
    <3>2. succs'[exit] = {} /\ \A d \in Nodes \ nodes : succs'[d] = {}
      BY <1>1, <1>3, <1>4, <1>8, <3>1 DEF EdgeInv
    <3>3. ASSUME NEW d \in nodes \ {exit}
          PROVE  succs'[d] \ {exit} = Targets(d) /\ (Targets(d) = {} => succs'[d] = {exit})
      BY <1>1, <1>4, <1>8 DEF EdgeInv
    <3> QED BY <1>1, <1>2, <3>1, <3>2, <3>3 DEF EdgeInv
  <2> QED BY <2>1, <2>2
<1>11. StackInv'
  <2>1. /\ stack' \in Seq(on_stack) /\ Len(stack') = Len(stack) - 1
        /\ \A k \in 1..Len(stack) - 1 : stack'[k] = stack[k]
    <3>1. stack' = SubSeq(stack, 1, Len(stack) - 1)
      BY <1>1 DEF Front
    <3>2. stack' \in Seq(on_stack)
      BY <1>3, <3>1
    <3>3. Len(stack') = Len(stack) - 1 /\ \A k \in 1..Len(stack) - 1 : stack'[k] = stack[k]
      <4> DEFINE l == Len(stack) - 1
      <4>1. l \in Nat /\ l <= Len(stack)
        BY <1>3
      <4> HIDE DEF l
      <4>2. stack' = SubSeq(stack, 1, l)
        BY <3>1 DEF l
      <4>3. Len(stack') = l
        BY <1>3, <4>1, <4>2
      <4>4. \A k \in 1..l : stack'[k] = stack[k]
        BY <1>3, <4>1, <4>2
      <4> QED BY <4>3, <4>4 DEF l
    <3> QED BY <3>2, <3>3
  <2>2. succs[n] \subseteq on_stack
    BY <1>1 DEF todo, n
  <2>3. ASSUME NEW d \in on_stack
        PROVE  \/ \E k \in 1..Len(stack') : stack'[k] = d
               \/ d \in reachable' /\ succs'[d] \subseteq on_stack \cup {exit}
    <3>1. d \in Nodes
      BY <1>1, <1>4 DEF StackInv
    <3>2. CASE d = n
      BY <1>7, <1>8, <2>2, <3>1, <3>2
    <3>3. CASE d # n /\ \E k \in 1..Len(stack) : stack[k] = d
      <4>1. PICK k \in 1..Len(stack) : stack[k] = d
        BY <3>3
      <4>2. k \in 1..Len(stack) - 1
        BY <1>3, <3>3, <4>1
      <4> QED BY <2>1, <4>1, <4>2
    <3>4. CASE d # n /\ d \in reachable /\ succs[d] \subseteq on_stack \cup {exit}
      BY <1>7, <1>8, <3>1, <3>4
    <3> QED BY <1>1, <3>2, <3>3, <3>4 DEF StackInv
  <2> QED BY <1>1, <2>1, <2>3 DEF StackInv, Same
<1>12. EndlessInv'
  <2>1. Flow' = Flow
    BY <1>2 DEF Flow
  <2>2. Added' \subseteq Added \cup {n} /\ (n \in reachable => Added' = Added)
    BY <1>1, <1>4, <1>6, <1>8 DEF Added
  <2>3. ASSUME NEW d \in Added', d \notin Added PROVE \A m \in Least(Flow, {d}) \cap nodes : Flow[m] # {}
    BY <1>1, <1>3, <2>2, <2>3, NoDeadEnd
  <2>4. ASSUME NEW d \in Added' PROVE Targets(d) = {} \/ \A m \in Least(Flow, {d}) \cap nodes : Flow[m] # {}
    BY <1>1, <2>3 DEF EndlessInv
  <2> QED BY <1>1, <1>2, <2>1, <2>4 DEF EndlessInv
<1> QED BY <1>1, <1>9, <1>10, <1>11, <1>12 DEF IInv, Same

(* A step that changes nothing but pc, once the stack is empty, or nothing.     *)
LEMMA FinishInv == ASSUME IInv, Finish \/ UNCHANGED vars PROVE IInv'
<1>1. UNCHANGED <<g, entry, bound, nodes, succs, cfg_queue, cfg_done, reachable, stack, on_stack>> /\ Same
  BY DEF Finish, vars, Same
<1>2. \A n : Targets(n)' = Targets(n) /\ is_set(g, n)' = is_set(g, n)
  BY <1>1, SameTargets
<1>3. NodeInv'
  BY <1>1 DEF IInv, NodeInv, FromEntry
<1>4. VisitInv' <=> VisitInv
  BY <1>1, <1>2 DEF VisitInv
<1>5. EdgeInv' <=> EdgeInv
  BY <1>1, <1>2 DEF EdgeInv, ToExit, PredsOf
<1>6. StackInv' <=> StackInv
  BY <1>1 DEF StackInv
<1>7. EndlessInv' <=> EndlessInv
  <2>1. Flow' = Flow /\ Added' = Added
    BY <1>1, <1>2 DEF Flow, Added
  <2> QED BY <1>1, <1>2, <2>1 DEF EndlessInv
<1>8. CASE UNCHANGED vars
  <2>1. pc' = pc
    BY <1>8 DEF vars
  <2> QED BY <1>1, <1>3, <1>4, <1>5, <1>6, <1>7, <2>1 DEF IInv, Same
<1>9. CASE Finish
  <2>1. pc = "link" /\ stack = <<>> /\ pc' = "done"
    BY <1>9 DEF Finish
  <2> QED BY <1>1, <1>3, <1>4, <1>5, <1>6, <1>7, <2>1 DEF IInv, Same
<1> QED BY <1>8, <1>9

-----------------------------------------------------------------------------
(* IInv holds all along: link_to_exit knows exactly what reaches the exit, and  *)
(* what it has popped reaches it.                                              *)
THEOREM Invariance == ProgramsOK /\ IsFiniteSet(Defs) /\ Spec => []IInv
<1>1. IInv /\ [Next]_vars => IInv'
  BY VisitNomInv, LinkDeadEndsInv, PushSuccsInv, PopNodeInv, FinishInv DEF Next
<1> QED BY InitInv, <1>1, PTL DEF Spec

(* The nodes of a CFG lie in its scope, and so do their successors.              *)
THEOREM Types == ProgramsOK /\ IsFiniteSet(Defs) /\ Spec => []TypeOK
<1>1. IInv => TypeOK
  <2> SUFFICES ASSUME IInv PROVE TypeOK
    OBVIOUS
  <2>1. reachable \subseteq Nodes
    <3>1. CASE pc = "visit"
      BY <3>1 DEF IInv, VisitInv
    <3>2. CASE pc # "visit"
      BY <3>2, Facts, ToExitIs DEF IInv, EdgeInv, ToExit, Nodes
    <3> QED BY <3>1, <3>2
  <2>2. cfg_queue \subseteq cfg_done /\ cfg_done \subseteq nodes
    BY DEF IInv, VisitInv, EdgeInv
  <2>3. stack \in Seq(on_stack) /\ on_stack \subseteq nodes
    <3>1. CASE VisitInv
      <4>1. stack = <<>> /\ on_stack = {}
        BY <3>1 DEF VisitInv
      <4> QED BY <4>1
    <3>2. CASE StackInv
      BY <3>2 DEF StackInv
    <3> QED BY <3>1, <3>2 DEF IInv
  <2> QED BY <2>1, <2>2, <2>3 DEF IInv, NodeInv, TypeOK
<1> QED BY Invariance, <1>1, PTL

(* Every node gets a number in either direction, which cfg.cpp asserts: the       *)
(* entry reaches it, and it reaches the exit, endless loops included.            *)
THEOREM Numbered == ProgramsOK /\ IsFiniteSet(Defs) /\ Spec => []AllNumbered
<1>1. IInv => AllNumbered
  <2> SUFFICES ASSUME IInv, pc = "done"
               PROVE  Reach(succs, {entry}) = nodes /\ Reach(PredsOf(succs), {exit}) = nodes
    BY DEF AllNumbered
  <2>1. EdgeInv /\ StackInv /\ stack = <<>> /\ NodeInv
    BY DEF IInv
  <2>2. /\ entry \in Nodes /\ exit \in Nodes /\ nodes \subseteq Nodes /\ entry # exit
        /\ succs \in [Nodes -> SUBSET Nodes] /\ IsFiniteSet(Nodes)
    BY Facts DEF Nodes
  <2>3. /\ entry \in FromEntry /\ FromEntry \subseteq Nodes
        /\ \A n \in FromEntry : succs[n] \subseteq FromEntry
        /\ \A C \in SUBSET Nodes : entry \in C /\ (\A n \in C : succs[n] \subseteq C) => FromEntry \subseteq C
    BY <2>2, FromEntryIs
  <2>4. /\ exit \in ToExit /\ ToExit \subseteq Nodes
        /\ \A p \in Nodes, n \in ToExit : n \in succs[p] => p \in ToExit
        /\ \A C \in SUBSET Nodes : exit \in C /\ (\A p \in Nodes, n \in C : n \in succs[p] => p \in C)
                                     => ToExit \subseteq C
    BY <2>2, ToExitIs DEF ToExit
  <2>5. Reach(succs, {entry}) = FromEntry /\ Reach(PredsOf(succs), {exit}) = ToExit
    <3>1. PredsOf(succs) \in [Nodes -> SUBSET Nodes]
      BY <2>2, ToExitIs
    <3> QED BY <2>2, <3>1, ReachIs DEF FromEntry, ToExit
  <2>6. on_stack \subseteq ToExit /\ \A n \in on_stack : succs[n] \subseteq on_stack \cup {exit}
    BY <2>1 DEF StackInv, EdgeInv
  <2>7. nodes \subseteq ToExit
    <3> DEFINE C == on_stack \cup {exit}
    <3>1. entry \in C /\ C \in SUBSET Nodes /\ \A n \in C : succs[n] \subseteq C
      BY <2>1, <2>2, <2>6 DEF StackInv, EdgeInv
    <3>2. FromEntry \subseteq C
      BY <2>3, <3>1
    <3> QED BY <2>1, <2>4, <2>6, <3>2 DEF NodeInv
  <2>8. ToExit \subseteq nodes
    <3>1. \A p \in Nodes, n \in nodes : n \in succs[p] => p \in nodes
      BY <2>1 DEF EdgeInv
    <3> QED BY <2>1, <2>2, <2>4, <3>1 DEF NodeInv
  <2>9. exit \in FromEntry
    <3> SUFFICES ASSUME exit \notin FromEntry PROVE FALSE
      OBVIOUS
    <3>1. \A p \in Nodes, n \in Nodes \ FromEntry : n \in succs[p] => p \in Nodes \ FromEntry
      BY <2>3
    <3>2. ToExit \subseteq Nodes \ FromEntry
      BY <2>2, <2>4, <3>1
    <3> QED BY <2>1, <2>3, <2>7, <3>2 DEF NodeInv
  <2>10. FromEntry \subseteq nodes
    <3>1. \A n \in nodes : succs[n] \subseteq nodes
      BY <2>1, <2>2 DEF NodeInv
    <3> QED BY <2>1, <2>2, <2>3, <3>1 DEF NodeInv
  <2>11. FromEntry = nodes
    BY <2>1, <2>9, <2>10 DEF NodeInv
  <2> QED BY <2>5, <2>7, <2>8, <2>11
<1> QED BY Invariance, <1>1, PTL

(* link_to_exit adds edges to dead ends and to what can only run on for ever.     *)
THEOREM Endless == ProgramsOK /\ IsFiniteSet(Defs) /\ Spec => []OnlyEndless
<1>1. IInv => OnlyEndless
  <2> SUFFICES ASSUME IInv, pc = "done", NEW n \in Added, NEW m \in Reach(Flow, {n}), m \in nodes, Flow[m] = {}
               PROVE  m = n
    BY DEF OnlyEndless
  <2>1. Flow \in [Nodes -> SUBSET Nodes] /\ n \in Nodes /\ IsFiniteSet(Nodes) /\ n # exit
    <3>1. ASSUME NEW d \in Nodes PROVE Flow[d] \subseteq Nodes
      BY <3>1, Facts DEF Flow, Nodes, IInv
    <3> QED BY <3>1, Facts DEF Flow, Added
  <2>2. Reach(Flow, {n}) = Least(Flow, {n})
    BY <2>1, ReachIs
  <2>3. Targets(n) = {}
    BY <2>2 DEF IInv, EndlessInv
  <2>4. Flow[n] = {}
    BY <2>1, <2>3 DEF Flow
  <2>5. IsClosed(Flow, {n})
    BY <2>4 DEF IsClosed
  <2>6. Least(Flow, {n}) \subseteq {n}
    BY <2>1, <2>5, LeastIs
  <2> QED BY <2>2, <2>6
<1> QED BY Invariance, <1>1, PTL

-----------------------------------------------------------------------------
(* Of a set that nothing leads out of, the rest can be left out.                  *)
LEMMA LeastWithin ==
    ASSUME NEW next, NEW E, next \in [E -> SUBSET E], NEW T \in SUBSET E, NEW S \in SUBSET T,
           NEW f, f = [d \in T |-> next[d]], \A d \in T : next[d] \subseteq T
    PROVE  f \in [T -> SUBSET T] /\ Least(f, S) = Least(next, S)
<1>1. f \in [T -> SUBSET T] /\ \A d \in T : f[d] = next[d]
  OBVIOUS
<1>2. /\ S \subseteq Least(f, S) /\ Least(f, S) \subseteq T /\ IsClosed(f, Least(f, S))
      /\ \A C \in SUBSET T : S \subseteq C /\ IsClosed(f, C) => Least(f, S) \subseteq C
  BY <1>1, LeastIs
<1>3. /\ S \subseteq Least(next, S) /\ Least(next, S) \subseteq E /\ IsClosed(next, Least(next, S))
      /\ \A C \in SUBSET E : S \subseteq C /\ IsClosed(next, C) => Least(next, S) \subseteq C
  BY LeastIs
<1>4. Least(next, S) \subseteq Least(f, S)
  <2>1. IsClosed(next, Least(f, S))
    BY <1>1, <1>2 DEF IsClosed
  <2> QED BY <1>2, <1>3, <2>1
<1>5. Least(f, S) \subseteq Least(next, S)
  <2>1. IsClosed(f, Least(next, S) \cap T)
    BY <1>1, <1>3 DEF IsClosed
  <2> QED BY <1>2, <1>3, <2>1
<1> QED BY <1>1, <1>4, <1>5

(* An entry is not bound in its own scope.                                       *)
LEMMA EntryFree ==
    ASSUME IsProgram(g), DefsOf(g) = Defs, IsFiniteSet(Defs), entry \in g.noms
    PROVE  entry \notin Bound(g, entry)
<1> DEFINE D == Dependent(g, entry)
           U == UsersBeside(g, entry)
           O == OpsWithin(g, D)
<1>1. g.ops \in [Defs -> SUBSET Defs] /\ entry \in Defs
  BY DEF IsProgram
<1>2. D \subseteq Defs \ {entry}
  <2>1. CASE entry \notin DOMAIN g.var
    BY <2>1 DEF Dependent
  <2>2. CASE entry \in DOMAIN g.var
    <3> DEFINE v == g.var[entry]
    <3>1. v \in Defs /\ v # entry
      BY <2>2 DEF IsProgram
    <3>2. U \in [Defs -> SUBSET Defs] /\ \A d \in Defs : entry \notin U[d]
      BY DEF UsersBeside, uses
    <3>3. D = Reach(U, {v})
      BY <2>2 DEF Dependent
    <3> HIDE DEF U, D, v
    <3>4. D = Least(U, {v})
      BY <3>1, <3>2, <3>3, ReachIs
    <3>5. IsClosed(U, Defs \ {entry})
      BY <3>2 DEF IsClosed
    <3> QED BY <3>1, <3>2, <3>4, <3>5, LeastIs
  <2> QED BY <2>1, <2>2
<1>3. Bound(g, entry) = Reach(O, g.ops[entry] \cap D)
  BY DEF Bound, LiveOf
<1>4. O \in [Defs -> SUBSET Defs] /\ \A d \in Defs : O[d] \subseteq D
  BY <1>1 DEF OpsWithin
<1> HIDE DEF D, O
<1>5. g.ops[entry] \cap D \in SUBSET Defs
  BY <1>1
<1>6. Bound(g, entry) = Least(O, g.ops[entry] \cap D)
  BY <1>3, <1>4, <1>5, ReachIs
<1>7. IsClosed(O, D)
  BY <1>2, <1>4 DEF IsClosed
<1> QED BY <1>2, <1>4, <1>5, <1>6, <1>7, LeastIs

(* What CFA makes is a flow graph, as the analyses that follow it assume: no edge  *)
(* leads to the entry, none leaves the exit, and every node lies between them.     *)
CFG == [entry |-> entry, exit |-> exit, succs |-> [n \in nodes |-> succs[n]]]

THEOREM FlowGraph == ProgramsOK /\ IsFiniteSet(Defs) /\ Spec => [](pc = "done" => IsFlowGraph(CFG))
<1>1. Init => bound = Bound(g, entry)
  BY DEF Init
<1>2. bound = Bound(g, entry) /\ [Next]_vars => (bound = Bound(g, entry))'
  BY DEF Next, vars, VisitNom, LinkDeadEnds, PushSuccs, PopNode, Finish
<1>3. IInv /\ bound = Bound(g, entry) /\ AllNumbered => (pc = "done" => IsFlowGraph(CFG))
  <2> SUFFICES ASSUME IInv, bound = Bound(g, entry), AllNumbered, pc = "done" PROVE IsFlowGraph(CFG)
    OBVIOUS
  <2>1. NodeInv /\ EdgeInv /\ IsFiniteSet(Defs) /\ IsProgram(g) /\ DefsOf(g) = Defs /\ entry \in g.noms
    BY DEF IInv
  <2>2. IsFiniteSet(Nodes) /\ nodes \in SUBSET Nodes /\ entry \in nodes /\ exit \in nodes /\ entry # exit
    <3>1. entry \in Defs /\ bound \subseteq Defs /\ exit \notin Defs
      BY DEF IInv, IsProgram
    <3> QED BY <2>1, <3>1, NodesFinite DEF NodeInv, Nodes
  <2>3. NodesOf(CFG) = nodes /\ CFG.entry = entry /\ CFG.exit = exit /\ \A n \in nodes : CFG.succs[n] = succs[n]
    BY DEF CFG, NodesOf
  <2>4. succs \in [Nodes -> SUBSET Nodes] /\ \A n \in Nodes : succs[n] \subseteq nodes /\ (n \notin nodes => succs[n] = {})
    BY <2>1, <2>2 DEF NodeInv, EdgeInv
  <2>5. preds(CFG, entry) = {}
    <3> SUFFICES ASSUME NEW p \in nodes, entry \in succs[p] PROVE FALSE
      BY <2>3 DEF preds
    <3>1. p # exit
      BY <2>1 DEF EdgeInv
    <3>2. entry \in Targets(p) /\ p \in Defs
      BY <2>1, <2>2, <3>1 DEF EdgeInv, Nodes
    <3>3. entry \in bound
      BY <3>2, TargetsIn DEF IInv
    <3> QED BY <2>1, <3>3, EntryFree
  <2>6. succs[exit] = {}
    BY <2>1 DEF EdgeInv
  <2>7. Reach(CFG.succs, {entry}) = nodes
    <3> DEFINE f == CFG.succs
    <3>1. f = [d \in nodes |-> succs[d]]
      BY DEF CFG
    <3> HIDE DEF f
    <3>2. {entry} \in SUBSET nodes /\ {entry} \in SUBSET Nodes /\ IsFiniteSet(nodes)
      BY <2>2, FS_Subset
    <3>3. f \in [nodes -> SUBSET nodes] /\ Least(f, {entry}) = Least(succs, {entry})
      BY <2>2, <2>4, <3>1, <3>2, LeastWithin
    <3>4. Reach(f, {entry}) = Reach(succs, {entry})
      BY <2>2, <2>4, <3>2, <3>3, ReachIs
    <3> QED BY <3>4 DEF AllNumbered, f
  <2>8. Reach(Preds(CFG), {exit}) = nodes
    <3> DEFINE f == Preds(CFG)
               P == PredsOf(succs)
    <3>1. /\ P \in [Nodes -> SUBSET Nodes]
          /\ \A n \in Nodes : P[n] = {p \in Nodes : n \in succs[p]}
          /\ \A n \in Nodes : P[n] \subseteq nodes
      BY <2>4 DEF PredsOf
    <3>2. f = [n \in nodes |-> {p \in nodes : n \in succs[p]}]
      BY <2>3 DEF Preds, preds
    <3>3. f = [n \in nodes |-> P[n]]
      BY <2>2, <2>4, <3>1, <3>2
    <3> HIDE DEF f, P
    <3>4. {exit} \in SUBSET nodes /\ {exit} \in SUBSET Nodes /\ IsFiniteSet(nodes)
      BY <2>2, FS_Subset
    <3>5. f \in [nodes -> SUBSET nodes] /\ Least(f, {exit}) = Least(P, {exit})
      BY <2>2, <3>1, <3>3, <3>4, LeastWithin
    <3>6. Reach(f, {exit}) = Reach(P, {exit})
      BY <2>2, <3>1, <3>4, <3>5, ReachIs
    <3> QED BY <3>6 DEF AllNumbered, f, P
  <2> QED BY <2>2, <2>3, <2>5, <2>6, <2>7, <2>8 DEF IsFlowGraph
<1> QED BY Invariance, Numbered, <1>1, <1>2, <1>3, PTL DEF Spec

(* All that is promised of the graph.                                           *)
THEOREM Sound == ProgramsOK /\ IsFiniteSet(Defs) /\ Spec => []CfgNumbered
BY Types, Numbered, Endless, PTL DEF CfgNumbered
=============================================================================
