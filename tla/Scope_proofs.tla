---------------------------- MODULE Scope_proofs ----------------------------
(***************************************************************************)
(* What TLAPS proves of Scope, for any program and any order of its queues.  *)
(***************************************************************************)
EXTENDS Scope

-----------------------------------------------------------------------------
(* The scope of the entry by definition: what depends on its Var, and what of    *)
(* that the entry reaches.                                                     *)
EntryVar  == {g.var[n] : n \in DOMAIN g.var \cap {entry}}
ScopeDefs == Least(OpsWithin(g, DependsOnVar), g.ops[entry] \cap DependsOnVar)

(* Scope::run has found what uses what has left the queue.                      *)
RunInv ==
    /\ EntryVar \subseteq bound /\ bound \subseteq DependsOnVar
    /\ queue \subseteq bound
    /\ \A d \in bound \ queue : uses(g, d) \ {entry} \subseteq bound
    /\ live = {} /\ free_defs = {} /\ free_vars = {} /\ free_noms = {}

(* calc_bound has looked at the operands of the entry and of what has left the   *)
(* queue.                                                                      *)
BoundInv ==
    /\ bound = DependsOnVar
    /\ g.ops[entry] \cap DependsOnVar \subseteq live /\ live \subseteq ScopeDefs
    /\ queue \subseteq live
    /\ \A d \in live \ queue : g.ops[d] \cap DependsOnVar \subseteq live
    /\ free_defs \subseteq Defs
    /\ \A d \in {entry} \cup (live \ queue) : g.ops[d] \ (DependsOnVar \cup g.const) \subseteq free_defs
    /\ free_vars = {} /\ free_noms = {}

(* What calc_free does with operands.                                          *)
Listed(S) ==
    /\ S \cap Vars(g) \subseteq free_vars
    /\ S \cap g.noms \subseteq free_noms
    /\ S \ (g.const \cup Vars(g) \cup g.noms) \subseteq live

FreeInv ==
    /\ bound = ScopeDefs
    /\ free_defs \subseteq Defs
    /\ \A d \in {entry} \cup ScopeDefs : g.ops[d] \ (DependsOnVar \cup g.const) \subseteq free_defs
    /\ queue \subseteq live /\ live \subseteq Defs /\ live \cap (Vars(g) \cup g.noms) = {}
    /\ free_vars \subseteq Vars(g) /\ free_noms \subseteq g.noms
    /\ Listed(free_defs)
    /\ \A d \in live \ queue : Listed(g.ops[d])

IInv ==
    /\ g \in Programs /\ IsProgram(g) /\ DefsOf(g) = Defs /\ entry \in g.noms
    /\ \/ pc = "run" /\ RunInv
       \/ pc = "bound" /\ BoundInv
       \/ pc = "free" /\ FreeInv
       \/ pc = "done" /\ queue = {} /\ FreeInv

(* What depends on the Var of the entry is the least set that it says it is.    *)
LEMMA DependsIs ==
    ASSUME IsProgram(g), DefsOf(g) = Defs, entry \in g.noms
    PROVE  /\ EntryVar \subseteq DependsOnVar /\ DependsOnVar \subseteq Defs
           /\ \A d \in DependsOnVar : uses(g, d) \ {entry} \subseteq DependsOnVar
           /\ \A C \in SUBSET Defs : EntryVar \subseteq C /\ (\A d \in C : uses(g, d) \ {entry} \subseteq C)
                                        => DependsOnVar \subseteq C
<1> DEFINE next == UsersBeside(g, entry)
<1>1. next \in [Defs -> SUBSET Defs] /\ \A d \in Defs : next[d] = uses(g, d) \ {entry}
  BY DEF UsersBeside, uses
<1>2. CASE entry \in DOMAIN g.var
  <2>1. EntryVar = {g.var[entry]} /\ EntryVar \subseteq Defs
    BY <1>2 DEF EntryVar, IsProgram
  <2>2. DependsOnVar = Least(next, EntryVar)
    BY <1>2, <2>1 DEF DependsOnVar
  <2> HIDE DEF next
  <2> QED BY <1>1, <2>1, <2>2, LeastIs DEF IsClosed
<1>3. CASE entry \notin DOMAIN g.var
  BY <1>3 DEF EntryVar, DependsOnVar
<1> QED BY <1>2, <1>3

(* So is the scope.                                                            *)
LEMMA ScopeIs ==
    ASSUME IsProgram(g), DefsOf(g) = Defs, entry \in g.noms
    PROVE  /\ g.ops[entry] \cap DependsOnVar \subseteq ScopeDefs /\ ScopeDefs \subseteq DependsOnVar
           /\ \A d \in ScopeDefs : g.ops[d] \cap DependsOnVar \subseteq ScopeDefs
           /\ \A C \in SUBSET Defs : /\ g.ops[entry] \cap DependsOnVar \subseteq C
                                     /\ \A d \in C : g.ops[d] \cap DependsOnVar \subseteq C
                                     => ScopeDefs \subseteq C
<1> DEFINE next == OpsWithin(g, DependsOnVar)
           S    == g.ops[entry] \cap DependsOnVar
<1>1. next \in [Defs -> SUBSET Defs] /\ \A d \in Defs : next[d] = g.ops[d] \cap DependsOnVar
  BY DependsIs DEF OpsWithin, IsProgram
<1>2. S \in SUBSET Defs
  BY DependsIs
<1>3. ScopeDefs = Least(next, S)
  BY DEF ScopeDefs
<1> HIDE DEF next
<1>4. /\ S \subseteq ScopeDefs /\ ScopeDefs \subseteq Defs
      /\ IsClosed(next, ScopeDefs)
      /\ \A C \in SUBSET Defs : S \subseteq C /\ IsClosed(next, C) => ScopeDefs \subseteq C
  BY <1>1, <1>2, <1>3, LeastIs
<1>5. ScopeDefs \subseteq DependsOnVar
  <2>1. IsClosed(next, DependsOnVar) /\ S \subseteq DependsOnVar
    BY <1>1, DependsIs DEF IsClosed
  <2> QED BY <1>4, <2>1, DependsIs
<1> QED BY <1>1, <1>4, <1>5 DEF IsClosed

-----------------------------------------------------------------------------
(* A scope starts with the Var of its entry.                                    *)
LEMMA InitInv == ProgramsOK /\ Init => IInv
<1> SUFFICES ASSUME ProgramsOK, Init PROVE IInv
  OBVIOUS
<1>1. g \in Programs /\ IsProgram(g) /\ DefsOf(g) = Defs /\ entry \in g.noms
  BY DEF ProgramsOK, Init
<1>2. bound = EntryVar /\ queue = EntryVar /\ pc = "run"
  BY DEF Init, EntryVar
<1>3. RunInv
  BY <1>1, <1>2, DependsIs DEF RunInv, Init
<1> QED BY <1>1, <1>2, <1>3 DEF IInv

(* No step touches the program, and so none what it is compared with.           *)
Same == UNCHANGED <<g, entry>>

(* So what depends on the Var and what the scope should be stay the same.       *)
LEMMA Kept ==
    ASSUME IInv, Same
    PROVE  /\ (g \in Programs)' /\ IsProgram(g)' /\ (DefsOf(g) = Defs)' /\ (entry \in g.noms)'
           /\ EntryVar' = EntryVar /\ DependsOnVar' = DependsOnVar /\ ScopeDefs' = ScopeDefs
           /\ Vars(g') = Vars(g) /\ \A d : uses(g', d) = uses(g, d)
<1>1. g' = g /\ entry' = entry
  BY DEF Same
<1>2. (g \in Programs)' /\ IsProgram(g)' /\ (DefsOf(g) = Defs)' /\ (entry \in g.noms)'
  BY <1>1 DEF IInv
<1>3. EntryVar' = EntryVar
  BY <1>1 DEF EntryVar
<1>4. DependsOnVar' = DependsOnVar
  BY <1>1 DEF DependsOnVar
<1>5. ScopeDefs' = ScopeDefs
  BY <1>1, <1>4 DEF ScopeDefs
<1> QED BY <1>1, <1>2, <1>3, <1>4, <1>5

(* Scope::run: a def leaves the queue when its users are in.                    *)
LEMMA RunPopInv == ASSUME IInv, RunPop PROVE IInv'
<1>1. Same /\ pc = "run" /\ pc' = "run" /\ RunInv
  BY DEF RunPop, IInv, Same
<1>2. PICK d \in queue : Run(d)
  BY DEF RunPop
<1> DEFINE U == uses(g, d) \ {entry}
<1>3. d \in bound /\ U \subseteq DependsOnVar
  BY <1>1, <1>2, DependsIs DEF RunInv, IInv
<1>4. bound' = bound \cup U /\ queue' = (queue \ {d}) \cup (U \ bound)
  BY <1>2 DEF Run, Push
<1>5. /\ EntryVar \subseteq bound' /\ bound' \subseteq DependsOnVar /\ queue' \subseteq bound'
      /\ \A e \in bound' \ queue' : uses(g, e) \ {entry} \subseteq bound'
  BY <1>1, <1>3, <1>4 DEF RunInv
<1>6. live' = {} /\ free_defs' = {} /\ free_vars' = {} /\ free_noms' = {}
  BY <1>1 DEF RunPop, RunInv
<1> QED BY <1>1, <1>5, <1>6, Kept DEF IInv, RunInv, Same

(* When the queue is empty, all that depends on the Var has been found.         *)
LEMMA StartBoundInv == ASSUME IInv, StartBound PROVE IInv'
<1>1. Same /\ pc = "run" /\ queue = {} /\ pc' = "bound" /\ RunInv
  BY DEF StartBound, IInv, Same
<1>2. bound = DependsOnVar
  <2>1. bound \subseteq Defs
    BY <1>1, DependsIs DEF RunInv, IInv
  <2> QED BY <1>1, <2>1, DependsIs DEF RunInv, IInv
<1> DEFINE S == g.ops[entry] \cap DependsOnVar
<1>3. bound' = DependsOnVar /\ live' = S /\ queue' = S /\ free_defs' = g.ops[entry] \ (DependsOnVar \cup g.const)
  BY <1>1, <1>2 DEF StartBound, enqueue, Push, RunInv
<1>4. S \subseteq ScopeDefs /\ g.ops[entry] \subseteq Defs
  BY ScopeIs DEF IInv, IsProgram
<1>5. free_vars' = {} /\ free_noms' = {}
  BY <1>1 DEF StartBound, RunInv
<1>6. BoundInv'
  BY <1>1, <1>3, <1>4, <1>5, Kept DEF BoundInv, Same
<1> QED BY <1>1, <1>6, Kept DEF IInv

(* Scope::calc_bound: a def leaves the queue when its operands have been seen.  *)
LEMMA BoundPopInv == ASSUME IInv, BoundPop PROVE IInv'
<1>1. Same /\ pc = "bound" /\ pc' = "bound" /\ BoundInv /\ bound' = bound
  BY DEF BoundPop, IInv, Same
<1>2. PICK d \in queue : enqueue(g.ops[d], queue \ {d})
  BY DEF BoundPop
<1> DEFINE S == g.ops[d] \cap DependsOnVar
<1>3. d \in live /\ d \in ScopeDefs /\ d \in Defs
  BY <1>1, <1>2, ScopeIs, DependsIs DEF BoundInv, IInv
<1>4. S \subseteq ScopeDefs /\ g.ops[d] \subseteq Defs
  BY <1>3, ScopeIs DEF IInv, IsProgram
<1>5. /\ live' = live \cup S /\ queue' = (queue \ {d}) \cup (S \ live)
      /\ free_defs' = free_defs \cup (g.ops[d] \ (DependsOnVar \cup g.const))
  BY <1>1, <1>2 DEF enqueue, Push, BoundInv
<1>6. /\ g.ops[entry] \cap DependsOnVar \subseteq live' /\ live' \subseteq ScopeDefs /\ queue' \subseteq live'
      /\ \A e \in live' \ queue' : g.ops[e] \cap DependsOnVar \subseteq live'
  BY <1>1, <1>3, <1>4, <1>5 DEF BoundInv
<1>7. /\ free_defs' \subseteq Defs
      /\ \A e \in {entry} \cup (live' \ queue') : g.ops[e] \ (DependsOnVar \cup g.const) \subseteq free_defs'
  BY <1>1, <1>3, <1>4, <1>5 DEF BoundInv
<1>8. free_vars' = {} /\ free_noms' = {}
  BY <1>1 DEF BoundPop, BoundInv
<1>9. BoundInv'
  BY <1>1, <1>6, <1>7, <1>8, Kept DEF BoundInv, Same
<1> QED BY <1>1, <1>9, Kept DEF IInv

(* Scope::calc_free: the operands are listed or queued.                         *)
LEMMA EnqueueLists ==
    ASSUME IInv, Same, NEW done \in SUBSET Defs, NEW S \in SUBSET Defs, NEW rest, enqueue_free(done, S, rest),
           done \cap (Vars(g) \cup g.noms) = {}, free_vars \subseteq Vars(g), free_noms \subseteq g.noms
    PROVE  /\ Listed(S)'
           /\ done \subseteq live' /\ free_vars \subseteq free_vars' /\ free_noms \subseteq free_noms'
           /\ queue' = rest \cup (live' \ done)
           /\ live' \subseteq Defs /\ live' \cap (Vars(g) \cup g.noms) = {}
           /\ free_vars' \subseteq Vars(g) /\ free_noms' \subseteq g.noms
<1> DEFINE new == S \ (g.const \cup Vars(g) \cup g.noms)
<1>1. /\ free_vars' = free_vars \cup (S \cap Vars(g))
      /\ free_noms' = free_noms \cup (S \cap g.noms)
      /\ live' = done \cup new
      /\ queue' = rest \cup (new \ done)
  BY DEF enqueue_free, Push
<1>2. g' = g /\ Vars(g') = Vars(g)
  BY DEF Same
<1>3. Listed(S)'
  BY <1>1, <1>2 DEF Listed
<1> QED BY <1>1, <1>3

(* When the second queue is empty, the scope has been found.                    *)
LEMMA StartFreeInv == ASSUME IInv, StartFree PROVE IInv'
<1>1. Same /\ pc = "bound" /\ queue = {} /\ pc' = "free" /\ BoundInv /\ free_defs' = free_defs /\ bound' = live
  BY DEF StartFree, IInv, Same
<1>2. live = ScopeDefs
  <2>1. live \subseteq Defs
    BY <1>1, ScopeIs, DependsIs DEF BoundInv, IInv
  <2> QED BY <1>1, <2>1, ScopeIs DEF BoundInv, IInv
<1>3. enqueue_free({}, free_defs, {})
  BY DEF StartFree
<1>4. /\ Listed(free_defs)' /\ queue' = live'
      /\ live' \subseteq Defs /\ live' \cap (Vars(g) \cup g.noms) = {}
      /\ free_vars' \subseteq Vars(g) /\ free_noms' \subseteq g.noms
  <2>1. free_defs \subseteq Defs /\ free_vars = {} /\ free_noms = {}
    BY <1>1 DEF BoundInv
  <2>2. Listed(free_defs)' /\ queue' = {} \cup (live' \ {})
        /\ live' \subseteq Defs /\ live' \cap (Vars(g) \cup g.noms) = {}
        /\ free_vars' \subseteq Vars(g) /\ free_noms' \subseteq g.noms
    BY <1>1, <1>3, <2>1, EnqueueLists
  <2> QED BY <1>1, <2>2 DEF Listed
<1>5. \A d \in {entry} \cup ScopeDefs : g.ops[d] \ (DependsOnVar \cup g.const) \subseteq free_defs
  BY <1>1, <1>2 DEF BoundInv
<1>6. free_defs \subseteq Defs
  BY <1>1 DEF BoundInv
<1>7. FreeInv'
  BY <1>1, <1>2, <1>4, <1>5, <1>6, Kept DEF FreeInv, Same
<1> QED BY <1>1, <1>7, Kept DEF IInv

(* A def leaves the third queue when its operands are listed.                   *)
LEMMA FreePopInv == ASSUME IInv, FreePop PROVE IInv'
<1>1. Same /\ pc = "free" /\ pc' = "free" /\ FreeInv /\ bound' = bound /\ free_defs' = free_defs
  BY DEF FreePop, IInv, Same
<1>2. PICK d \in queue : enqueue_free(live, g.ops[d], queue \ {d})
  BY DEF FreePop
<1>3. /\ live \subseteq Defs /\ live \cap (Vars(g) \cup g.noms) = {} /\ queue \subseteq live
      /\ free_vars \subseteq Vars(g) /\ free_noms \subseteq g.noms /\ g.ops[d] \subseteq Defs
  BY <1>1, <1>2 DEF FreeInv, IInv, IsProgram
<1>4. /\ Listed(g.ops[d])'
      /\ live \subseteq live' /\ free_vars \subseteq free_vars' /\ free_noms \subseteq free_noms'
      /\ queue' = (queue \ {d}) \cup (live' \ live)
      /\ live' \subseteq Defs /\ live' \cap (Vars(g) \cup g.noms) = {}
      /\ free_vars' \subseteq Vars(g) /\ free_noms' \subseteq g.noms
  <2>1. PICK done, S : done = live /\ S = g.ops[d]
    OBVIOUS
  <2>2. done \in SUBSET Defs /\ S \in SUBSET Defs /\ done \cap (Vars(g) \cup g.noms) = {}
    BY <1>3, <2>1
  <2>3. enqueue_free(done, S, queue \ {d})
    BY <1>2, <2>1
  <2>4. /\ Listed(S)'
        /\ done \subseteq live' /\ free_vars \subseteq free_vars' /\ free_noms \subseteq free_noms'
        /\ queue' = (queue \ {d}) \cup (live' \ done)
        /\ live' \subseteq Defs /\ live' \cap (Vars(g) \cup g.noms) = {}
        /\ free_vars' \subseteq Vars(g) /\ free_noms' \subseteq g.noms
    BY <1>1, <1>3, <2>2, <2>3, EnqueueLists
  <2>5. g'.ops[d] = S
    BY <1>1, <2>1 DEF Same
  <2> QED BY <2>1, <2>4, <2>5 DEF Listed
<1>5. g' = g /\ Vars(g') = Vars(g)
  BY <1>1 DEF Same
<1>6. ASSUME NEW S, Listed(S) PROVE Listed(S)'
  BY <1>4, <1>5, <1>6 DEF Listed
<1>7. Listed(free_defs)'
  BY <1>1, <1>4, <1>5 DEF Listed, FreeInv
<1>8. ASSUME NEW e \in live' \ queue' PROVE Listed(g.ops[e])'
  <2>1. CASE e = d
    BY <1>4, <2>1
  <2>2. CASE e # d
    <3>1. Listed(g.ops[e])
      BY <1>1, <1>4, <1>8, <2>2 DEF FreeInv
    <3> QED BY <3>1, <1>4, <1>5 DEF Listed
  <2> QED BY <2>1, <2>2
<1>9. bound' = ScopeDefs' /\ free_defs' \subseteq Defs /\ queue' \subseteq live'
  BY <1>1, <1>3, <1>4, Kept DEF FreeInv
<1>10. \A e \in {entry'} \cup ScopeDefs' : g'.ops[e] \ (DependsOnVar' \cup g'.const) \subseteq free_defs'
  BY <1>1, <1>5, Kept DEF FreeInv, Same
<1>11. FreeInv'
  BY <1>4, <1>5, <1>7, <1>8, <1>9, <1>10 DEF FreeInv
<1> QED BY <1>1, <1>11, Kept DEF IInv

(* Every step keeps the invariant, whatever the order of the queues.            *)
LEMMA NextInv == IInv /\ [Next]_vars => IInv'
<1> SUFFICES ASSUME IInv, [Next]_vars PROVE IInv'
  OBVIOUS
<1>1. CASE Finish
  <2>1. Same /\ pc = "free" /\ queue = {} /\ pc' = "done" /\ FreeInv
        /\ UNCHANGED <<queue, bound, live, free_defs, free_vars, free_noms>>
    BY <1>1 DEF Finish, IInv, Same
  <2>2. FreeInv'
    BY <2>1, Kept DEF FreeInv, Listed, Same
  <2> QED BY <2>1, <2>2, Kept DEF IInv
<1>2. CASE UNCHANGED vars
  <2>1. Same /\ UNCHANGED <<pc, queue, bound, live, free_defs, free_vars, free_noms>>
    BY <1>2 DEF vars, Same
  <2>2. CASE pc = "run"
    BY <2>1, <2>2, Kept DEF IInv, RunInv, Same
  <2>3. CASE pc = "bound"
    BY <2>1, <2>3, Kept DEF IInv, BoundInv, Same
  <2>4. CASE pc \in {"free", "done"}
    BY <2>1, <2>4, Kept DEF IInv, FreeInv, Listed, Same
  <2> QED BY <2>2, <2>3, <2>4 DEF IInv
<1> QED BY <1>1, <1>2, RunPopInv, StartBoundInv, BoundPopInv, StartFreeInv, FreePopInv DEF Next

(* The invariant holds of every scope of every program.                         *)
THEOREM Invariance == ASSUME ProgramsOK PROVE Spec => []IInv
BY InitInv, NextInv, PTL DEF Spec

-----------------------------------------------------------------------------
(* The types of what the worklists collect.                                     *)
LEMMA InvTypeOK == IInv => TypeOK
<1> SUFFICES ASSUME IInv PROVE TypeOK
  OBVIOUS
<1>1. DependsOnVar \subseteq Defs /\ ScopeDefs \subseteq Defs
  BY DependsIs, ScopeIs DEF IInv
<1>2. CASE pc = "run"
  BY <1>1, <1>2 DEF IInv, RunInv, TypeOK
<1>3. CASE pc = "bound"
  BY <1>1, <1>3 DEF IInv, BoundInv, TypeOK
<1>4. CASE pc \in {"free", "done"}
  BY <1>1, <1>4 DEF IInv, FreeInv, TypeOK
<1> QED BY <1>2, <1>3, <1>4 DEF IInv

(* When all queues are empty the scope is the one that is defined.              *)
LEMMA InvBoundExact == IInv => BoundExact
BY DEF IInv, FreeInv, BoundExact, ScopeDefs

(* What depends on the Var is the Var or uses something that depends on it.     *)
LEMMA DependsCases ==
    ASSUME IInv, NEW x \in DependsOnVar
    PROVE  x \in EntryVar \/ \E o \in DependsOnVar : o \in g.ops[x]
<1> DEFINE C == {y \in DependsOnVar : y \in EntryVar \/ \E o \in DependsOnVar : o \in g.ops[y]}
<1>1. C \in SUBSET Defs /\ EntryVar \subseteq C
  BY DependsIs DEF IInv
<1>2. ASSUME NEW d \in C PROVE uses(g, d) \ {entry} \subseteq C
  BY DependsIs DEF IInv, uses
<1> HIDE DEF C
<1>3. x \in C
  BY <1>1, <1>2, DependsIs DEF IInv
<1> QED BY <1>3 DEF C

(* It is what Reach finds.                                                      *)
LEMMA DependentIs ==
    ASSUME IInv, IsFiniteSet(Defs)
    PROVE  Dependent(g, entry) = DependsOnVar
<1>1. CASE entry \in DOMAIN g.var
  <2> DEFINE next == UsersBeside(g, entry)
  <2>1. next \in [Defs -> SUBSET Defs] /\ {g.var[entry]} \in SUBSET Defs
    BY <1>1 DEF UsersBeside, uses, IInv, IsProgram
  <2>2. DependsOnVar = Least(next, {g.var[entry]})
    BY <1>1 DEF DependsOnVar
  <2>3. Dependent(g, entry) = Reach(next, {g.var[entry]})
    BY <1>1 DEF Dependent
  <2> HIDE DEF next
  <2> QED BY <2>1, <2>2, <2>3, ReachIs
<1>2. CASE entry \notin DOMAIN g.var
  BY <1>2 DEF Dependent, DependsOnVar
<1> QED BY <1>1, <1>2

(* No constant depends on a Var.                                                *)
LEMMA NotConst == ASSUME IInv PROVE DependsOnVar \cap g.const = {}
<1> DEFINE C == Defs \ g.const
<1>1. C \in SUBSET Defs /\ EntryVar \subseteq C
  BY DEF IInv, IsProgram, EntryVar
<1>2. ASSUME NEW d \in C PROVE uses(g, d) \ {entry} \subseteq C
  BY DEF IInv, IsProgram, uses
<1> QED BY <1>1, <1>2, DependsIs DEF IInv

(* Who is made of something that depends on the Var depends on it.              *)
LEMMA MadeDepends ==
    ASSUME IInv, IsFiniteSet(Defs), NEW n \in Defs \ {entry}, NEW o \in DependsOnVar, MadeOf(g, n, o)
    PROVE  n \in DependsOnVar
<1>1. \A d \in DependsOnVar, u \in Defs \ {entry} : d \in g.ops[u] => u \in DependsOnVar
  BY DependsIs DEF IInv, uses, DefsOf
<1>2. CASE o \in g.ops[n]
  BY <1>1, <1>2
<1>3. CASE \E t \in g.ops[n] : o \in g.ops[t] /\ (t \in g.noms => o \notin Dependent(g, t))
  <2>1. PICK t \in g.ops[n] : o \in g.ops[t] /\ (t \in g.noms => o \notin Dependent(g, t))
    BY <1>3
  <2>2. t # entry
    BY <2>1, DependentIs DEF IInv
  <2>3. t \in Defs
    BY <2>1 DEF IInv, IsProgram
  <2>4. t \in DependsOnVar
    BY <1>1, <2>1, <2>2, <2>3
  <2> QED BY <1>1, <2>1, <2>4
<1> QED BY <1>2, <1>3 DEF MadeOf

(* With a Var the scope holds its nominal, if that is not the entry itself.     *)
LEMMA VarBound ==
    ASSUME VarsTyped, IsFiniteSet(Defs), IInv, NEW n \in DOMAIN g.var, g.var[n] \in ScopeDefs
    PROVE  g.var[n] \in {g.var[m] : m \in DOMAIN g.var \cap (ScopeDefs \cup {entry})}
<1> DEFINE x == g.var[n]
<1>1. x \in Defs /\ n \in g.ops[x] /\ n \in Defs /\ x \in DependsOnVar
  BY ScopeIs DEF IInv, IsProgram
<1>2. n \in DependsOnVar => n \in ScopeDefs
  BY <1>1, ScopeIs DEF IInv
<1>3. CASE x \in EntryVar
  BY <1>3 DEF EntryVar
<1>4. CASE x \notin EntryVar
  <2>1. PICK o \in DependsOnVar : o \in g.ops[x]
    BY <1>1, <1>4, DependsCases
  <2>2. n # entry /\ o \notin g.const
    BY <1>4, NotConst DEF EntryVar
  <2>3. CASE o = n
    BY <1>2, <2>3
  <2>4. CASE o # n
    <3>1. \/ MadeOf(g, n, o)
          \/ o \notin g.noms \cup Vars(g) /\ \A q \in g.ops[o] \ g.const : MadeOf(g, n, q)
      BY <2>1, <2>2, <2>4 DEF VarsTyped, IInv
    <3>2. CASE MadeOf(g, n, o)
      BY <1>1, <1>2, <2>2, <3>2, MadeDepends
    <3>3. CASE o \notin g.noms \cup Vars(g) /\ \A q \in g.ops[o] \ g.const : MadeOf(g, n, q)
      <4>1. o \notin EntryVar
        BY <3>3 DEF EntryVar, Vars
      <4>2. PICK q \in DependsOnVar : q \in g.ops[o]
        BY <4>1, DependsCases
      <4>3. MadeOf(g, n, q)
        BY <3>3, <4>2, NotConst
      <4> QED BY <1>1, <1>2, <2>2, <4>3, MadeDepends
    <3> QED BY <3>1, <3>2, <3>3
  <2> QED BY <2>3, <2>4
<1> QED BY <1>3, <1>4

(* What is used, the scope as an entry into it included, is constant, bound or  *)
(* has gone through calc_free.                                                 *)
LEMMA UsedIs ==
    ASSUME IInv, IsFiniteSet(Defs), pc = "done"
    PROVE  Used \subseteq g.const \cup ScopeDefs \cup live \cup free_vars \cup free_noms
<1> DEFINE C     == g.const \cup ScopeDefs \cup live \cup free_vars \cup free_noms
           start == g.ops[entry] \cup UNION {g.ops[d] : d \in bound \ Vars(g)}
<1>1. FreeInv /\ queue = {}
  BY DEF IInv
<1>2. C \subseteq Defs /\ ScopeDefs \subseteq Defs
  BY <1>1, ScopeIs, DependsIs DEF IInv, IsProgram, FreeInv, Vars
<1>3. ASSUME NEW S, Listed(S) PROVE S \subseteq C
  BY <1>3 DEF Listed
<1>4. ASSUME NEW d \in {entry} \cup ScopeDefs PROVE g.ops[d] \subseteq C
  <2>1. g.ops[d] \cap DependsOnVar \subseteq ScopeDefs
    BY ScopeIs DEF IInv
  <2>2. g.ops[d] \ (DependsOnVar \cup g.const) \subseteq free_defs /\ free_defs \subseteq C
    BY <1>1, <1>3 DEF FreeInv
  <2> QED BY <2>1, <2>2
<1>5. start \subseteq C
  BY <1>1, <1>4 DEF FreeInv
<1>6. ASSUME NEW d \in C, d \notin g.noms \cup Vars(g) PROVE g.ops[d] \subseteq C
  <2>1. CASE d \in g.const
    BY <2>1 DEF IInv, IsProgram
  <2>2. CASE d \in ScopeDefs
    BY <1>4, <2>2
  <2>3. CASE d \in live
    BY <1>1, <1>3, <2>3 DEF FreeInv
  <2> QED BY <1>1, <1>6, <2>1, <2>2, <2>3 DEF FreeInv
<1>7. Structural \in [Defs -> SUBSET Defs]
  BY DEF Structural, IInv, IsProgram, DefsOf
<1>8. IsClosed(Structural, C)
  BY <1>2, <1>6 DEF IsClosed, Structural
<1> HIDE DEF C
<1>9. Used = Least(Structural, start)
  <2>1. start \in SUBSET Defs
    BY <1>2, <1>5
  <2> QED BY <1>7, <2>1, ReachIs DEF Used
<1>10. Used \subseteq C
  BY <1>2, <1>5, <1>7, <1>8, <1>9, LeastIs
<1> QED BY <1>10 DEF C

(* So no Var and no nominal is missed.                                          *)
LEMMA InvFreeComplete ==
    ASSUME VarsTyped, IsFiniteSet(Defs), IInv
    PROVE  FreeComplete
<1> SUFFICES ASSUME pc = "done"
             PROVE  /\ Used \cap Vars(g) \subseteq free_vars \cup {g.var[n] : n \in DOMAIN g.var \cap (bound \cup {entry})}
                    /\ Used \cap g.noms \subseteq free_noms \cup bound
  BY DEF FreeComplete
<1>1. bound = ScopeDefs /\ live \cap (Vars(g) \cup g.noms) = {} /\ free_vars \subseteq Vars(g) /\ free_noms \subseteq g.noms
  BY DEF IInv, FreeInv
<1>2. g.const \cap (Vars(g) \cup g.noms) = {} /\ Vars(g) \cap g.noms = {}
  BY DEF IInv, IsProgram, Vars
<1>3. ASSUME NEW x \in Used \cap Vars(g)
      PROVE  x \in free_vars \cup {g.var[n] : n \in DOMAIN g.var \cap (bound \cup {entry})}
  <2>1. x \in ScopeDefs \cup free_vars
    BY <1>1, <1>2, UsedIs
  <2>2. PICK n \in DOMAIN g.var : x = g.var[n]
    BY DEF Vars
  <2> QED BY <1>1, <2>1, <2>2, VarBound
<1>4. Used \cap g.noms \subseteq free_noms \cup bound
  BY <1>1, <1>2, UsedIs
<1> QED BY <1>3, <1>4

(* is_free of an operand of the entry misses no dependence on the Var, and if the *)
(* Var has several components it tells of no other.                             *)
LEMMA InvIsFreeExact ==
    ASSUME IsFiniteSet(Defs), IInv
    PROVE  IsFreeExact
<1> SUFFICES ASSUME pc = "done", NEW d \in g.ops[entry]
             PROVE  /\ d \in Dependent(g, entry) /\ d \notin Bare => is_free(d)
                    /\ is_free(d) /\ entry \in Split => d \in Dependent(g, entry)
  BY DEF IsFreeExact
<1>1. bound = ScopeDefs /\ Dependent(g, entry) = DependsOnVar
  BY DependentIs DEF IInv, FreeInv
<1>2. g.ops[entry] \cap DependsOnVar \subseteq ScopeDefs /\ ScopeDefs \subseteq DependsOnVar
  BY ScopeIs DEF IInv
<1>3. entry \in DOMAIN g.var => g.var[entry] \in DependsOnVar
  BY DependsIs DEF IInv, EntryVar
<1>4. entry \notin DOMAIN g.var => DependsOnVar = {}
  BY DEF DependsOnVar
<1> QED BY <1>1, <1>2, <1>3, <1>4 DEF is_free

-----------------------------------------------------------------------------
(* The worklists hold defs of the program only.                                 *)
THEOREM Types == ASSUME ProgramsOK PROVE Spec => []TypeOK
BY Invariance, InvTypeOK, PTL

(* Scope::bound is what depends on the entry's Var and is reached from the      *)
(* entry, in whatever order the worklists hand out the defs: it does not depend *)
(* on the addresses that the sets are hashed by.                               *)
THEOREM Exact == ASSUME ProgramsOK PROVE Spec => []BoundExact
BY Invariance, InvBoundExact, PTL

(* No Var and no nominal that a scope uses is missing from what it lists as     *)
(* free or has bound.                                                          *)
THEOREM NothingForgotten ==
    ASSUME ProgramsOK, VarsTyped, IsFiniteSet(Defs) PROVE Spec => []FreeComplete
BY Invariance, InvFreeComplete, PTL

(* is_free of an operand of the entry says yes whenever the operand depends on   *)
(* the Var, and, if the Var has several components, only then.                   *)
THEOREM FreeIsExact ==
    ASSUME ProgramsOK, IsFiniteSet(Defs) PROVE Spec => []IsFreeExact
BY InvIsFreeExact, Invariance, PTL

(* All that is promised of a scope.                                             *)
THEOREM Sound ==
    ASSUME ProgramsOK, VarsTyped, IsFiniteSet(Defs) PROVE Spec => []ScopeExact
BY Types, Exact, NothingForgotten, FreeIsExact, PTL DEF ScopeExact
=============================================================================
