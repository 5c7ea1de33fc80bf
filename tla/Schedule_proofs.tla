-------------------------- MODULE Schedule_proofs --------------------------
(***************************************************************************)
(* What TLAPS proves of Schedule, for any scope, any order in which defs are   *)
(* asked for and calls look at operands and users, and any nesting of loops.  *)
(***************************************************************************)
EXTENDS Schedule, SequenceTheorems

-----------------------------------------------------------------------------
(* What never changes.                                                         *)
Static ==
    /\ IsFiniteSet(Defs) /\ 0 \notin Defs
    /\ IsProgram(g) /\ DefsOf(g) = Defs
    /\ entry \in Nodes /\ Nodes \subseteq g.noms
    /\ flow.succs \in [Nodes -> SUBSET Nodes] /\ Reach(flow.succs, {entry}) = Nodes
    /\ flow.dom = Dominated([entry |-> entry, succs |-> flow.succs])
    /\ flow.loop \in [Nodes -> Nat]
    /\ Nodes \ {entry} \subseteq flow.bound
    /\ VarsVisible

(* The constructor, with Q in the queue and T found so far: what has left the     *)
(* queue is in the table with all it uses.                                      *)
UsesOK(Q, T) ==
    LET met    == Nodes \cup DOMAIN T
        looked == met \ Q
    IN  /\ Q \subseteq met
        /\ met \subseteq Visited
        /\ DOMAIN T \cap g.noms = {}
        /\ \A u \in looked : Enqueued(u) \subseteq DOMAIN T
        /\ \A d \in DOMAIN T : T[d] = {u \in looked : d \in Enqueued(u)} /\ T[d] # {}

UsesDone ==
    /\ queue = {}
    /\ Visited = Nodes \cup DOMAIN def2uses_ /\ DOMAIN def2uses_ \cap g.noms = {}
    /\ \A d \in DOMAIN def2uses_ : def2uses_[d] = {u \in Visited : d \in Enqueued(u)} /\ def2uses_[d] # {}

-----------------------------------------------------------------------------
(* What r reaches is dominated from where r stands.                              *)
Covers(c, d) == \A r \in Roots : d \in Span(r) => dominates(c, At(r))
IsVar(d)     == ~free(d) /\ d \in Vars(g)
IsNom(d)     == ~free(d) /\ d \in g.noms
Compound(d)  == ~free(d) /\ d \notin Vars(g)
Inner(d)     == Compound(d) /\ d \notin g.noms

(* E is the table of early, L that of late.                                      *)
EarlyRight(E, d, n) ==
    /\ n \in Nodes
    /\ free(d) => n = entry
    /\ IsVar(d) => n = nom(g, d)
    /\ Compound(d) => UsedOps(d) \subseteq DOMAIN E /\ n \in Deepest(E, d)
    /\ ~free(d) => Covers(n, d)

EarlyOK(E) == DOMAIN E \subseteq Asked /\ \A d \in DOMAIN E : EarlyRight(E, d, E[d])

(* The last node that dominates where all of U is late.                          *)
Highest(L, c, U) == /\ c \in Nodes /\ \A u \in U : dominates(c, LateOf(L, u))
                    /\ \A x \in Nodes : (\A u \in U : dominates(x, LateOf(L, u))) => dominates(x, c)
Settled(L, U)    == \A u \in U : u \in DOMAIN L \/ free(u)

LateRight(L, d, n) ==
    /\ ~free(d) /\ n \in Nodes
    /\ IsNom(d) => n = d
    /\ IsVar(d) => n = nom(g, d)
    /\ Inner(d) => Settled(L, def2uses_[d]) /\ Highest(L, n, def2uses_[d])
    /\ \A c \in Nodes : Covers(c, d) => dominates(c, n)

LateOK(L) == DOMAIN L \subseteq Asked /\ \A d \in DOMAIN L : LateRight(L, d, L[d])

(* A call that is going on knows what it has looked at.                          *)
EarlyCall(E, f) ==
    /\ f.def \in Asked \ DOMAIN E
    /\ f.result \in Nodes
    /\ free(f.def) => f.todo = {} /\ f.result = entry
    /\ IsVar(f.def) => f.todo = {} /\ f.result = nom(g, f.def)
    /\ Compound(f.def) =>
          /\ f.todo \subseteq UsedOps(f.def)
          /\ UsedOps(f.def) \ f.todo \subseteq DOMAIN E
          /\ f.result \in {entry} \cup {E[op] : op \in UsedOps(f.def) \ f.todo}
          /\ \A op \in UsedOps(f.def) \ f.todo : depth(E[op]) <= depth(f.result)

LateCall(L, f) ==
    /\ f.def \in Asked \ DOMAIN L
    /\ free(f.def) => f.todo = {} /\ f.result = entry
    /\ IsNom(f.def) => f.todo = {} /\ f.result = f.def
    /\ IsVar(f.def) => f.todo = {} /\ f.result = nom(g, f.def)
    /\ Inner(f.def) =>
          /\ f.todo \subseteq def2uses_[f.def]
          /\ Settled(L, def2uses_[f.def] \ f.todo)
          /\ f.todo = def2uses_[f.def] => f.result = None
          /\ f.todo # def2uses_[f.def] => Highest(L, f.result, def2uses_[f.def] \ f.todo)

CallOK(E, L, f) == (f.fn = "early" => EarlyCall(E, f)) /\ (f.fn = "late" => LateCall(L, f))

(* A call that has another one going on has made it for something that it has    *)
(* still to look at; calls of late are below calls of early.                     *)
Frame == [fn : {"early", "late"}, def : Defs, todo : SUBSET Defs, result : Nodes \cup {None}]
Above(f, h) == f.fn = h.fn => h.def \in f.todo /\ (h.fn = "late" => ~free(h.def))

CallsOK(E, L, C) ==
    /\ C \in Seq(Frame)
    /\ \A k \in 1..Len(C) : CallOK(E, L, C[k])
    /\ \A k \in 1..Len(C)-1 : Above(C[k], C[k+1])
    /\ \A k, l \in 1..Len(C) : k < l /\ C[k].fn = "early" => C[l].fn = "early"

Going(fn, d, C) == \E k \in 1..Len(C) : C[k].fn = fn /\ C[k].def = d

AskedOK(E, L, M, C, d) ==
    /\ d \in Asked \ DOMAIN M
    /\ d \in DOMAIN E \/ Going("early", d, C)
    /\ d \in DOMAIN L \/ free(d) \/ Going("late", d, C)

-----------------------------------------------------------------------------
(* s is the best of the nodes from i down to l.                                  *)
Best(s, i, l) ==
    /\ s \in Nodes /\ dominates(i, s) /\ dominates(s, l)
    /\ \A n \in Nodes : dominates(i, n) /\ dominates(n, l) =>
          flow.loop[s] < flow.loop[n] \/ (flow.loop[s] = flow.loop[n] /\ dominates(n, s))

Answered(E, L, d) == d \in DOMAIN E /\ (d \in DOMAIN L \/ free(d))

WalkOK(E, L, M, a) ==
    /\ a.def \in Asked \ DOMAIN M /\ Answered(E, L, a.def)
    /\ a.e = E[a.def] /\ a.i \in Nodes /\ dominates(a.e, a.i)
    /\ Best(a.s, a.i, answer(L, a.def))

SmartOK(E, L, M) ==
    /\ DOMAIN M \subseteq Asked
    /\ \A d \in DOMAIN M : Answered(E, L, d) /\ Best(M[d], E[d], answer(L, d))

Constructing == UsesOK(queue, def2uses_) /\ early_ = <<>> /\ late_ = <<>> /\ smart_ = <<>> /\ calls = <<>>

TablesOK(E, L, M)      == EarlyOK(E) /\ LateOK(L) /\ SmartOK(E, L, M)
CallingOK(E, L, M, C, d) == TablesOK(E, L, M) /\ CallsOK(E, L, C) /\ AskedOK(E, L, M, C, d)

Local == [def : Defs \cup {0}, e : Nodes \cup {0}, i : Nodes \cup {0}, s : Nodes \cup {0}]

IInv ==
    /\ Static
    /\ at \in Local
    /\ \/ pc = "uses" /\ Constructing
       \/ /\ UsesDone
          /\ \/ pc = "ready" /\ TablesOK(early_, late_, smart_) /\ calls = <<>>
             \/ pc = "calls" /\ CallingOK(early_, late_, smart_, calls, at.def)
             \/ pc = "walk" /\ TablesOK(early_, late_, smart_) /\ calls = <<>> /\ WalkOK(early_, late_, smart_, at)
-----------------------------------------------------------------------------
(* Of dominance: it is an order, the entry is above all nodes, and of two nodes   *)
(* above a third one is above the other.                                        *)
Order ==
    /\ \A a \in Nodes : flow.dom[a] \subseteq Nodes
    /\ \A a \in Nodes : dominates(a, a) /\ dominates(entry, a)
    /\ \A a, b, c \in Nodes : dominates(a, b) /\ dominates(b, c) => dominates(a, c)
    /\ \A a, b \in Nodes : dominates(a, b) /\ dominates(b, a) => a = b
    /\ \A a, b, c \in Nodes : dominates(a, c) /\ dominates(b, c) => dominates(a, b) \/ dominates(b, a)

LEMMA NodesFinite == Static => IsFiniteSet(Nodes)
<1> SUFFICES ASSUME Static PROVE IsFiniteSet(Nodes)
  OBVIOUS
<1>1. Nodes \subseteq Defs
  BY DEF Static, IsProgram, DefsOf
<1> QED BY <1>1, FS_Subset DEF Static

(* What is left when the paths through a are cut.                                *)
Cut(a)  == [n \in Nodes |-> flow.succs[n] \ {a}]
Past(a) == IF a = entry THEN {} ELSE Least(Cut(a), {entry})

LEMMA PastIs ==
    ASSUME Static, NEW a \in Nodes, a # entry
    PROVE  /\ entry \in Past(a) /\ Past(a) \subseteq Nodes \ {a}
           /\ \A m \in Past(a) : flow.succs[m] \ {a} \subseteq Past(a)
           /\ \A C \in SUBSET Nodes : entry \in C /\ (\A m \in C : flow.succs[m] \ {a} \subseteq C) => Past(a) \subseteq C
<1>1. Cut(a) \in [Nodes -> SUBSET Nodes] /\ \A n \in Nodes : Cut(a)[n] = flow.succs[n] \ {a}
  BY DEF Cut, Static
<1>2. {entry} \in SUBSET Nodes /\ Past(a) = Least(Cut(a), {entry})
  BY DEF Static, Past
<1>3. /\ entry \in Past(a) /\ Past(a) \subseteq Nodes
      /\ \A m \in Past(a) : flow.succs[m] \ {a} \subseteq Past(a)
      /\ \A C \in SUBSET Nodes : entry \in C /\ (\A m \in C : flow.succs[m] \ {a} \subseteq C) => Past(a) \subseteq C
  BY <1>1, <1>2, LeastIs DEF IsClosed
<1>4. entry \in Nodes \ {a} /\ \A m \in Nodes \ {a} : flow.succs[m] \ {a} \subseteq Nodes \ {a}
  BY DEF Static
<1>5. Past(a) \subseteq Nodes \ {a}
  BY <1>3, <1>4
<1> QED BY <1>3, <1>5

LEMMA DomIs ==
    ASSUME Static, NEW a \in Nodes
    PROVE  flow.dom[a] = Nodes \ Past(a)
<1> DEFINE G == [entry |-> entry, succs |-> flow.succs]
<1>1. NodesOf(G) = Nodes /\ G.entry = entry /\ G.succs = flow.succs
  BY DEF NodesOf, Nodes
<1>2. flow.dom = Dominated(G)
  BY DEF Static
<1> HIDE DEF G
<1>3. flow.dom[a] = Nodes \ Around(G, a)
  BY <1>1, <1>2 DEF Dominated
<1>4. CASE a = entry
  BY <1>1, <1>3, <1>4 DEF Around, Past
<1>5. CASE a # entry
  <2>1. Around(G, a) = Reach(Cut(a), {entry})
    BY <1>1, <1>5 DEF Around, Cut
  <2>2. Cut(a) \in [Nodes -> SUBSET Nodes] /\ {entry} \in SUBSET Nodes /\ IsFiniteSet(Nodes)
    BY NodesFinite DEF Cut, Static
  <2>3. Around(G, a) = Least(Cut(a), {entry})
    BY <2>1, <2>2, ReachIs
  <2> QED BY <1>3, <1>5, <2>3 DEF Past
<1> QED BY <1>4, <1>5

LEMMA AllReached ==
    ASSUME Static, NEW C \in SUBSET Nodes, entry \in C, \A m \in C : flow.succs[m] \subseteq C
    PROVE  C = Nodes
<1>1. flow.succs \in [Nodes -> SUBSET Nodes] /\ {entry} \in SUBSET Nodes /\ IsFiniteSet(Nodes)
      /\ Reach(flow.succs, {entry}) = Nodes
  BY NodesFinite DEF Static
<1>2. Least(flow.succs, {entry}) = Nodes
  BY <1>1, ReachIs
<1>3. IsClosed(flow.succs, C) /\ {entry} \subseteq C
  BY DEF IsClosed
<1> QED BY <1>1, <1>2, <1>3, LeastIs

LEMMA OrderIs == ASSUME Static PROVE Order
<1> USE DEF dominates
<1>1. \A a \in Nodes : flow.dom[a] = Nodes \ Past(a)
  BY DomIs
<1>2. Past(entry) = {} /\ entry \in Nodes /\ flow.succs \in [Nodes -> SUBSET Nodes]
  BY DEF Past, Static
<1>3. \A a \in Nodes : a # entry =>
           /\ entry \in Past(a) /\ Past(a) \subseteq Nodes \ {a}
           /\ \A m \in Past(a) : flow.succs[m] \ {a} \subseteq Past(a)
  BY PastIs
<1>4. \A a \in Nodes : dominates(a, a) /\ dominates(entry, a)
  BY <1>1, <1>2, <1>3
<1>5. ASSUME NEW a \in Nodes, NEW b \in Nodes, NEW c \in Nodes, dominates(a, b), dominates(b, c)
      PROVE  dominates(a, c)
  <2>1. b \notin Past(a) /\ c \notin Past(b)
    BY <1>1, <1>5
  <2>a. SUFFICES ASSUME a # entry, c \in Past(a) PROVE FALSE
    BY <1>1, <1>4
  <2>2. b # entry
    BY <1>3, <2>a, <2>1
  <2>3. Past(a) \subseteq Past(a) \cap Past(b)
    <3> DEFINE C == Past(a) \cap Past(b)
    <3>1. entry \in C /\ C \in SUBSET Nodes
      BY <1>3, <2>a, <2>2
    <3>2. ASSUME NEW m \in C PROVE flow.succs[m] \ {a} \subseteq C
      BY <1>3, <2>a, <2>1, <2>2
    <3>3. Past(a) \subseteq C
      <4> HIDE DEF C
      <4> QED BY <2>a, <3>1, <3>2, PastIs
    <3> QED BY <3>3
  <2> QED BY <2>a, <2>1, <2>3
<1>6. ASSUME NEW a \in Nodes, NEW b \in Nodes, dominates(a, b), dominates(b, a), a # b
      PROVE  FALSE
  <2>1. b \notin Past(a) /\ a \notin Past(b)
    BY <1>1, <1>6
  <2>2. a # entry /\ b # entry
    BY <1>3, <1>6, <2>1
  <2> DEFINE C == Past(a) \cap Past(b)
  <2>3. entry \in C /\ C \in SUBSET Nodes /\ a \notin C
    BY <1>3, <2>2
  <2>4. ASSUME NEW m \in C PROVE flow.succs[m] \subseteq C
    BY <1>3, <1>6, <2>1, <2>2
  <2> HIDE DEF C
  <2> QED BY <2>3, <2>4, AllReached
<1>7. ASSUME NEW a \in Nodes, NEW b \in Nodes, NEW c \in Nodes, dominates(a, c), dominates(b, c),
             ~dominates(a, b), ~dominates(b, a)
      PROVE  FALSE
  <2>1. c \notin Past(a) /\ c \notin Past(b) /\ b \in Past(a) /\ a \in Past(b)
    BY <1>1, <1>7
  <2>2. a # entry /\ b # entry
    BY <1>2, <2>1
  <2> DEFINE C == Past(a) \cup Past(b)
  <2>3. entry \in C /\ C \in SUBSET Nodes
    BY <1>3, <2>2
  <2>4. ASSUME NEW m \in C PROVE flow.succs[m] \subseteq C
    BY <1>3, <2>1, <2>2
  <2>5. c \notin C
    BY <2>1
  <2> HIDE DEF C
  <2> QED BY <2>3, <2>4, <2>5, AllReached
<1> QED BY <1>1, <1>4, <1>5, <1>6, <1>7 DEF Order

(* A node with more nodes above it is not above one with fewer.                   *)
LEMMA DepthIs ==
    ASSUME Static, NEW a \in Nodes
    PROVE  /\ depth(a) \in Nat
           /\ \A b \in Nodes : dominates(a, b) /\ a # b => depth(a) < depth(b)
<1>1. IsFiniteSet(Nodes) /\ Order
  BY NodesFinite, OrderIs
<1>2. \A b \in Nodes : IsFiniteSet(Dominators(b) \ {b})
  BY <1>1, FS_Subset DEF Dominators
<1>3. \A b \in Nodes : depth(b) \in Nat
  BY <1>2, FS_CardinalityType DEF depth
<1>4. ASSUME NEW b \in Nodes, dominates(a, b), a # b
      PROVE  depth(a) < depth(b)
  <2> DEFINE A == Dominators(a) \ {a}
             B == Dominators(b) \ {b}
  <2>1. A \subseteq B
    BY <1>1, <1>4 DEF Dominators, Order
  <2>2. a \in B /\ a \notin A
    BY <1>4 DEF Dominators
  <2>3. IsFiniteSet(A) /\ IsFiniteSet(B)
    BY <1>2
  <2>4. Cardinality(A) < Cardinality(B)
    <3> HIDE DEF A, B
    <3>1. Cardinality(A) <= Cardinality(B) /\ (Cardinality(A) = Cardinality(B) => A = B)
      BY <2>1, <2>3, FS_Subset
    <3>2. Cardinality(A) \in Nat /\ Cardinality(B) \in Nat
      BY <2>3, FS_CardinalityType
    <3> QED BY <2>2, <3>1, <3>2
  <2> QED BY <2>4 DEF depth
<1> QED BY <1>3, <1>4

(* Of some nodes above one node, the last.                                       *)
LEMMA LastIs ==
    ASSUME Static, NEW C \in SUBSET Nodes, C # {}, NEW n \in Nodes, \A c \in C : dominates(c, n)
    PROVE  /\ Last(C) \in C /\ \A x \in C : dominates(x, Last(C))
           /\ \A c \in C : (\A x \in C : dominates(x, c)) => c = Last(C)
<1>1. IsFiniteSet(Nodes) /\ Order
  BY NodesFinite, OrderIs
<1> DEFINE N == Cardinality(Nodes)
           T == {N - depth(c) : c \in C}
<1>2. N \in Nat
  BY <1>1, FS_CardinalityType
<1>3. \A c \in C : depth(c) \in Nat /\ depth(c) <= N
  <2> SUFFICES ASSUME NEW c \in C PROVE depth(c) \in Nat /\ depth(c) <= N
    OBVIOUS
  <2>1. Dominators(c) \ {c} \subseteq Nodes
    BY DEF Dominators
  <2> QED BY <1>1, <2>1, FS_Subset, FS_CardinalityType, DepthIs DEF depth
<1>4. T \in SUBSET Nat /\ T # {}
  BY <1>2, <1>3
<1>5. PICK t \in T : \A y \in T : t <= y
  <2> HIDE DEF T
  <2> QED BY <1>4, Smallest
<1>6. PICK c \in C : t = N - depth(c)
  BY <1>5
<1>7. \A x \in C : depth(x) <= depth(c)
  <2> SUFFICES ASSUME NEW x \in C PROVE depth(x) <= depth(c)
    OBVIOUS
  <2>1. N - depth(c) <= N - depth(x)
    BY <1>5, <1>6
  <2> QED BY <1>2, <1>3, <2>1
<1>8. \A x \in C : dominates(x, c)
  <2> SUFFICES ASSUME NEW x \in C, ~dominates(x, c) PROVE FALSE
    OBVIOUS
  <2>1. dominates(c, x) /\ c # x
    BY <1>1 DEF Order
  <2>2. depth(c) < depth(x)
    BY <2>1, DepthIs
  <2> QED BY <1>3, <1>7, <2>2
<1>9. Last(C) \in C /\ \A x \in C : dominates(x, Last(C))
  BY <1>8 DEF Last
<1> QED BY <1>1, <1>9 DEF Order

-----------------------------------------------------------------------------
(* Of the program: a nominal is no Var, and what has no Var among its operands   *)
(* is const down to the leaves.                                                *)
LEMMA KindsAre ==
    ASSUME Static
    PROVE  /\ g.noms \subseteq Defs /\ g.noms \cap Vars(g) = {} /\ g.noms \cap g.const = {}
           /\ Vars(g) \cap g.const = {}
           /\ \A v \in Vars(g) : nom(g, v) \in g.noms
           /\ \A d \in Defs : Enqueued(d) \subseteq Defs \ g.noms /\ Enqueued(d) \subseteq flow.bound
           /\ \A d \in Defs : d \in g.const => Enqueued(d) \subseteq g.const
<1>1. IsProgram(g) /\ DefsOf(g) = Defs
  BY DEF Static
<1>2. ASSUME NEW v \in Vars(g) PROVE nom(g, v) \in g.noms /\ v \notin g.noms \cup g.const
  <2>1. PICK n \in DOMAIN g.var : v = g.var[n]
    BY DEF Vars
  <2>2. nom(g, v) \in DOMAIN g.var
    BY <2>1 DEF nom
  <2> QED BY <1>1, <2>1, <2>2 DEF IsProgram
<1> QED BY <1>1, <1>2 DEF IsProgram, Enqueued

(* Of the constructor: it goes through what the nominals of the graph use.       *)
LEMMA VisitedIs ==
    ASSUME Static
    PROVE  /\ Nodes \subseteq Visited /\ Visited \subseteq Defs
           /\ \A d \in Visited : Enqueued(d) \subseteq Visited
           /\ \A C \in SUBSET Defs : Nodes \subseteq C /\ (\A d \in C : Enqueued(d) \subseteq C) => Visited \subseteq C
<1>1. Uses \in [Defs -> SUBSET Defs] /\ \A d \in Defs : Uses[d] = Enqueued(d)
  BY KindsAre DEF Uses
<1>2. Nodes \in SUBSET Defs /\ IsFiniteSet(Defs)
  BY KindsAre DEF Static
<1>3. Visited = Least(Uses, Nodes)
  BY <1>1, <1>2, ReachIs DEF Visited
<1>4. /\ Nodes \subseteq Visited /\ Visited \subseteq Defs
      /\ IsClosed(Uses, Visited)
      /\ \A C \in SUBSET Defs : Nodes \subseteq C /\ IsClosed(Uses, C) => Visited \subseteq C
  BY <1>1, <1>2, <1>3, LeastIs
<1>5. \A C \in SUBSET Defs : IsClosed(Uses, C) <=> \A d \in C : Enqueued(d) \subseteq C
  BY <1>1 DEF IsClosed
<1> QED BY <1>4, <1>5

(* Of what is seen from r: all that it uses, down to the Vars.                    *)
LEMMA SpanIs ==
    ASSUME Static, NEW r \in Visited
    PROVE  /\ r \in Span(r) /\ Enqueued(r) \subseteq Span(r) /\ Span(r) \subseteq Visited
           /\ \A d \in Span(r) \ Vars(g) : Enqueued(d) \subseteq Span(r)
<1>1. /\ UsesBeyond \in [Defs -> SUBSET Defs]
      /\ \A d \in Defs : UsesBeyond[d] = IF d \in Vars(g) THEN {} ELSE Enqueued(d)
  BY KindsAre DEF UsesBeyond
<1>2. Enqueued(r) \in SUBSET Defs /\ IsFiniteSet(Defs) /\ r \in Defs
  BY KindsAre, VisitedIs DEF Static
<1> DEFINE R == Reach(UsesBeyond, Enqueued(r))
<1>3. R = Least(UsesBeyond, Enqueued(r))
  BY <1>1, <1>2, ReachIs
<1>4. /\ Enqueued(r) \subseteq R /\ R \subseteq Defs /\ IsClosed(UsesBeyond, R)
      /\ \A C \in SUBSET Defs : Enqueued(r) \subseteq C /\ IsClosed(UsesBeyond, C) => R \subseteq C
  BY <1>1, <1>2, <1>3, LeastIs
<1>5. IsClosed(UsesBeyond, Visited) /\ Enqueued(r) \subseteq Visited /\ Visited \in SUBSET Defs
  BY <1>1, VisitedIs DEF IsClosed
<1>6. R \subseteq Visited
  BY <1>4, <1>5
<1>7. \A d \in R \ Vars(g) : Enqueued(d) \subseteq R
  BY <1>1, <1>4 DEF IsClosed
<1>8. Span(r) = {r} \cup R
  BY DEF Span
<1> HIDE DEF R
<1> QED BY <1>4, <1>6, <1>7, <1>8

(* All of this in the states after the constructor.                             *)
Known ==
    /\ Nodes \subseteq Visited /\ Visited \subseteq Defs /\ 0 \notin Defs /\ entry \in Nodes
    /\ Asked \subseteq Defs /\ Visited \subseteq Asked /\ \A d \in Asked : ~free(d) => d \in Visited
    /\ DOMAIN def2uses_ = Visited \ g.noms /\ Visited \cap g.noms = Nodes
    /\ \A d \in Visited : UsedOps(d) = Enqueued(d) /\ Enqueued(d) \subseteq Visited \ g.noms
    /\ \A d \in DOMAIN def2uses_ : def2uses_[d] = {u \in Visited : d \in Enqueued(u)} /\ def2uses_[d] # {}
    /\ \A n \in Nodes : n \notin Vars(g) /\ (free(n) => n = entry)
    /\ \A u \in Visited : \A d \in Enqueued(u) : free(u) => u = entry \/ free(d)
    /\ \A d \in Visited \cap Vars(g) : ~free(d)

Seen ==
    /\ \A n \in Nodes : n \in Roots /\ At(n) = n
    /\ \A v \in Visited \cap Vars(g) : v \in Roots /\ At(v) = nom(g, v) /\ nom(g, v) \in Nodes
    /\ \A r \in Roots : /\ r \in Visited /\ At(r) \in Nodes
                        /\ r \in Span(r) /\ Enqueued(r) \subseteq Span(r) /\ Span(r) \subseteq Visited
                        /\ \A d \in Span(r) \ Vars(g) : Enqueued(d) \subseteq Span(r)
                        /\ \A v \in Span(r) \cap Vars(g) : dominates(nom(g, v), At(r))

LEMMA KnownIs == ASSUME Static, UsesDone PROVE Known
<1>1. /\ g.noms \cap Vars(g) = {} /\ Vars(g) \cap g.const = {}
      /\ \A d \in Defs : Enqueued(d) \subseteq Defs \ g.noms /\ Enqueued(d) \subseteq flow.bound
      /\ \A d \in Defs : d \in g.const => Enqueued(d) \subseteq g.const
      /\ g.noms \cap g.const = {}
  BY KindsAre
<1>2. /\ Nodes \subseteq Visited /\ Visited \subseteq Defs /\ \A d \in Visited : Enqueued(d) \subseteq Visited
  BY VisitedIs
<1>3. /\ Visited = Nodes \cup DOMAIN def2uses_ /\ DOMAIN def2uses_ \cap g.noms = {}
      /\ \A d \in DOMAIN def2uses_ : def2uses_[d] = {u \in Visited : d \in Enqueued(u)} /\ def2uses_[d] # {}
  BY DEF UsesDone
<1>4. /\ 0 \notin Defs /\ entry \in Nodes /\ Nodes \subseteq g.noms /\ Nodes \ {entry} \subseteq flow.bound
  BY DEF Static
<1>5. DOMAIN def2uses_ = Visited \ g.noms /\ Visited \cap g.noms = Nodes
  BY <1>3, <1>4
<1>6. \A d \in DOMAIN def2uses_ : d \in flow.bound
  BY <1>1, <1>2, <1>3
<1>7. \A n \in Nodes : n \notin Vars(g) /\ (free(n) => n = entry)
  BY <1>1, <1>4 DEF free
<1>8. ASSUME NEW u \in Visited, NEW d \in Enqueued(u), free(u) PROVE u = entry \/ free(d)
  <2>1. CASE u \in g.const
    BY <1>1, <1>2, <2>1 DEF free
  <2>2. CASE u \notin g.const
    <3>1. u \notin flow.bound
      BY <1>8, <2>2 DEF free
    <3> QED BY <1>3, <1>4, <1>6, <3>1
  <2> QED BY <2>1, <2>2
<1>9. \A d \in Visited \cap Vars(g) : ~free(d)
  BY <1>1, <1>3, <1>4, <1>6 DEF free
<1>10. ASSUME NEW d \in Visited PROVE UsedOps(d) = Enqueued(d)
  BY <1>1, <1>2, <1>5, <1>6 DEF UsedOps, Enqueued
<1>11. \A d \in Asked : d \in Defs /\ (~free(d) => d \in Visited)
  BY <1>2, <1>3 DEF Asked
<1>12. Visited \subseteq Asked
  BY <1>3 DEF Asked
<1> QED BY <1>1, <1>2, <1>3, <1>4, <1>5, <1>7, <1>8, <1>9, <1>10, <1>11, <1>12 DEF Known

LEMMA SeenIs == ASSUME Static PROVE Seen
<1>1. Nodes \subseteq Visited /\ Nodes \cap Vars(g) = {}
  BY KindsAre, VisitedIs DEF Static
<1>2. \A n \in Nodes : n \in Roots /\ At(n) = n
  BY <1>1 DEF Roots, At
<1>3. \A r \in Roots : r \in Visited /\ (r \in Nodes \/ r \in Vars(g))
  BY <1>1 DEF Roots
<1>4. \A r \in Roots : /\ r \in Span(r) /\ Enqueued(r) \subseteq Span(r) /\ Span(r) \subseteq Visited
                       /\ \A d \in Span(r) \ Vars(g) : Enqueued(d) \subseteq Span(r)
  BY <1>3, SpanIs
<1>5. \A r \in Roots : \A v \in Span(r) \cap Vars(g) : nom(g, v) \in Nodes /\ dominates(nom(g, v), At(r))
  BY DEF Static, VarsVisible
<1>6. \A v \in Visited \cap Vars(g) : v \in Roots /\ At(v) = nom(g, v) /\ nom(g, v) \in Nodes
  BY <1>4, <1>5 DEF Roots, At
<1>7. \A r \in Roots : At(r) \in Nodes
  BY <1>2, <1>3, <1>6
<1> QED BY <1>2, <1>3, <1>4, <1>5, <1>6, <1>7 DEF Seen

-----------------------------------------------------------------------------
(* The tables only grow, and what has been found out does not change.            *)
Extends(E, F) == DOMAIN E \subseteq DOMAIN F /\ \A d \in DOMAIN E : F[d] = E[d]

LEMMA PutIs ==
    ASSUME NEW E, NEW x, NEW y, x \notin DOMAIN E \/ E[x] = y
    PROVE  /\ DOMAIN Put(E, x, y) = {x} \cup DOMAIN E /\ Put(E, x, y)[x] = y
           /\ Extends(E, Put(E, x, y))
BY DEF Put, Extends

LEMMA EarlyStays ==
    ASSUME NEW E, NEW F, Extends(E, F), NEW d, NEW n, EarlyRight(E, d, n)
    PROVE  EarlyRight(F, d, n)
<1>1. CASE Compound(d)
  <2>1. UsedOps(d) \subseteq DOMAIN E /\ n \in Deepest(E, d) /\ \A op \in UsedOps(d) : F[op] = E[op]
    BY <1>1 DEF EarlyRight, Extends
  <2>2. {E[op] : op \in UsedOps(d)} = {F[op] : op \in UsedOps(d)}
    BY <2>1
  <2>3. n \in Deepest(F, d) /\ UsedOps(d) \subseteq DOMAIN F
    BY <2>1, <2>2 DEF Deepest, Extends
  <2> QED BY <2>3 DEF EarlyRight
<1>2. CASE ~Compound(d)
  BY <1>2 DEF EarlyRight
<1> QED BY <1>1, <1>2

LEMMA EarlyPut ==
    ASSUME NEW E, EarlyOK(E), NEW x \in Asked, NEW y, x \notin DOMAIN E \/ E[x] = y, EarlyRight(E, x, y)
    PROVE  EarlyOK(Put(E, x, y))
<1> DEFINE F == Put(E, x, y)
<1>1. DOMAIN F = {x} \cup DOMAIN E /\ F[x] = y /\ Extends(E, F)
  BY PutIs
<1> HIDE DEF F
<1>2. DOMAIN F \subseteq Asked
  BY <1>1 DEF EarlyOK
<1>3. ASSUME NEW d \in DOMAIN F PROVE EarlyRight(E, d, F[d])
  BY <1>1, <1>3 DEF EarlyOK, Extends
<1>4. \A d \in DOMAIN F : EarlyRight(F, d, F[d])
  BY <1>1, <1>3, EarlyStays
<1> QED BY <1>2, <1>4 DEF EarlyOK, F

LEMMA HighestStays ==
    ASSUME NEW L, NEW K, Extends(L, K), NEW U, Settled(L, U), NEW c
    PROVE  Settled(K, U) /\ (Highest(L, c, U) => Highest(K, c, U))
<1>1. \A u \in U : LateOf(K, u) = LateOf(L, u)
  BY DEF Settled, LateOf, Extends
<1>2. Settled(K, U)
  BY DEF Settled, Extends
<1> QED BY <1>1, <1>2 DEF Highest

LEMMA LateStays ==
    ASSUME NEW L, NEW K, Extends(L, K), NEW d, NEW n, LateRight(L, d, n)
    PROVE  LateRight(K, d, n)
BY HighestStays DEF LateRight

LEMMA LatePut ==
    ASSUME NEW L, LateOK(L), NEW x \in Asked, NEW y, x \notin DOMAIN L, LateRight(L, x, y)
    PROVE  LateOK(Put(L, x, y))
<1> DEFINE K == Put(L, x, y)
<1>1. DOMAIN K = {x} \cup DOMAIN L /\ K[x] = y /\ Extends(L, K)
  BY PutIs
<1> HIDE DEF K
<1>2. DOMAIN K \subseteq Asked
  BY <1>1 DEF LateOK
<1>3. ASSUME NEW d \in DOMAIN K PROVE LateRight(L, d, K[d])
  BY <1>1, <1>3 DEF LateOK, Extends
<1>4. \A d \in DOMAIN K : LateRight(K, d, K[d])
  BY <1>1, <1>3, LateStays
<1> QED BY <1>2, <1>4 DEF LateOK, K

LEMMA EarlyCallStays ==
    ASSUME NEW E, NEW F, Extends(E, F), NEW f, EarlyCall(E, f), f.def \notin DOMAIN F
    PROVE  EarlyCall(F, f)
<1>1. CASE Compound(f.def)
  <2> DEFINE Done == UsedOps(f.def) \ f.todo
  <2>1. /\ f.todo \subseteq UsedOps(f.def)
        /\ Done \subseteq DOMAIN E
        /\ f.result \in {entry} \cup {E[op] : op \in Done}
        /\ \A op \in Done : depth(E[op]) <= depth(f.result)
    BY <1>1 DEF EarlyCall
  <2>2. \A op \in Done : op \in DOMAIN F /\ F[op] = E[op]
    BY <2>1 DEF Extends
  <2>3. {E[op] : op \in Done} = {F[op] : op \in Done}
    BY <2>2
  <2>4. \A op \in Done : depth(F[op]) <= depth(f.result)
    BY <2>1, <2>2
  <2>5. Done \subseteq DOMAIN F /\ f.result \in {entry} \cup {F[op] : op \in Done}
    BY <2>1, <2>2, <2>3
  <2>6. f.def \in Asked \ DOMAIN F /\ f.result \in Nodes /\ ~free(f.def) /\ ~IsVar(f.def)
    BY <1>1 DEF EarlyCall, Compound, IsVar
  <2> QED BY <2>1, <2>4, <2>5, <2>6 DEF EarlyCall
<1>2. CASE ~Compound(f.def)
  BY <1>2 DEF EarlyCall
<1> QED BY <1>1, <1>2

LEMMA LateCallStays ==
    ASSUME NEW L, NEW K, Extends(L, K), NEW f, LateCall(L, f), f.def \notin DOMAIN K
    PROVE  LateCall(K, f)
<1>1. CASE Inner(f.def)
  <2>1. /\ f.todo \subseteq def2uses_[f.def]
        /\ Settled(L, def2uses_[f.def] \ f.todo)
        /\ f.todo = def2uses_[f.def] => f.result = None
        /\ f.todo # def2uses_[f.def] => Highest(L, f.result, def2uses_[f.def] \ f.todo)
    BY <1>1 DEF LateCall
  <2>2. /\ Settled(K, def2uses_[f.def] \ f.todo)
        /\ f.todo # def2uses_[f.def] => Highest(K, f.result, def2uses_[f.def] \ f.todo)
    BY <2>1, HighestStays
  <2> QED BY <2>1, <2>2 DEF LateCall
<1>2. CASE ~Inner(f.def)
  BY <1>2 DEF LateCall
<1> QED BY <1>1, <1>2

LEMMA SmartStays ==
    ASSUME NEW E, NEW F, Extends(E, F), NEW L, NEW K, Extends(L, K), LateOK(K), NEW M, SmartOK(E, L, M)
    PROVE  SmartOK(F, K, M)
<1>1. ASSUME NEW d \in DOMAIN M PROVE Answered(F, K, d) /\ Best(M[d], F[d], answer(K, d))
  <2>1. Answered(E, L, d) /\ Best(M[d], E[d], answer(L, d))
    BY DEF SmartOK
  <2>2. Answered(F, K, d) /\ F[d] = E[d]
    BY <2>1 DEF Answered, Extends
  <2>3. free(d) => d \notin DOMAIN K
    BY DEF LateOK, LateRight
  <2>4. answer(K, d) = answer(L, d)
    BY <2>1, <2>3 DEF answer, Answered, Extends
  <2> QED BY <2>1, <2>2, <2>4
<1> QED BY <1>1 DEF SmartOK

-----------------------------------------------------------------------------
(* What a call of early finds is right, of whatever depth it is.                 *)
LEMMA CoversUp ==
    ASSUME Known, Seen, NEW d \in Visited \ Vars(g), NEW op \in Enqueued(d), NEW c, Covers(c, op)
    PROVE  Covers(c, d)
<1> SUFFICES ASSUME NEW r \in Roots, d \in Span(r) PROVE dominates(c, At(r))
  BY DEF Covers
<1>1. op \in Span(r)
  BY DEF Seen
<1> QED BY <1>1 DEF Covers

LEMMA EarlyFound ==
    ASSUME Static, Known, Seen, NEW E, EarlyOK(E), NEW f, EarlyCall(E, f), f.todo = {}
    PROVE  EarlyRight(E, f.def, f.result)
<1> DEFINE d == f.def
           n == f.result
<1>1. d \in Asked /\ n \in Nodes /\ Order
  BY OrderIs DEF EarlyCall
<1>2. CASE free(d)
  BY <1>1, <1>2 DEF EarlyCall, EarlyRight, IsVar, Compound
<1>3. CASE IsVar(d)
  <2>1. d \in Visited /\ d \in Vars(g) /\ ~free(d) /\ n = nom(g, d)
    BY <1>1, <1>3 DEF Known, IsVar, EarlyCall
  <2>2. Covers(n, d)
    BY <2>1 DEF Covers, Seen
  <2> QED BY <1>1, <2>1, <2>2 DEF EarlyRight, IsVar, Compound
<1>4. CASE Compound(d)
  <2>1. d \in Visited \ Vars(g) /\ ~free(d) /\ ~IsVar(d) /\ UsedOps(d) = Enqueued(d)
    BY <1>1, <1>4 DEF Known, IsVar, Compound
  <2>2. /\ UsedOps(d) \subseteq DOMAIN E
        /\ n \in {entry} \cup {E[op] : op \in UsedOps(d)}
        /\ \A op \in UsedOps(d) : depth(E[op]) <= depth(n)
    BY <1>4 DEF EarlyCall
  <2>3. \A op \in UsedOps(d) : E[op] \in Nodes
    BY <2>2 DEF EarlyOK, EarlyRight
  <2>4. depth(entry) <= depth(n)
    <3>1. entry \in Nodes /\ dominates(entry, n)
      BY <1>1 DEF Order, Static
    <3>2. depth(entry) \in Nat /\ depth(n) \in Nat /\ (entry # n => depth(entry) < depth(n))
      BY <1>1, <3>1, DepthIs
    <3> QED BY <3>2
  <2>5. n \in Deepest(E, d)
    BY <2>2, <2>4 DEF Deepest
  <2>6. Covers(n, d)
    <3>1. CASE n = entry
      BY <1>1, <3>1 DEF Covers, Order, Seen
    <3>2. CASE n # entry
      <4>1. PICK op \in UsedOps(d) : n = E[op]
        BY <2>2, <3>2
      <4>2. EarlyRight(E, op, n)
        BY <2>2, <4>1 DEF EarlyOK
      <4>3. Covers(n, op)
        BY <3>2, <4>2 DEF EarlyRight
      <4> QED BY <2>1, <4>3, CoversUp
    <3> QED BY <3>1, <3>2
  <2> QED BY <1>1, <2>1, <2>2, <2>5, <2>6 DEF EarlyRight
<1> QED BY <1>2, <1>3, <1>4 DEF IsVar, Compound

(* A call that has looked at x and has come to r.                                *)
After(f, x, r) == [fn |-> f.fn, def |-> f.def, todo |-> f.todo \ {x}, result |-> r]

LEMMA AfterIs ==
    ASSUME NEW f \in Frame, NEW x, NEW r
    PROVE  [f EXCEPT !.todo = @ \ {x}, !.result = r] = After(f, x, r)
<1>1. [f EXCEPT !.todo = @ \ {x}] = [fn |-> f.fn, def |-> f.def, todo |-> f.todo \ {x}, result |-> f.result]
  BY DEF Frame
<1>2. [[fn |-> f.fn, def |-> f.def, todo |-> f.todo \ {x}, result |-> f.result] EXCEPT !.result = r] = After(f, x, r)
  BY DEF After
<1>3. [f EXCEPT !.todo = @ \ {x}, !.result = r] = [[f EXCEPT !.todo = @ \ {x}] EXCEPT !.result = r]
  OBVIOUS
<1> QED BY <1>1, <1>2, <1>3

LEMMA EarlyLook ==
    ASSUME NEW E, EarlyOK(E), NEW f \in Frame, EarlyCall(E, f), NEW op \in f.todo, op \in DOMAIN E, Static
    PROVE  EarlyCall(E, After(f, op, deeper(f.result, E[op])))
<1> DEFINE h == After(f, op, deeper(f.result, E[op]))
<1>1. h.def = f.def /\ h.todo = f.todo \ {op} /\ h.result = deeper(f.result, E[op])
  BY DEF After
<1> HIDE DEF h
<1> DEFINE d == f.def
<1>2. ~free(d) /\ ~IsVar(d) /\ Compound(d)
  BY DEF EarlyCall, Compound, IsVar
<1>3. /\ f.todo \subseteq UsedOps(d)
      /\ UsedOps(d) \ f.todo \subseteq DOMAIN E
      /\ f.result \in {entry} \cup {E[o] : o \in UsedOps(d) \ f.todo}
      /\ \A o \in UsedOps(d) \ f.todo : depth(E[o]) <= depth(f.result)
  BY <1>2 DEF EarlyCall
<1>4. UsedOps(d) \ h.todo = (UsedOps(d) \ f.todo) \cup {op}
  BY <1>1, <1>3
<1>5. f.result \in Nodes /\ \A o \in DOMAIN E : E[o] \in Nodes
  BY DEF EarlyCall, EarlyOK, EarlyRight
<1>6. depth(f.result) \in Nat /\ \A o \in DOMAIN E : depth(E[o]) \in Nat
  BY <1>5, DepthIs
<1>7. h.result \in Nodes /\ depth(h.result) \in Nat /\ depth(f.result) <= depth(h.result) /\ depth(E[op]) <= depth(h.result)
  BY <1>1, <1>5, <1>6 DEF deeper
<1>8. h.result \in {entry} \cup {E[o] : o \in UsedOps(d) \ h.todo}
  BY <1>1, <1>3, <1>4 DEF deeper
<1>9. \A o \in UsedOps(d) \ h.todo : depth(E[o]) <= depth(h.result)
  BY <1>3, <1>4, <1>6, <1>7
<1>10. h.todo \subseteq UsedOps(d) /\ UsedOps(d) \ h.todo \subseteq DOMAIN E
  BY <1>1, <1>3
<1>11. d \in Asked \ DOMAIN E
  BY DEF EarlyCall
<1>12. EarlyCall(E, h)
  BY <1>1, <1>2, <1>7, <1>8, <1>9, <1>10, <1>11 DEF EarlyCall
<1> QED BY <1>12 DEF h

LEMMA EarlyBegun ==
    ASSUME Static, Known, Seen, NEW E, NEW d \in Asked \ DOMAIN E
    PROVE  /\ Early(d) \in Frame /\ Early(d).fn = "early" /\ Early(d).def = d
           /\ EarlyCall(E, Early(d))
<1>1. d \in Defs /\ entry \in Nodes
  BY DEF Known
<1>2. CASE free(d)
  <2>1. Early(d) = [fn |-> "early", def |-> d, todo |-> {}, result |-> entry]
    BY <1>2 DEF Early
  <2> QED BY <1>1, <1>2, <2>1 DEF Frame, EarlyCall, IsVar, Compound
<1>3. CASE IsVar(d)
  <2>1. Early(d) = [fn |-> "early", def |-> d, todo |-> {}, result |-> nom(g, d)]
    BY <1>3 DEF Early, IsVar
  <2>2. nom(g, d) \in Nodes
    BY <1>3 DEF Known, Seen, IsVar
  <2> QED BY <1>1, <1>3, <2>1, <2>2 DEF Frame, EarlyCall, IsVar, Compound
<1>4. CASE Compound(d)
  <2>1. Early(d) = [fn |-> "early", def |-> d, todo |-> UsedOps(d), result |-> entry]
    BY <1>4 DEF Early, Compound
  <2>2. UsedOps(d) \in SUBSET Defs /\ ~free(d) /\ ~IsVar(d)
    <3>1. d \in Visited
      BY <1>4 DEF Known, Compound
    <3> QED BY <1>4, <3>1 DEF Known, Compound, IsVar
  <2> QED BY <1>1, <1>4, <2>1, <2>2 DEF Frame, EarlyCall
<1> QED BY <1>2, <1>3, <1>4 DEF IsVar, Compound

(* What a call of late finds: all that is visible where d is can be seen there.     *)
LEMMA LateFound ==
    ASSUME Static, Known, Seen, NEW L, LateOK(L), NEW f, LateCall(L, f), f.todo = {}, ~free(f.def)
    PROVE  LateRight(L, f.def, f.result)
<1> DEFINE d == f.def
           n == f.result
<1>1. d \in Visited /\ ~free(d) /\ d \notin DOMAIN L /\ Order
  BY OrderIs DEF LateCall, Known
<1>2. CASE IsNom(d)
  <2>1. d \in Nodes /\ n = d /\ d \notin Vars(g)
    BY <1>1, <1>2 DEF Known, IsNom, LateCall
  <2>2. \A c \in Nodes : Covers(c, d) => dominates(c, n)
    BY <2>1 DEF Covers, Seen
  <2> QED BY <1>1, <2>1, <2>2 DEF LateRight, IsNom, IsVar, Inner, Known
<1>3. CASE IsVar(d)
  <2>1. d \in Visited \cap Vars(g) /\ n = nom(g, d)
    BY <1>1, <1>3 DEF IsVar, LateCall
  <2>2. n \in Nodes /\ \A c \in Nodes : Covers(c, d) => dominates(c, n)
    BY <2>1 DEF Covers, Seen
  <2>3. ~IsNom(d) /\ ~Inner(d)
    BY <1>1, <2>1 DEF IsNom, Inner, Compound, Known
  <2> QED BY <1>1, <2>1, <2>2, <2>3 DEF LateRight
<1>4. CASE Inner(d)
  <2> DEFINE U == def2uses_[d]
  <2>1. d \in DOMAIN def2uses_ /\ d \notin Vars(g) /\ U = {u \in Visited : d \in Enqueued(u)} /\ U # {}
    BY <1>1, <1>4 DEF Inner, Compound, Known
  <2>2. Settled(L, U) /\ Highest(L, n, U)
    BY <1>4, <2>1 DEF LateCall
  <2>3. n \in Nodes
    BY <2>2 DEF Highest
  <2>4. ASSUME NEW c \in Nodes, Covers(c, d) PROVE dominates(c, n)
    <3>1. ASSUME NEW u \in U PROVE dominates(c, LateOf(L, u))
      <4>1. u \in Visited /\ d \in Enqueued(u)
        BY <2>1
      <4>2. CASE free(u)
        <5>1. u = entry /\ entry \in Nodes
          BY <1>1, <4>1, <4>2 DEF Known
        <5>2. dominates(c, entry)
          BY <2>4, <4>1, <5>1 DEF Covers, Seen
        <5> QED BY <4>2, <5>2 DEF LateOf
      <4>3. CASE ~free(u)
        <5>1. u \in DOMAIN L /\ LateOf(L, u) = L[u] /\ LateRight(L, u, L[u])
          BY <2>2, <4>3 DEF Settled, LateOf, LateOK
        <5>2. CASE IsNom(u)
          <6>1. u \in Nodes /\ L[u] = u
            BY <4>1, <5>1, <5>2 DEF Known, IsNom, LateRight
          <6> QED BY <2>4, <4>1, <5>1, <6>1 DEF Covers, Seen
        <5>3. CASE IsVar(u)
          <6>1. u \in Visited \cap Vars(g) /\ L[u] = nom(g, u)
            BY <4>1, <5>1, <5>3 DEF IsVar, LateRight
          <6> QED BY <2>4, <4>1, <5>1, <6>1 DEF Covers, Seen
        <5>4. CASE Inner(u)
          <6>1. u \in Visited \ Vars(g)
            BY <4>1, <5>4 DEF Inner, Compound
          <6>2. Covers(c, u)
            BY <2>4, <4>1, <6>1, CoversUp
          <6> QED BY <5>1, <6>2 DEF LateRight
        <5> QED BY <4>3, <5>2, <5>3, <5>4 DEF IsNom, IsVar, Inner, Compound
      <4> QED BY <4>2, <4>3
    <3> QED BY <2>2, <3>1 DEF Highest
  <2>5. ~IsNom(d) /\ ~IsVar(d)
    BY <1>4 DEF IsNom, IsVar, Inner, Compound
  <2> QED BY <1>1, <2>2, <2>3, <2>4, <2>5 DEF LateRight
<1> QED BY <1>1, <1>2, <1>3, <1>4 DEF IsNom, IsVar, Inner, Compound

(* The last node above two others.                                             *)
LEMMA JoinIs ==
    ASSUME Static, NEW a \in Nodes, NEW b \in Nodes
    PROVE  LET c == least_common_ancestor(a, b)
           IN  /\ c \in Nodes /\ dominates(c, a) /\ dominates(c, b)
               /\ \A x \in Nodes : dominates(x, a) /\ dominates(x, b) => dominates(x, c)
<1> DEFINE C == Dominators(a) \cap Dominators(b)
<1>1. Order /\ entry \in Nodes
  BY OrderIs DEF Static
<1>2. C \in SUBSET Nodes /\ entry \in C /\ \A c \in C : dominates(c, a)
  BY <1>1 DEF Dominators, Order
<1>3. \A x \in Nodes : x \in C <=> dominates(x, a) /\ dominates(x, b)
  BY DEF Dominators
<1>4. least_common_ancestor(a, b) = Last(C)
  BY DEF least_common_ancestor
<1> HIDE DEF C
<1>5. Last(C) \in C /\ \A x \in C : dominates(x, Last(C))
  BY <1>2, LastIs
<1> QED BY <1>2, <1>3, <1>4, <1>5

LEMMA LateLook ==
    ASSUME Static, Known, NEW L, LateOK(L), NEW f \in Frame, LateCall(L, f), NEW use \in f.todo,
           use \in DOMAIN L \/ free(use), NEW n, n = LateOf(L, use)
    PROVE  /\ Join(f.result, n) \in Nodes
           /\ LateCall(L, After(f, use, Join(f.result, n)))
<1> DEFINE h == After(f, use, Join(f.result, n))
           d == f.def
           U == def2uses_[d]
<1>1. h.def = d /\ h.todo = f.todo \ {use} /\ h.result = Join(f.result, n)
  BY DEF After
<1> HIDE DEF h
<1>2. ~free(d) /\ ~IsNom(d) /\ ~IsVar(d) /\ Inner(d)
  BY DEF LateCall, IsNom, IsVar, Inner, Compound
<1>3. /\ f.todo \subseteq U /\ Settled(L, U \ f.todo)
      /\ f.todo = U => f.result = None
      /\ f.todo # U => Highest(L, f.result, U \ f.todo)
  BY <1>2 DEF LateCall
<1>4. U \ h.todo = (U \ f.todo) \cup {use} /\ h.todo # U /\ h.todo \subseteq U
  BY <1>1, <1>3
<1>5. n \in Nodes /\ Order
  BY OrderIs DEF LateOK, LateRight, LateOf, Static
<1>6. Settled(L, U \ h.todo)
  BY <1>3, <1>4 DEF Settled
<1>7. Highest(L, h.result, U \ h.todo)
  <2>1. CASE f.todo = U
    <3>1. U \ h.todo = {use} /\ h.result = n
      BY <1>1, <1>3, <1>4, <2>1 DEF Join
    <3> QED BY <1>5, <3>1 DEF Highest, Order
  <2>2. CASE f.todo # U
    <3>1. f.result \in Nodes /\ f.result # None /\ Highest(L, f.result, U \ f.todo)
      BY <1>3, <2>2 DEF Highest, None, Known
    <3> DEFINE c == least_common_ancestor(f.result, n)
    <3>2. h.result = c
      BY <1>1, <3>1 DEF Join
    <3>3. /\ c \in Nodes /\ dominates(c, f.result) /\ dominates(c, n)
          /\ \A x \in Nodes : dominates(x, f.result) /\ dominates(x, n) => dominates(x, c)
      BY <1>5, <3>1, JoinIs
    <3> HIDE DEF c
    <3>4. \A u \in U \ f.todo : LateOf(L, u) \in Nodes
      BY <1>3 DEF Settled, LateOf, LateOK, LateRight, Static
    <3>5. \A u \in U \ h.todo : dominates(c, LateOf(L, u))
      BY <1>4, <1>5, <3>1, <3>3, <3>4 DEF Highest, Order
    <3>6. ASSUME NEW x \in Nodes, \A u \in U \ h.todo : dominates(x, LateOf(L, u))
          PROVE  dominates(x, c)
      <4>1. dominates(x, n) /\ dominates(x, f.result)
        BY <1>4, <3>1, <3>6 DEF Highest
      <4> QED BY <3>3, <4>1
    <3> QED BY <3>2, <3>3, <3>5, <3>6 DEF Highest
  <2> QED BY <2>1, <2>2
<1>8. d \in Asked \ DOMAIN L
  BY DEF LateCall
<1>9. LateCall(L, h)
  BY <1>1, <1>2, <1>4, <1>6, <1>7, <1>8 DEF LateCall
<1>10. h.result \in Nodes
  BY <1>7 DEF Highest
<1> QED BY <1>1, <1>9, <1>10 DEF h

LEMMA LateBegun ==
    ASSUME Static, Known, Seen, NEW L, NEW d \in Asked \ DOMAIN L
    PROVE  /\ Late(d) \in Frame /\ Late(d).fn = "late" /\ Late(d).def = d
           /\ LateCall(L, Late(d))
<1>1. d \in Defs /\ entry \in Nodes /\ (~free(d) => d \in Visited)
  BY DEF Known
<1>2. CASE free(d)
  <2>1. Late(d) = [fn |-> "late", def |-> d, todo |-> {}, result |-> entry]
    BY <1>2 DEF Late
  <2> QED BY <1>1, <1>2, <2>1 DEF Frame, LateCall, IsNom, IsVar, Inner, Compound
<1>3. CASE IsNom(d)
  <2>1. d \in Nodes /\ d \notin Vars(g)
    BY <1>1, <1>3 DEF Known, IsNom
  <2>2. Late(d) = [fn |-> "late", def |-> d, todo |-> {}, result |-> d]
    BY <1>3, <2>1 DEF Late, IsNom
  <2> QED BY <1>1, <1>3, <2>1, <2>2 DEF Frame, LateCall, IsNom, IsVar, Inner, Compound
<1>4. CASE IsVar(d)
  <2>1. nom(g, d) \in Nodes /\ d \notin g.noms
    BY <1>1, <1>4 DEF Known, Seen, IsVar
  <2>2. Late(d) = [fn |-> "late", def |-> d, todo |-> {}, result |-> nom(g, d)]
    BY <1>4, <2>1 DEF Late, IsVar
  <2> QED BY <1>1, <1>4, <2>1, <2>2 DEF Frame, LateCall, IsNom, IsVar, Inner, Compound
<1>5. CASE Inner(d)
  <2>1. Late(d) = [fn |-> "late", def |-> d, todo |-> def2uses_[d], result |-> None]
    BY <1>5 DEF Late, Inner, Compound
  <2>2. def2uses_[d] \in SUBSET Defs
    BY <1>1, <1>5 DEF Known, Inner, Compound
  <2>3. Settled(L, def2uses_[d] \ def2uses_[d])
    BY DEF Settled
  <2> QED BY <1>1, <1>5, <2>1, <2>2, <2>3 DEF Frame, LateCall, IsNom, IsVar, Inner, Compound
<1> QED BY <1>2, <1>3, <1>4, <1>5 DEF IsNom, IsVar, Inner, Compound

-----------------------------------------------------------------------------
(* The calls that are going on, when one is made, looks at something or returns.   *)
Popped(C) == SubSeq(C, 1, Len(C) - 1)

LEMMA PopIs ==
    ASSUME NEW S, NEW C \in Seq(S), C # <<>>
    PROVE  /\ Len(C) \in Nat \ {0} /\ C[Len(C)] \in S
           /\ Popped(C) \in Seq(S) /\ Len(Popped(C)) = Len(C) - 1
           /\ \A k \in 1..Len(C)-1 : Popped(C)[k] = C[k]
<1>1. Len(C) \in Nat /\ Len(C) # 0
  BY EmptySeq
<1>2. 1 \in 1..Len(C)+1 /\ Len(C) - 1 \in 1-1..Len(C)
  BY <1>1
<1>3. Popped(C) = [k \in 1..Len(C)-1 |-> C[k]]
  BY <1>1, SubSeqProperties DEF Popped
<1>4. \A k \in 1..Len(C)-1 : C[k] \in S
  BY <1>1, ElementOfSeq
<1>5. Popped(C) \in Seq(S) /\ Len(Popped(C)) = Len(C) - 1
  <2>1. Len(C) - 1 \in Nat
    BY <1>1
  <2> QED BY <1>3, <1>4, <2>1
<1>6. C[Len(C)] \in S
  BY <1>1, ElementOfSeq
<1> QED BY <1>1, <1>3, <1>5, <1>6

LEMMA PushIs ==
    ASSUME NEW S, NEW C \in Seq(S), NEW h \in S
    PROVE  /\ Append(C, h) \in Seq(S) /\ Len(Append(C, h)) = Len(C) + 1 /\ Len(C) \in Nat
           /\ Append(C, h)[Len(C) + 1] = h
           /\ \A k \in 1..Len(C) : Append(C, h)[k] = C[k]
BY AppendProperties

LEMMA CallsPop ==
    ASSUME NEW E, NEW L, NEW C, CallsOK(E, L, C), C # <<>>
    PROVE  CallsOK(E, L, Popped(C))
<1>1. /\ Len(C) \in Nat \ {0} /\ Popped(C) \in Seq(Frame) /\ Len(Popped(C)) = Len(C) - 1
      /\ \A k \in 1..Len(C)-1 : Popped(C)[k] = C[k]
  BY PopIs DEF CallsOK
<1> QED BY <1>1 DEF CallsOK

LEMMA CallsPush ==
    ASSUME NEW E, NEW L, NEW C, CallsOK(E, L, C), NEW h \in Frame, CallOK(E, L, h),
           C # <<>> => Above(C[Len(C)], h) /\ (C[Len(C)].fn = "early" => h.fn = "early")
    PROVE  CallsOK(E, L, Append(C, h))
<1> DEFINE D == Append(C, h)
           n == Len(C)
<1>1. /\ D \in Seq(Frame) /\ Len(D) = n + 1 /\ n \in Nat /\ D[n + 1] = h
      /\ \A k \in 1..n : D[k] = C[k]
  BY PushIs DEF CallsOK
<1> HIDE DEF D
<1>2. /\ \A k \in 1..n : CallOK(E, L, C[k])
      /\ \A k \in 1..n-1 : Above(C[k], C[k+1])
      /\ \A k, l \in 1..n : k < l /\ C[k].fn = "early" => C[l].fn = "early"
  BY DEF CallsOK
<1>3. n # 0 => C # <<>>
  OBVIOUS
<1>4. \A k \in 1..n+1 : CallOK(E, L, D[k])
  BY <1>1, <1>2
<1>5. \A k \in 1..n : Above(D[k], D[k+1])
  BY <1>1, <1>2, <1>3
<1>6. ASSUME NEW k \in 1..n+1, NEW l \in 1..n+1, k < l, D[k].fn = "early" PROVE D[l].fn = "early"
  <2>1. k \in 1..n /\ C[k].fn = "early" /\ n \in 1..n
    BY <1>1, <1>6
  <2>2. C[n].fn = "early"
    BY <1>1, <1>2, <2>1
  <2> QED BY <1>1, <1>2, <1>3, <1>6, <2>1, <2>2
<1>7. CallsOK(E, L, D)
  BY <1>1, <1>4, <1>5, <1>6 DEF CallsOK
<1> QED BY <1>7 DEF D

LEMMA CallsSet ==
    ASSUME NEW E, NEW L, NEW C, CallsOK(E, L, C), C # <<>>, NEW h \in Frame, CallOK(E, L, h),
           h.fn = C[Len(C)].fn, h.def = C[Len(C)].def
    PROVE  CallsOK(E, L, Append(Popped(C), h))
<1> DEFINE n == Len(C) - 1
           D == Popped(C)
<1>1. /\ Len(C) \in Nat \ {0} /\ Len(D) = n
      /\ \A k \in 1..n : D[k] = C[k]
  BY PopIs DEF CallsOK
<1>2. CallsOK(E, L, D)
  BY CallsPop
<1> HIDE DEF D
<1>3. D # <<>> => n # 0
  <2>1. D \in Seq(Frame)
    BY <1>2 DEF CallsOK
  <2> QED BY <1>1, <2>1, EmptySeq
<1>4. ASSUME n # 0 PROVE Above(D[n], h) /\ (D[n].fn = "early" => h.fn = "early")
  <2>1. n \in 1..Len(C)-1 /\ n + 1 = Len(C) /\ D[n] = C[n] /\ n \in 1..Len(C) /\ n < Len(C) /\ Len(C) \in 1..Len(C)
    BY <1>1, <1>4
  <2>2. Above(C[n], C[Len(C)]) /\ (C[n].fn = "early" => C[Len(C)].fn = "early")
    BY <2>1 DEF CallsOK
  <2> QED BY <2>1, <2>2 DEF Above
<1>5. CallsOK(E, L, Append(D, h))
  BY <1>1, <1>2, <1>3, <1>4, CallsPush
<1> QED BY <1>5 DEF D

LEMMA CallsStay ==
    ASSUME NEW E, NEW F, Extends(E, F), NEW L, NEW K, Extends(L, K), NEW C, CallsOK(E, L, C),
           \A k \in 1..Len(C) : /\ C[k].fn = "early" => C[k].def \notin DOMAIN F
                                /\ C[k].fn = "late" => C[k].def \notin DOMAIN K
    PROVE  CallsOK(F, K, C)
<1>1. ASSUME NEW k \in 1..Len(C) PROVE CallOK(F, K, C[k])
  <2>1. CallOK(E, L, C[k])
    BY DEF CallsOK
  <2> QED BY <2>1, EarlyCallStays, LateCallStays DEF CallOK
<1> QED BY <1>1 DEF CallsOK

(* No call is made for what is being looked at: the one that returns is the only   *)
(* one of its kind for its def.                                                *)
LEMMA OnlyOne ==
    ASSUME NEW E, NEW L, NEW C, CallsOK(E, L, C), C # <<>>, C[Len(C)].todo = {}, NEW k \in 1..Len(C)-1,
           C[k].fn = C[Len(C)].fn
    PROVE  C[k].def # C[Len(C)].def
<1> DEFINE n == Len(C)
<1> SUFFICES ASSUME C[k].def = C[n].def PROVE FALSE
  OBVIOUS
<1>1. n \in Nat \ {0} /\ C \in Seq(Frame)
  BY PopIs DEF CallsOK
<1>2. k \in 1..n /\ k + 1 \in 1..n /\ n \in 1..n /\ k < k + 1 /\ (k + 1 < n \/ k + 1 = n)
  BY <1>1
<1>3. /\ CallOK(E, L, C[k]) /\ CallOK(E, L, C[k+1]) /\ CallOK(E, L, C[n])
      /\ Above(C[k], C[k+1])
      /\ C[k].fn = "early" => C[k+1].fn = "early"
      /\ C[k+1].fn = "early" => C[n].fn = "early"
  BY <1>2 DEF CallsOK
<1>4. C[k].fn \in {"early", "late"} /\ C[k+1].fn \in {"early", "late"}
  <2>1. C[k] \in Frame /\ C[k+1] \in Frame
    BY <1>1, <1>2, ElementOfSeq
  <2> QED BY <2>1 DEF Frame
<1>5. C[k+1].fn = C[k].fn
  BY <1>3, <1>4
<1>6. C[k+1].def \in C[k].todo /\ (C[k+1].fn = "late" => ~free(C[k+1].def))
  BY <1>3, <1>5 DEF Above
<1>7. CASE C[k].fn = "early"
  <2>1. EarlyCall(E, C[k]) /\ EarlyCall(E, C[k+1]) /\ EarlyCall(E, C[n])
    BY <1>3, <1>5, <1>7 DEF CallOK
  <2>2. Compound(C[k].def)
    BY <1>6, <2>1 DEF EarlyCall, Compound, IsVar
  <2>3. C[k].todo \subseteq UsedOps(C[k].def) /\ UsedOps(C[k].def) \subseteq DOMAIN E
    BY <2>1, <2>2 DEF EarlyCall
  <2> QED BY <1>6, <2>1, <2>3 DEF EarlyCall
<1>8. CASE C[k].fn = "late"
  <2>1. LateCall(L, C[k]) /\ LateCall(L, C[k+1]) /\ LateCall(L, C[n])
    BY <1>3, <1>5, <1>8 DEF CallOK
  <2>2. Inner(C[k].def)
    BY <1>6, <2>1 DEF LateCall, Inner, Compound, IsVar, IsNom
  <2>3. C[k].todo \subseteq def2uses_[C[k].def] /\ Settled(L, def2uses_[C[k].def])
    BY <2>1, <2>2 DEF LateCall
  <2> QED BY <1>5, <1>6, <1>8, <2>1, <2>3 DEF LateCall, Settled
<1> QED BY <1>4, <1>7, <1>8

-----------------------------------------------------------------------------
(* Each step of a call keeps what holds while calls are going on.                *)
LEMMA AskedPush ==
    ASSUME NEW E, NEW L, NEW M, NEW C \in Seq(Frame), NEW d, AskedOK(E, L, M, C, d), NEW h \in Frame
    PROVE  AskedOK(E, L, M, Append(C, h), d)
<1>1. \A fn \in {"early", "late"} : Going(fn, d, C) => Going(fn, d, Append(C, h))
  <2>1. /\ Len(Append(C, h)) = Len(C) + 1 /\ Len(C) \in Nat
        /\ \A k \in 1..Len(C) : k \in 1..Len(Append(C, h)) /\ Append(C, h)[k] = C[k]
    BY PushIs
  <2> QED BY <2>1 DEF Going
<1> QED BY <1>1 DEF AskedOK

LEMMA AskedSet ==
    ASSUME NEW E, NEW L, NEW M, NEW C \in Seq(Frame), C # <<>>, NEW d, AskedOK(E, L, M, C, d),
           NEW h \in Frame, h.fn = C[Len(C)].fn, h.def = C[Len(C)].def
    PROVE  AskedOK(E, L, M, Append(Popped(C), h), d)
<1> DEFINE n == Len(C)
           D == Append(Popped(C), h)
<1>1. /\ n \in Nat \ {0} /\ Popped(C) \in Seq(Frame) /\ Len(Popped(C)) = n - 1
      /\ \A k \in 1..n-1 : Popped(C)[k] = C[k]
  BY PopIs
<1>2. Len(D) = n /\ D[n] = h /\ \A k \in 1..n-1 : D[k] = C[k]
  <2> DEFINE B == Popped(C)
  <2> HIDE DEF B
  <2>1. /\ Len(Append(B, h)) = Len(B) + 1 /\ Append(B, h)[Len(B) + 1] = h
        /\ \A k \in 1..Len(B) : Append(B, h)[k] = B[k]
    BY <1>1, PushIs DEF B
  <2>2. Len(B) = n - 1 /\ n - 1 + 1 = n
    BY <1>1 DEF B
  <2> QED BY <1>1, <2>1, <2>2 DEF B
<1> HIDE DEF D
<1>3. \A k \in 1..n : D[k].fn = C[k].fn /\ D[k].def = C[k].def
  <2> SUFFICES ASSUME NEW k \in 1..n PROVE D[k].fn = C[k].fn /\ D[k].def = C[k].def
    OBVIOUS
  <2>1. k = n \/ k \in 1..n-1
    BY <1>1
  <2> QED BY <1>2, <2>1
<1>4. \A fn \in {"early", "late"} : Going(fn, d, C) => Going(fn, d, D)
  BY <1>2, <1>3 DEF Going
<1>5. AskedOK(E, L, M, D, d)
  BY <1>4 DEF AskedOK
<1> QED BY <1>5 DEF D

LEMMA AskedPop ==
    ASSUME NEW E, NEW F, Extends(E, F), NEW L, NEW K, Extends(L, K),
           NEW M, NEW C \in Seq(Frame), C # <<>>, NEW d, AskedOK(E, L, M, C, d),
           C[Len(C)].fn = "early" => C[Len(C)].def \in DOMAIN F,
           C[Len(C)].fn = "late" => C[Len(C)].def \in DOMAIN K \/ free(C[Len(C)].def)
    PROVE  AskedOK(F, K, M, Popped(C), d)
<1> DEFINE n == Len(C)
           D == Popped(C)
<1>1. n \in Nat \ {0} /\ Len(D) = n - 1 /\ \A k \in 1..n-1 : D[k] = C[k]
  BY PopIs
<1> HIDE DEF D
<1>2. \A fn \in {"early", "late"} : Going(fn, d, C) => Going(fn, d, D) \/ (C[n].fn = fn /\ C[n].def = d)
  <2> SUFFICES ASSUME NEW fn \in {"early", "late"}, NEW k \in 1..n, C[k].fn = fn, C[k].def = d
               PROVE  Going(fn, d, D) \/ (C[n].fn = fn /\ C[n].def = d)
    BY DEF Going
  <2>1. k = n \/ k \in 1..n-1
    BY <1>1
  <2> QED BY <1>1, <2>1 DEF Going
<1>3. d \in DOMAIN E => d \in DOMAIN F
  BY DEF Extends
<1>4. d \in DOMAIN L => d \in DOMAIN K
  BY DEF Extends
<1>5. AskedOK(F, K, M, D, d)
  BY <1>2, <1>3, <1>4 DEF AskedOK
<1> QED BY <1>5 DEF D

(* The call that is going on.                                                  *)
LEMMA TopIs ==
    ASSUME NEW E, NEW L, NEW C, CallsOK(E, L, C), C # <<>>
    PROVE  /\ C \in Seq(Frame) /\ Len(C) \in Nat \ {0} /\ C[Len(C)] \in Frame
           /\ C[Len(C)].fn = "early" => EarlyCall(E, C[Len(C)])
           /\ C[Len(C)].fn = "late" => LateCall(L, C[Len(C)])
           /\ C[Len(C)].fn = "late" => \A k \in 1..Len(C) : C[k].fn = "late"
<1>1. C \in Seq(Frame)
  BY DEF CallsOK
<1>2. Len(C) \in Nat \ {0} /\ C[Len(C)] \in Frame
  BY <1>1, PopIs
<1>3. CallOK(E, L, C[Len(C)])
  BY <1>2 DEF CallsOK
<1>4. ASSUME C[Len(C)].fn = "late", NEW k \in 1..Len(C) PROVE C[k].fn = "late"
  <2>1. C[k] \in Frame /\ (k = Len(C) \/ k < Len(C)) /\ Len(C) \in 1..Len(C)
    BY <1>1, <1>2, ElementOfSeq
  <2>2. C[k].fn # "early"
    BY <1>4, <2>1 DEF CallsOK
  <2> QED BY <2>1, <2>2 DEF Frame
<1> QED BY <1>1, <1>2, <1>3, <1>4 DEF CallOK

LEMMA ExtendsSelf == ASSUME NEW E PROVE Extends(E, E)
BY DEF Extends

LEMMA EarlyReturned ==
    ASSUME Static, Known, Seen, NEW E, NEW L, NEW M, NEW C, NEW d, CallingOK(E, L, M, C, d),
           C # <<>>, NEW f, f = C[Len(C)], f.fn = "early", f.todo = {}
    PROVE  CallingOK(Put(E, f.def, f.result), L, M, Popped(C), d)
<1> DEFINE F == Put(E, f.def, f.result)
<1>1. /\ EarlyOK(E) /\ LateOK(L) /\ SmartOK(E, L, M) /\ CallsOK(E, L, C) /\ AskedOK(E, L, M, C, d)
  BY DEF CallingOK, TablesOK
<1>2. /\ C \in Seq(Frame) /\ Len(C) \in Nat \ {0} /\ f \in Frame /\ EarlyCall(E, f)
  BY <1>1, TopIs
<1>3. EarlyRight(E, f.def, f.result)
  BY <1>1, <1>2, EarlyFound
<1>4. f.def \in Asked /\ f.def \notin DOMAIN E
  BY <1>2 DEF EarlyCall
<1>5. EarlyOK(F)
  BY <1>1, <1>3, <1>4, EarlyPut
<1>6. DOMAIN F = {f.def} \cup DOMAIN E /\ Extends(E, F) /\ Extends(L, L)
  BY <1>4, PutIs, ExtendsSelf
<1> HIDE DEF F
<1>7. SmartOK(F, L, M)
  BY <1>1, <1>6, SmartStays
<1>8. CallsOK(F, L, Popped(C))
  <2>1. CallsOK(E, L, Popped(C))
    BY <1>1, CallsPop
  <2>2. Len(Popped(C)) = Len(C) - 1 /\ \A k \in 1..Len(C)-1 : Popped(C)[k] = C[k]
    BY <1>2, PopIs
  <2>3. ASSUME NEW k \in 1..Len(C)-1
        PROVE  /\ C[k].fn = "early" => C[k].def \notin DOMAIN F
               /\ C[k].fn = "late" => C[k].def \notin DOMAIN L
    <3>1. CallOK(E, L, C[k])
      BY <1>1, <1>2 DEF CallsOK
    <3>2. C[k].fn = "early" => C[k].def # f.def
      BY <1>1, OnlyOne
    <3> QED BY <1>6, <3>1, <3>2 DEF CallOK, EarlyCall, LateCall
  <2> DEFINE D == Popped(C)
  <2>4. \A k \in 1..Len(D) : /\ D[k].fn = "early" => D[k].def \notin DOMAIN F
                             /\ D[k].fn = "late" => D[k].def \notin DOMAIN L
    BY <2>2, <2>3
  <2> HIDE DEF D
  <2>5. CallsOK(E, L, D)
    BY <2>1 DEF D
  <2>6. CallsOK(F, L, D)
    BY <1>6, <2>4, <2>5, CallsStay
  <2> QED BY <2>6 DEF D
<1>9. AskedOK(F, L, M, Popped(C), d)
  BY <1>1, <1>2, <1>6, AskedPop
<1>10. CallingOK(F, L, M, Popped(C), d)
  BY <1>1, <1>5, <1>7, <1>8, <1>9 DEF CallingOK, TablesOK
<1> QED BY <1>10 DEF F

LEMMA EarlyPushed ==
    ASSUME Static, Known, Seen, NEW E, NEW L, NEW M, NEW C, NEW d, CallingOK(E, L, M, C, d),
           C # <<>>, NEW f, f = C[Len(C)], f.fn = "early", NEW op \in f.todo, op \notin DOMAIN E
    PROVE  CallingOK(E, L, M, Append(C, Early(op)), d)
<1>1. /\ TablesOK(E, L, M) /\ CallsOK(E, L, C) /\ AskedOK(E, L, M, C, d)
  BY DEF CallingOK
<1>2. C \in Seq(Frame) /\ EarlyCall(E, f)
  BY <1>1, TopIs
<1>3. op \in Asked \ DOMAIN E
  <2>1. Compound(f.def) /\ f.def \in Asked
    BY <1>2 DEF EarlyCall, Compound, IsVar
  <2>2. op \in UsedOps(f.def)
    BY <1>2, <2>1 DEF EarlyCall
  <2> QED BY <2>2 DEF UsedOps, Asked
<1>4. /\ Early(op) \in Frame /\ Early(op).fn = "early" /\ Early(op).def = op
      /\ EarlyCall(E, Early(op))
  BY <1>3, EarlyBegun
<1>5. CallsOK(E, L, Append(C, Early(op)))
  <2>1. CallOK(E, L, Early(op)) /\ Above(f, Early(op))
    BY <1>4 DEF CallOK, Above
  <2> QED BY <1>1, <1>4, <2>1, CallsPush
<1>6. AskedOK(E, L, M, Append(C, Early(op)), d)
  BY <1>1, <1>2, <1>4, AskedPush
<1> QED BY <1>1, <1>5, <1>6 DEF CallingOK

LEMMA EarlyLooked ==
    ASSUME Static, Known, Seen, NEW E, NEW L, NEW M, NEW C, NEW d, CallingOK(E, L, M, C, d),
           C # <<>>, NEW f, f = C[Len(C)], f.fn = "early", NEW op \in f.todo, op \in DOMAIN E
    PROVE  CallingOK(E, L, M, Append(Popped(C), After(f, op, deeper(f.result, E[op]))), d)
<1> DEFINE h == After(f, op, deeper(f.result, E[op]))
<1>1. /\ TablesOK(E, L, M) /\ EarlyOK(E) /\ CallsOK(E, L, C) /\ AskedOK(E, L, M, C, d)
  BY DEF CallingOK, TablesOK
<1>2. C \in Seq(Frame) /\ EarlyCall(E, f) /\ f \in Frame
  BY <1>1, TopIs
<1>3. EarlyCall(E, h)
  BY <1>1, <1>2, EarlyLook
<1>4. h \in Frame /\ h.fn = f.fn /\ h.def = f.def
  <2>1. h.result \in Nodes
    BY <1>3 DEF EarlyCall
  <2> QED BY <1>2, <2>1 DEF Frame, After
<1> HIDE DEF h
<1>5. CallsOK(E, L, Append(Popped(C), h))
  <2>1. CallOK(E, L, h)
    BY <1>3, <1>4 DEF CallOK
  <2> QED BY <1>1, <1>4, <2>1, CallsSet
<1>6. AskedOK(E, L, M, Append(Popped(C), h), d)
  BY <1>1, <1>2, <1>4, AskedSet
<1>7. CallingOK(E, L, M, Append(Popped(C), h), d)
  BY <1>1, <1>5, <1>6 DEF CallingOK
<1> QED BY <1>7 DEF h

LEMMA UsersAsked ==
    ASSUME Known, NEW L, NEW f, LateCall(L, f), NEW use \in f.todo
    PROVE  use \in Asked
<1>1. Inner(f.def) /\ f.def \in Asked
  BY DEF LateCall, Inner, Compound, IsVar, IsNom
<1>2. use \in def2uses_[f.def]
  BY <1>1 DEF LateCall
<1>3. f.def \in DOMAIN def2uses_
  BY <1>1 DEF Known, Inner, Compound
<1> QED BY <1>2, <1>3 DEF Known

LEMMA LateReturned ==
    ASSUME Static, Known, Seen, NEW E, NEW L, NEW M, NEW C, NEW d, CallingOK(E, L, M, C, d),
           C # <<>>, NEW f, f = C[Len(C)], f.fn = "late", f.todo = {}, ~free(f.def)
    PROVE  CallingOK(E, Put(L, f.def, f.result), M, Popped(C), d)
<1> DEFINE K == Put(L, f.def, f.result)
<1>1. /\ EarlyOK(E) /\ LateOK(L) /\ SmartOK(E, L, M) /\ CallsOK(E, L, C) /\ AskedOK(E, L, M, C, d)
  BY DEF CallingOK, TablesOK
<1>2. /\ C \in Seq(Frame) /\ Len(C) \in Nat \ {0} /\ f \in Frame /\ LateCall(L, f)
  BY <1>1, TopIs
<1>3. LateRight(L, f.def, f.result)
  BY <1>1, <1>2, LateFound
<1>4. f.def \in Asked /\ f.def \notin DOMAIN L
  BY <1>2 DEF LateCall
<1>5. LateOK(K)
  BY <1>1, <1>3, <1>4, LatePut
<1>6. DOMAIN K = {f.def} \cup DOMAIN L /\ Extends(L, K) /\ Extends(E, E)
  BY <1>4, PutIs, ExtendsSelf
<1> HIDE DEF K
<1>7. SmartOK(E, K, M)
  BY <1>1, <1>5, <1>6, SmartStays
<1>8. CallsOK(E, K, Popped(C))
  <2> DEFINE D == Popped(C)
  <2>1. Len(D) = Len(C) - 1 /\ \A k \in 1..Len(C)-1 : D[k] = C[k]
    BY <1>2, PopIs
  <2>2. ASSUME NEW k \in 1..Len(C)-1
        PROVE  /\ C[k].fn = "early" => C[k].def \notin DOMAIN E
               /\ C[k].fn = "late" => C[k].def \notin DOMAIN K
    <3>1. CallOK(E, L, C[k])
      BY <1>1, <1>2 DEF CallsOK
    <3>2. C[k].fn = "late" => C[k].def # f.def
      BY <1>1, OnlyOne
    <3> QED BY <1>6, <3>1, <3>2 DEF CallOK, EarlyCall, LateCall
  <2>3. CallsOK(E, L, D)
    BY <1>1, CallsPop
  <2> HIDE DEF D
  <2>4. \A k \in 1..Len(D) : /\ D[k].fn = "early" => D[k].def \notin DOMAIN E
                             /\ D[k].fn = "late" => D[k].def \notin DOMAIN K
    BY <2>1, <2>2
  <2>5. CallsOK(E, K, D)
    BY <1>6, <2>3, <2>4, CallsStay
  <2> QED BY <2>5 DEF D
<1>9. AskedOK(E, K, M, Popped(C), d)
  BY <1>1, <1>2, <1>6, AskedPop
<1>10. CallingOK(E, K, M, Popped(C), d)
  BY <1>1, <1>5, <1>7, <1>8, <1>9 DEF CallingOK, TablesOK
<1> QED BY <1>10 DEF K

(* What late writes into the table of early is what early would find.           *)
LEMMA FreePut ==
    ASSUME Static, NEW E, EarlyOK(E), NEW x \in Asked, free(x)
    PROVE  EarlyOK(Put(E, x, entry)) /\ Extends(E, Put(E, x, entry)) /\ DOMAIN Put(E, x, entry) = {x} \cup DOMAIN E
<1>1. EarlyRight(E, x, entry)
  BY DEF EarlyRight, Static, IsVar, Compound
<1>2. x \notin DOMAIN E \/ E[x] = entry
  BY DEF EarlyOK, EarlyRight
<1> QED BY <1>1, <1>2, EarlyPut, PutIs

LEMMA FreeWritten ==
    ASSUME Static, NEW E, NEW L, NEW M, NEW C, NEW d, CallingOK(E, L, M, C, d),
           \A k \in 1..Len(C) : C[k].fn = "late", NEW x \in Asked, free(x)
    PROVE  CallingOK(Put(E, x, entry), L, M, C, d)
<1> DEFINE F == Put(E, x, entry)
<1>1. /\ EarlyOK(E) /\ LateOK(L) /\ SmartOK(E, L, M) /\ CallsOK(E, L, C) /\ AskedOK(E, L, M, C, d)
  BY DEF CallingOK, TablesOK
<1>2. EarlyOK(F) /\ Extends(E, F) /\ Extends(L, L)
  BY <1>1, FreePut, ExtendsSelf
<1> HIDE DEF F
<1>3. SmartOK(F, L, M)
  BY <1>1, <1>2, SmartStays
<1>4. CallsOK(F, L, C)
  <2>1. \A k \in 1..Len(C) : C[k].def \notin DOMAIN L
    BY <1>1 DEF CallsOK, CallOK, LateCall
  <2> QED BY <1>1, <1>2, <2>1, CallsStay
<1>5. AskedOK(F, L, M, C, d)
  BY <1>1, <1>2 DEF AskedOK, Extends
<1>6. CallingOK(F, L, M, C, d)
  BY <1>1, <1>2, <1>3, <1>4, <1>5 DEF CallingOK, TablesOK
<1> QED BY <1>6 DEF F

LEMMA FreeReturned ==
    ASSUME Static, Known, Seen, NEW E, NEW L, NEW M, NEW C, NEW d, CallingOK(E, L, M, C, d),
           C # <<>>, NEW f, f = C[Len(C)], f.fn = "late", f.todo = {}, free(f.def)
    PROVE  CallingOK(Put(E, f.def, f.result), L, M, Popped(C), d)
<1>1. /\ EarlyOK(E) /\ LateOK(L) /\ SmartOK(E, L, M) /\ CallsOK(E, L, C) /\ AskedOK(E, L, M, C, d)
  BY DEF CallingOK, TablesOK
<1>2. /\ C \in Seq(Frame) /\ Len(C) \in Nat \ {0} /\ f \in Frame /\ LateCall(L, f)
      /\ \A k \in 1..Len(C) : C[k].fn = "late"
  BY <1>1, TopIs
<1>3. f.def \in Asked /\ f.result = entry
  BY <1>2 DEF LateCall
<1> DEFINE D == Popped(C)
<1>4. CallingOK(E, L, M, D, d)
  <2>1. CallsOK(E, L, D)
    BY <1>1, CallsPop
  <2>2. AskedOK(E, L, M, D, d)
    BY <1>1, <1>2, ExtendsSelf, AskedPop
  <2> QED BY <1>1, <2>1, <2>2 DEF CallingOK, TablesOK
<1>5. \A k \in 1..Len(D) : D[k].fn = "late"
  BY <1>2, PopIs
<1> HIDE DEF D
<1>6. CallingOK(Put(E, f.def, entry), L, M, D, d)
  BY <1>3, <1>4, <1>5, FreeWritten
<1> QED BY <1>3, <1>6 DEF D

LEMMA LateLooked ==
    ASSUME Static, Known, Seen, NEW E, NEW L, NEW M, NEW C, NEW d, CallingOK(E, L, M, C, d),
           C # <<>>, NEW f, f = C[Len(C)], f.fn = "late", NEW use \in f.todo, use \in DOMAIN L \/ free(use),
           NEW n, n = LateOf(L, use), NEW h, h = After(f, use, Join(f.result, n))
    PROVE  /\ CallingOK(E, L, M, Append(Popped(C), h), d)
           /\ \A k \in 1..Len(Append(Popped(C), h)) : Append(Popped(C), h)[k].fn = "late"
<1> DEFINE D == Append(Popped(C), h)
<1>1. /\ TablesOK(E, L, M) /\ LateOK(L) /\ CallsOK(E, L, C) /\ AskedOK(E, L, M, C, d)
  BY DEF CallingOK, TablesOK
<1>2. C \in Seq(Frame) /\ LateCall(L, f) /\ f \in Frame
  BY <1>1, TopIs
<1>3. LateCall(L, h) /\ Join(f.result, n) \in Nodes
  BY <1>1, <1>2, LateLook
<1>4. h \in Frame /\ h.fn = f.fn /\ h.def = f.def
  BY <1>2, <1>3 DEF Frame, After
<1>5. CallsOK(E, L, D)
  <2>1. CallOK(E, L, h)
    BY <1>3, <1>4 DEF CallOK
  <2> QED BY <1>1, <1>4, <2>1, CallsSet
<1>6. AskedOK(E, L, M, D, d)
  BY <1>1, <1>2, <1>4, AskedSet
<1>7. D # <<>> /\ D[Len(D)].fn = "late"
  <2>1. Popped(C) \in Seq(Frame)
    BY <1>2, PopIs
  <2> DEFINE B == Popped(C)
  <2> HIDE DEF B
  <2>2. Append(B, h) \in Seq(Frame) /\ Len(Append(B, h)) = Len(B) + 1 /\ Append(B, h)[Len(B) + 1] = h /\ Len(B) \in Nat
    BY <1>4, <2>1, PushIs DEF B
  <2>3. Append(B, h) # <<>>
    BY <2>2
  <2> QED BY <1>4, <2>2, <2>3 DEF B
<1> HIDE DEF D
<1>8. CallingOK(E, L, M, D, d)
  BY <1>1, <1>5, <1>6 DEF CallingOK
<1>9. \A k \in 1..Len(D) : D[k].fn = "late"
  BY <1>5, <1>7, TopIs
<1> QED BY <1>8, <1>9 DEF D

LEMMA LatePushed ==
    ASSUME Static, Known, Seen, NEW E, NEW L, NEW M, NEW C, NEW d, CallingOK(E, L, M, C, d),
           C # <<>>, NEW f, f = C[Len(C)], f.fn = "late", NEW use \in f.todo, use \notin DOMAIN L, ~free(use)
    PROVE  CallingOK(E, L, M, Append(C, Late(use)), d)
<1>1. /\ TablesOK(E, L, M) /\ CallsOK(E, L, C) /\ AskedOK(E, L, M, C, d)
  BY DEF CallingOK
<1>2. C \in Seq(Frame) /\ LateCall(L, f)
  BY <1>1, TopIs
<1>3. use \in Asked \ DOMAIN L
  BY <1>2, UsersAsked
<1>4. /\ Late(use) \in Frame /\ Late(use).fn = "late" /\ Late(use).def = use
      /\ LateCall(L, Late(use))
  BY <1>3, LateBegun
<1>5. CallsOK(E, L, Append(C, Late(use)))
  <2>1. CallOK(E, L, Late(use)) /\ Above(f, Late(use))
    BY <1>4 DEF CallOK, Above
  <2> QED BY <1>1, <1>4, <2>1, CallsPush
<1>6. AskedOK(E, L, M, Append(C, Late(use)), d)
  BY <1>1, <1>2, <1>4, AskedPush
<1> QED BY <1>1, <1>5, <1>6 DEF CallingOK

(* smart is asked for a def: a call of early above one of late, or only one of      *)
(* them, or none.                                                              *)
LEMMA NoCalls == ASSUME NEW E, NEW L PROVE CallsOK(E, L, <<>>)
<1>1. <<>> \in Seq(Frame) /\ Len(<<>>) = 0
  OBVIOUS
<1> QED BY <1>1 DEF CallsOK

LEMMA SmartAsked ==
    ASSUME Static, Known, Seen, NEW E, NEW L, NEW M, TablesOK(E, L, M), NEW d \in Asked \ DOMAIN M
    PROVE  CallingOK(E, L, M, (IF d \in DOMAIN L THEN <<>> ELSE <<Late(d)>>) \o (IF d \in DOMAIN E THEN <<>> ELSE <<Early(d)>>), d)
<1> DEFINE l == Late(d)
           e == Early(d)
<1>1. d \notin DOMAIN L => l \in Frame /\ l.fn = "late" /\ l.def = d /\ CallOK(E, L, l)
  BY LateBegun DEF CallOK
<1>2. d \notin DOMAIN E => e \in Frame /\ e.fn = "early" /\ e.def = d /\ CallOK(E, L, e)
  BY EarlyBegun DEF CallOK
<1> HIDE DEF l, e
<1>3. CASE d \in DOMAIN L /\ d \in DOMAIN E
  BY <1>3, NoCalls DEF CallingOK, AskedOK
<1>4. CASE d \in DOMAIN L /\ d \notin DOMAIN E
  <2>1. CallsOK(E, L, <<e>>)
    BY <1>2, <1>4 DEF CallsOK
  <2>2. Going("early", d, <<e>>)
    BY <1>2, <1>4 DEF Going
  <2>3. <<>> \o <<e>> = <<e>>
    OBVIOUS
  <2> QED BY <1>4, <2>1, <2>2, <2>3 DEF CallingOK, AskedOK, e
<1>5. CASE d \notin DOMAIN L /\ d \in DOMAIN E
  <2>1. CallsOK(E, L, <<l>>)
    BY <1>1, <1>5 DEF CallsOK
  <2>2. Going("late", d, <<l>>)
    BY <1>1, <1>5 DEF Going
  <2>3. <<l>> \o <<>> = <<l>>
    OBVIOUS
  <2> QED BY <1>5, <2>1, <2>2, <2>3 DEF CallingOK, AskedOK, l
<1>6. CASE d \notin DOMAIN L /\ d \notin DOMAIN E
  <2> DEFINE C == <<l>> \o <<e>>
  <2>1. <<l>> \in Seq(Frame) /\ <<e>> \in Seq(Frame) /\ Len(<<l>>) = 1 /\ Len(<<e>>) = 1
    BY <1>1, <1>2, <1>6
  <2>2. C \in Seq(Frame) /\ Len(C) = 2 /\ C[1] = l /\ C[2] = e
    <3>1. /\ C \in Seq(Frame) /\ Len(C) = Len(<<l>>) + Len(<<e>>)
          /\ \A i \in 1 .. Len(<<l>>) + Len(<<e>>) : C[i] = IF i <= Len(<<l>>) THEN <<l>>[i] ELSE <<e>>[i - Len(<<l>>)]
      <4> HIDE DEF C
      <4>1. C = <<l>> \o <<e>>
        BY DEF C
      <4> QED BY <2>1, <4>1, ConcatProperties
    <3> HIDE DEF C
    <3>2. C[1] = <<l>>[1] /\ C[2] = <<e>>[2 - 1]
      BY <2>1, <3>1
    <3> QED BY <2>1, <3>1, <3>2
  <2> HIDE DEF C
  <2>3. CallsOK(E, L, C)
    BY <1>1, <1>2, <1>6, <2>2 DEF CallsOK, Above
  <2>4. Going("early", d, C) /\ Going("late", d, C)
    BY <1>1, <1>2, <1>6, <2>2 DEF Going
  <2>5. CallingOK(E, L, M, C, d)
    BY <2>3, <2>4 DEF CallingOK, AskedOK
  <2> QED BY <1>6, <2>5 DEF C, l, e
<1> QED BY <1>3, <1>4, <1>5, <1>6

-----------------------------------------------------------------------------
(* smart walks from late up to early.                                          *)
LEMMA WalkStarts ==
    ASSUME Static, Known, NEW E, NEW L, NEW M, TablesOK(E, L, M), NEW d \in Asked \ DOMAIN M, Answered(E, L, d),
           NEW l, l = answer(L, d)
    PROVE  WalkOK(E, L, M, [def |-> d, e |-> E[d], i |-> l, s |-> l])
<1>1. Order /\ entry \in Nodes
  BY OrderIs DEF Static
<1>2. EarlyRight(E, d, E[d]) /\ (d \in DOMAIN L => LateRight(L, d, L[d]))
  BY DEF TablesOK, EarlyOK, LateOK, Answered
<1>3. l \in Nodes /\ dominates(E[d], l)
  <2>1. CASE d \in DOMAIN L
    BY <1>2, <2>1 DEF answer, EarlyRight, LateRight
  <2>2. CASE d \notin DOMAIN L
    <3>1. free(d) /\ l = entry /\ E[d] = entry
      BY <1>2, <2>2 DEF answer, EarlyRight, Answered
    <3> QED BY <1>1, <3>1 DEF Order
  <2> QED BY <2>1, <2>2
<1>4. Best(l, l, l)
  <2>1. \A n \in Nodes : dominates(l, n) /\ dominates(n, l) => n = l
    BY <1>1, <1>3 DEF Order
  <2> QED BY <1>1, <1>3, <2>1 DEF Best, Order
<1> QED BY <1>3, <1>4 DEF WalkOK

(* Up one step, and what has come to the nodes from there down is one node.      *)
LEMMA WalkOn ==
    ASSUME Static, NEW e \in Nodes, NEW i \in Nodes, dominates(e, i), i # e, NEW s, NEW l, l \in Nodes, Best(s, i, l)
    PROVE  /\ idom(i) # i /\ idom(i) \in Nodes /\ dominates(e, idom(i))
           /\ Best(Nearer(idom(i), s), idom(i), l)
<1>1. Order /\ entry \in Nodes /\ \A n \in Nodes : flow.loop[n] \in Nat
  BY OrderIs DEF Static
<1>2. i # entry
  BY <1>1 DEF Order
<1> DEFINE C == Dominators(i) \ {i}
           j == Last(C)
<1>3. idom(i) = j
  BY <1>2 DEF idom
<1>4. C \in SUBSET Nodes /\ e \in C /\ \A c \in C : dominates(c, i)
  BY DEF Dominators
<1>5. \A n \in Nodes : dominates(n, i) /\ n # i => n \in C
  BY DEF Dominators
<1>6. i \notin C
  OBVIOUS
<1>7. j \in C /\ \A x \in C : dominates(x, j)
  <2> HIDE DEF C
  <2> QED BY <1>4, LastIs
<1> HIDE DEF C, j
<1>8. j # i /\ j \in Nodes /\ dominates(e, j) /\ dominates(j, i)
  BY <1>4, <1>6, <1>7
<1>9. /\ s \in Nodes /\ dominates(i, s) /\ dominates(s, l)
      /\ \A n \in Nodes : dominates(i, n) /\ dominates(n, l) =>
            flow.loop[s] < flow.loop[n] \/ (flow.loop[s] = flow.loop[n] /\ dominates(n, s))
  BY DEF Best
<1>10. dominates(j, s) /\ dominates(j, l)
  BY <1>1, <1>8, <1>9 DEF Order
<1>11. ASSUME NEW n \in Nodes, dominates(j, n), dominates(n, l) PROVE n = j \/ dominates(i, n)
  <2>1. dominates(i, l)
    BY <1>1, <1>9 DEF Order
  <2>2. dominates(i, n) \/ dominates(n, i)
    BY <1>1, <1>11, <2>1 DEF Order
  <2>3. CASE dominates(n, i) /\ n # i
    <3>1. dominates(n, j)
      BY <1>5, <1>7, <2>3
    <3> QED BY <1>1, <1>8, <1>11, <3>1 DEF Order
  <2> QED BY <1>1, <2>2, <2>3 DEF Order
<1>12. CASE flow.loop[j] < flow.loop[s]
  <2>1. Nearer(j, s) = j
    BY <1>12 DEF Nearer
  <2>2. ASSUME NEW n \in Nodes, dominates(j, n), dominates(n, l)
        PROVE  flow.loop[j] < flow.loop[n] \/ (flow.loop[j] = flow.loop[n] /\ dominates(n, j))
    <3>1. CASE n = j
      BY <1>1, <1>8, <3>1 DEF Order
    <3>2. CASE n # j
      <4>1. flow.loop[s] < flow.loop[n] \/ flow.loop[s] = flow.loop[n]
        BY <1>9, <1>11, <2>2, <3>2
      <4>2. flow.loop[s] \in Nat /\ flow.loop[n] \in Nat /\ flow.loop[j] \in Nat
        BY <1>1, <1>8, <1>9
      <4> QED BY <1>12, <4>1, <4>2
    <3> QED BY <3>1, <3>2
  <2>3. dominates(j, j)
    BY <1>1, <1>8 DEF Order
  <2>4. Best(j, j, l)
    BY <1>8, <1>10, <2>2, <2>3 DEF Best
  <2> QED BY <1>3, <1>8, <2>1, <2>4
<1>13. CASE ~(flow.loop[j] < flow.loop[s])
  <2>1. Nearer(j, s) = s
    BY <1>13 DEF Nearer
  <2>2. ASSUME NEW n \in Nodes, dominates(j, n), dominates(n, l)
        PROVE  flow.loop[s] < flow.loop[n] \/ (flow.loop[s] = flow.loop[n] /\ dominates(n, s))
    <3>1. CASE n = j
      <4>1. flow.loop[s] \in Nat /\ flow.loop[j] \in Nat
        BY <1>1, <1>8, <1>9
      <4> QED BY <1>10, <1>13, <3>1, <4>1
    <3>2. CASE n # j
      BY <1>9, <1>11, <2>2, <3>2
    <3> QED BY <3>1, <3>2
  <2>3. Best(s, j, l)
    BY <1>9, <1>10, <2>2 DEF Best
  <2> QED BY <1>3, <1>8, <2>1, <2>3
<1> QED BY <1>12, <1>13

LEMMA WalkEnds ==
    ASSUME NEW E, NEW L, NEW M, SmartOK(E, L, M), NEW a, WalkOK(E, L, M, a), a.i = a.e
    PROVE  SmartOK(E, L, Put(M, a.def, a.s))
<1> DEFINE N == Put(M, a.def, a.s)
<1>1. a.def \in Asked \ DOMAIN M /\ Answered(E, L, a.def) /\ Best(a.s, E[a.def], answer(L, a.def))
  BY DEF WalkOK
<1>2. DOMAIN N = {a.def} \cup DOMAIN M /\ N[a.def] = a.s /\ Extends(M, N)
  BY <1>1, PutIs
<1> HIDE DEF N
<1>3. SmartOK(E, L, N)
  BY <1>1, <1>2 DEF SmartOK, Extends
<1> QED BY <1>3 DEF N

-----------------------------------------------------------------------------
(* The constructor.                                                            *)
LEMMA Collected ==
    ASSUME Static, NEW Q, NEW T, UsesOK(Q, T), NEW def \in Q, NEW ops, ops = Enqueued(def), NEW V,
           V = [d \in DOMAIN T \cup ops |-> (IF d \in DOMAIN T THEN T[d] ELSE {}) \cup (IF d \in ops THEN {def} ELSE {})]
    PROVE  UsesOK((Q \ {def}) \cup (ops \ DOMAIN T), V)
<1> DEFINE met    == Nodes \cup DOMAIN T
           looked == met \ Q
           W      == (Q \ {def}) \cup (ops \ DOMAIN T)
<1>1. /\ Q \subseteq met /\ met \subseteq Visited /\ DOMAIN T \cap g.noms = {}
      /\ \A u \in looked : Enqueued(u) \subseteq DOMAIN T
      /\ \A d \in DOMAIN T : T[d] = {u \in looked : d \in Enqueued(u)} /\ T[d] # {}
  BY DEF UsesOK
<1>2. ops \subseteq Visited /\ ops \cap g.noms = {} /\ Nodes \subseteq g.noms
  <2>1. def \in Visited /\ Visited \subseteq Defs
    BY <1>1, VisitedIs
  <2>2. ops \subseteq Visited /\ ops \cap g.noms = {}
    BY <2>1, VisitedIs, KindsAre
  <2> QED BY <2>2 DEF Static
<1>3. DOMAIN V = DOMAIN T \cup ops
  OBVIOUS
<1>4. (Nodes \cup DOMAIN V) \ W = looked \cup {def}
  BY <1>1, <1>2, <1>3
<1>5. W \subseteq Nodes \cup DOMAIN V
  BY <1>1, <1>3
<1>6. \A u \in looked \cup {def} : Enqueued(u) \subseteq DOMAIN V
  BY <1>1, <1>3
<1>7. ASSUME NEW d \in DOMAIN V PROVE V[d] = {u \in looked \cup {def} : d \in Enqueued(u)} /\ V[d] # {}
  <2>1. V[d] = (IF d \in DOMAIN T THEN T[d] ELSE {}) \cup (IF d \in ops THEN {def} ELSE {})
    BY <1>3
  <2>2. d \in DOMAIN T \/ d \in ops
    BY <1>3
  <2>3. (IF d \in DOMAIN T THEN T[d] ELSE {}) = {u \in looked : d \in Enqueued(u)}
    BY <1>1
  <2>4. V[d] = {u \in looked : d \in Enqueued(u)} \cup (IF d \in Enqueued(def) THEN {def} ELSE {})
    BY <2>1, <2>3
  <2>5. V[d] # {}
    BY <1>1, <2>1, <2>2
  <2> HIDE DEF looked
  <2> QED BY <2>4, <2>5
<1>8. Nodes \cup DOMAIN V \subseteq Visited /\ DOMAIN V \cap g.noms = {}
  BY <1>1, <1>2, <1>3
<1> HIDE DEF W, looked, met
<1>9. UsesOK(W, V)
  BY <1>4, <1>5, <1>6, <1>7, <1>8 DEF UsesOK
<1> QED BY <1>9 DEF W

LEMMA AllCollected ==
    ASSUME Static, UsesOK(queue, def2uses_), queue = {}
    PROVE  UsesDone
<1> DEFINE met == Nodes \cup DOMAIN def2uses_
<1>1. /\ met \subseteq Visited /\ DOMAIN def2uses_ \cap g.noms = {}
      /\ \A u \in met : Enqueued(u) \subseteq DOMAIN def2uses_
      /\ \A d \in DOMAIN def2uses_ : def2uses_[d] = {u \in met : d \in Enqueued(u)} /\ def2uses_[d] # {}
  BY DEF UsesOK
<1>2. Visited \subseteq met
  BY <1>1, VisitedIs
<1> HIDE DEF met
<1>3. met = Visited
  BY <1>1, <1>2
<1> QED BY <1>1, <1>3 DEF UsesDone, met

-----------------------------------------------------------------------------
(* What does not change with the tables, the calls or the walk.                  *)
LEMMA SameProgram ==
    ASSUME UNCHANGED <<g, entry, flow>>
    PROVE  /\ Static' = Static /\ Local' = Local /\ Nodes' = Nodes /\ Visited' = Visited /\ Roots' = Roots
           /\ \A a, b : dominates(a, b)' = dominates(a, b)
           /\ \A d : Enqueued(d)' = Enqueued(d) /\ free(d)' = free(d) /\ At(d)' = At(d) /\ Span(d)' = Span(d)
           /\ \A a : depth(a)' = depth(a)
           /\ \A Q, T : UsesOK(Q, T)' = UsesOK(Q, T)
<1>1. Nodes' = Nodes
  BY DEF Nodes
<1>2. \A a, b : dominates(a, b)' = dominates(a, b)
  BY DEF dominates
<1>3. \A d : Enqueued(d)' = Enqueued(d) /\ free(d)' = free(d)
  BY DEF Enqueued, free
<1>4. \A a : Dominators(a)' = Dominators(a)
  BY <1>1, <1>2 DEF Dominators
<1>5. \A a : depth(a)' = depth(a)
  BY <1>4 DEF depth
<1>6. Uses' = Uses /\ UsesBeyond' = UsesBeyond
  BY <1>3 DEF Uses, UsesBeyond
<1>7. Visited' = Visited
  BY <1>1, <1>6 DEF Visited
<1>8. Roots' = Roots
  BY <1>1, <1>7 DEF Roots
<1>9. \A d : At(d)' = At(d) /\ Span(d)' = Span(d)
  BY <1>3, <1>6 DEF At, Span
<1>10. VarsVisible' = VarsVisible
  BY <1>1, <1>2, <1>8, <1>9 DEF VarsVisible
<1>11. Static' = Static
  BY <1>1, <1>10 DEF Static
<1>12. \A Q, T : UsesOK(Q, T)' = UsesOK(Q, T)
  BY <1>1, <1>3, <1>7 DEF UsesOK
<1>13. Local' = Local
  BY <1>1 DEF Local
<1> QED BY <1>1, <1>2, <1>3, <1>5, <1>7, <1>8, <1>9, <1>11, <1>12, <1>13

LEMMA SameTables ==
    ASSUME UNCHANGED <<g, entry, flow, queue, def2uses_>>
    PROVE  /\ UsesDone' = UsesDone
           /\ \A E, L, M : TablesOK(E, L, M)' = TablesOK(E, L, M)
           /\ \A E, L, M, C, d : CallingOK(E, L, M, C, d)' = CallingOK(E, L, M, C, d)
           /\ \A E, L, M, a : WalkOK(E, L, M, a)' = WalkOK(E, L, M, a)
<1>1. /\ Nodes' = Nodes /\ Visited' = Visited /\ Roots' = Roots
      /\ \A a, b : dominates(a, b)' = dominates(a, b)
      /\ \A d : Enqueued(d)' = Enqueued(d) /\ free(d)' = free(d) /\ At(d)' = At(d) /\ Span(d)' = Span(d)
      /\ \A a : depth(a)' = depth(a)
  BY SameProgram
<1>2. UsesDone' = UsesDone
  BY <1>1 DEF UsesDone
<1>3. Asked' = Asked
  BY <1>1 DEF Asked
<1>4. \A d : UsedOps(d)' = UsedOps(d)
  BY DEF UsedOps
<1>5. \A c, d : Covers(c, d)' = Covers(c, d)
  BY <1>1 DEF Covers
<1>6. \A d : IsVar(d)' = IsVar(d) /\ IsNom(d)' = IsNom(d) /\ Compound(d)' = Compound(d) /\ Inner(d)' = Inner(d)
  BY <1>1 DEF IsVar, IsNom, Compound, Inner
<1>7. \A E, d : Deepest(E, d)' = Deepest(E, d)
  BY <1>1, <1>4 DEF Deepest
<1>8. \A E, d, n : EarlyRight(E, d, n)' = EarlyRight(E, d, n)
  BY <1>1, <1>4, <1>5, <1>6, <1>7 DEF EarlyRight
<1>9. \A E : EarlyOK(E)' = EarlyOK(E)
  BY <1>3, <1>8 DEF EarlyOK
<1>10. \A L, u : LateOf(L, u)' = LateOf(L, u)
  BY <1>1 DEF LateOf
<1>11. \A L, c, U : Highest(L, c, U)' = Highest(L, c, U)
  BY <1>1, <1>10 DEF Highest
<1>12. \A L, U : Settled(L, U)' = Settled(L, U)
  BY <1>1 DEF Settled
<1>13. \A L, d, n : LateRight(L, d, n)' = LateRight(L, d, n)
  BY <1>1, <1>5, <1>6, <1>11, <1>12 DEF LateRight
<1>14. \A L : LateOK(L)' = LateOK(L)
  BY <1>3, <1>13 DEF LateOK
<1>15. \A E, f : EarlyCall(E, f)' = EarlyCall(E, f)
  BY <1>1, <1>3, <1>4, <1>6 DEF EarlyCall
<1>16. \A L, f : LateCall(L, f)' = LateCall(L, f)
  BY <1>1, <1>3, <1>6, <1>11, <1>12 DEF LateCall
<1>17. \A E, L, f : CallOK(E, L, f)' = CallOK(E, L, f)
  BY <1>15, <1>16 DEF CallOK
<1>18. Frame' = Frame /\ \A f, h : Above(f, h)' = Above(f, h)
  BY <1>1 DEF Frame, Above
<1>19. \A E, L, C : CallsOK(E, L, C)' = CallsOK(E, L, C)
  BY <1>17, <1>18 DEF CallsOK
<1>20. \A E, L, M, C, d : AskedOK(E, L, M, C, d)' = AskedOK(E, L, M, C, d)
  BY <1>1, <1>3 DEF AskedOK
<1>21. \A s, i, l : Best(s, i, l)' = Best(s, i, l)
  BY <1>1 DEF Best
<1>22. \A E, L, d : Answered(E, L, d)' = Answered(E, L, d)
  BY <1>1 DEF Answered
<1>23. \A L, d : answer(L, d)' = answer(L, d)
  BY DEF answer
<1>24. \A E, L, M : SmartOK(E, L, M)' = SmartOK(E, L, M)
  BY <1>3, <1>21, <1>22, <1>23 DEF SmartOK
<1>25. \A E, L, M : TablesOK(E, L, M)' = TablesOK(E, L, M)
  BY <1>9, <1>14, <1>24 DEF TablesOK
<1>26. \A E, L, M, C, d : CallingOK(E, L, M, C, d)' = CallingOK(E, L, M, C, d)
  BY <1>19, <1>20, <1>25 DEF CallingOK
<1>27. \A E, L, M, a : WalkOK(E, L, M, a)' = WalkOK(E, L, M, a)
  BY <1>1, <1>3, <1>21, <1>22, <1>23 DEF WalkOK
<1> QED BY <1>2, <1>25, <1>26, <1>27

-----------------------------------------------------------------------------
LEMMA InitInv == ScopesOK /\ IsFiniteSet(Defs) /\ Init => IInv
<1> SUFFICES ASSUME ScopesOK, IsFiniteSet(Defs), Init PROVE IInv
  OBVIOUS
<1>1. PICK s \in Scopes : /\ g = s.g /\ entry = s.entry
                          /\ flow = [succs |-> s.succs, loop |-> s.loop, bound |-> Bound(s.g, s.entry), dom |-> Dominated(s)]
  BY DEF Init
<1>2. /\ flow.succs = s.succs /\ flow.loop = s.loop /\ flow.bound = Bound(g, entry) /\ flow.dom = Dominated(s)
      /\ Nodes = DOMAIN s.succs
  BY <1>1 DEF Nodes
<1>3. Dominated(s) = Dominated([entry |-> entry, succs |-> flow.succs])
  <2> DEFINE H == [entry |-> entry, succs |-> flow.succs]
  <2>1. H.entry = s.entry /\ H.succs = s.succs
    BY <1>1, <1>2
  <2> HIDE DEF H
  <2>2. NodesOf(H) = NodesOf(s) /\ \A a : Around(H, a) = Around(s, a)
    BY <2>1 DEF NodesOf, Around
  <2>3. Dominated(H) = Dominated(s)
    BY <2>2 DEF Dominated
  <2> QED BY <2>3 DEF H
<1>4. Static
  <2>1. /\ IsProgram(s.g) /\ DefsOf(s.g) = Defs /\ 0 \notin Defs
        /\ s.entry \in Nodes /\ Nodes \subseteq s.g.noms
        /\ s.succs \in [Nodes -> SUBSET Nodes] /\ Reach(s.succs, {s.entry}) = Nodes
        /\ s.loop \in [Nodes -> Nat]
        /\ Nodes \ {s.entry} \subseteq Bound(s.g, s.entry)
    BY <1>2 DEF ScopesOK
  <2>2. VarsVisible
    BY DEF Init
  <2> QED BY <1>1, <1>2, <1>3, <2>1, <2>2 DEF Static
<1>5. UsesOK(Nodes, <<>>)
  <2>1. Nodes \subseteq Visited /\ DOMAIN <<>> = {}
    BY <1>4, VisitedIs
  <2> QED BY <2>1 DEF UsesOK
<1>6. at \in Local
  BY DEF Init, Local, Nobody
<1> QED BY <1>4, <1>5, <1>6 DEF IInv, Constructing, Init

LEMMA ConstructorInv == IInv /\ (Collect \/ Constructed) => IInv'
<1> SUFFICES ASSUME IInv, Collect \/ Constructed PROVE IInv'
  OBVIOUS
<1>1. /\ pc = "uses" /\ UNCHANGED <<g, entry, flow, early_, late_, smart_, calls, at>>
  BY DEF Collect, Constructed
<1>2. Static /\ Constructing /\ at \in Local
  BY <1>1 DEF IInv
<1>3. Static' /\ at' \in Local' /\ \A Q, T : UsesOK(Q, T)' = UsesOK(Q, T)
  BY <1>1, <1>2, SameProgram
<1>4. CASE Collect
  <2>1. PICK def \in queue : \E ops \in {Enqueued(def)} :
          /\ def2uses_' = [d \in DOMAIN def2uses_ \cup ops |->
                              (IF d \in DOMAIN def2uses_ THEN def2uses_[d] ELSE {})
                                  \cup (IF d \in ops THEN {def} ELSE {})]
          /\ queue' = (queue \ {def}) \cup (ops \ DOMAIN def2uses_)
    BY <1>4 DEF Collect
  <2>2. UsesOK(queue', def2uses_')
    <3> DEFINE ops == Enqueued(def)
    <3>1. /\ def2uses_' = [d \in DOMAIN def2uses_ \cup ops |->
                              (IF d \in DOMAIN def2uses_ THEN def2uses_[d] ELSE {})
                                  \cup (IF d \in ops THEN {def} ELSE {})]
          /\ queue' = (queue \ {def}) \cup (ops \ DOMAIN def2uses_)
      BY <2>1
    <3>2. UsesOK(queue, def2uses_)
      BY <1>2 DEF Constructing
    <3> HIDE DEF ops
    <3> QED BY <1>2, <3>1, <3>2, Collected DEF ops
  <2>3. UsesOK(queue, def2uses_)'
    BY <1>3, <2>2
  <2> QED BY <1>1, <1>2, <1>3, <1>4, <2>3 DEF IInv, Constructing, Collect
<1>5. CASE Constructed
  <2>1. queue = {} /\ pc' = "ready" /\ UNCHANGED <<queue, def2uses_>>
    BY <1>5 DEF Constructed
  <2>2. UsesDone
    BY <1>2, <2>1, AllCollected DEF Constructing
  <2>3. TablesOK(<<>>, <<>>, <<>>)
    BY DEF TablesOK, EarlyOK, LateOK, SmartOK
  <2>4. UsesDone' /\ TablesOK(early_, late_, smart_)'
    BY <1>1, <1>2, <2>1, <2>2, <2>3, SameTables DEF Constructing
  <2> QED BY <1>1, <1>2, <1>3, <2>1, <2>4 DEF IInv, Constructing
<1> QED BY <1>4, <1>5

(* All other steps leave the constructor's work alone.                          *)
Beside == UNCHANGED <<g, entry, flow, queue, def2uses_>>

LEMMA CallInv ==
    ASSUME IInv, Beside, pc = "calls", UNCHANGED <<pc, at, smart_>>,
           Static /\ Known /\ Seen /\ CallingOK(early_, late_, smart_, calls, at.def)
               => CallingOK(early_', late_', smart_, calls', at.def)
    PROVE  IInv'
<1>1. Static /\ UsesDone /\ CallingOK(early_, late_, smart_, calls, at.def)
  BY DEF IInv
<1>2. CallingOK(early_', late_', smart_', calls', at'.def)
  BY <1>1, KnownIs, SeenIs
<1>3. Static' /\ UsesDone' /\ CallingOK(early_, late_, smart_, calls, at.def)'
  BY <1>1, <1>2, SameProgram, SameTables DEF Beside
<1>4. at' \in Local' /\ pc' = "calls"
  BY SameProgram DEF Beside, IInv
<1> QED BY <1>3, <1>4 DEF IInv

LEMMA SetTopIs ==
    ASSUME Top \in Frame, NEW x, NEW r
    PROVE  SetTop(x, r) = Append(Popped(calls), After(Top, x, r))
<1>1. [Top EXCEPT !.todo = @ \ {x}, !.result = r] = After(Top, x, r)
  BY AfterIs
<1> QED BY <1>1 DEF SetTop, Callers, Popped

LEMMA EarlyInv == IInv /\ (EarlyOp \/ EarlyReturn) => IInv'
<1> SUFFICES ASSUME IInv, EarlyOp \/ EarlyReturn PROVE IInv'
  OBVIOUS
<1>1. /\ Beside /\ pc = "calls" /\ UNCHANGED <<pc, at, smart_, late_>> /\ calls # <<>> /\ Top.fn = "early"
  BY DEF EarlyOp, EarlyReturn, Beside, Inside
<1>2. Top = calls[Len(calls)] /\ Callers = Popped(calls)
  BY DEF Top, Callers, Popped
<1>5. Top \in Frame
  BY <1>1, <1>2, TopIs DEF IInv, CallingOK
<1>3. CASE EarlyOp
  <2>1. early_' = early_
    BY <1>3 DEF EarlyOp
  <2>2. PICK op \in Top.todo :
          calls' = IF op \in DOMAIN early_ THEN SetTop(op, deeper(Top.result, early_[op]))
                   ELSE Append(calls, Early(op))
    BY <1>3 DEF EarlyOp
  <2>3. CASE op \in DOMAIN early_
    <3>1. calls' = Append(Popped(calls), After(Top, op, deeper(Top.result, early_[op])))
      BY <1>5, <2>2, <2>3, SetTopIs
    <3>2. Static /\ Known /\ Seen /\ CallingOK(early_, late_, smart_, calls, at.def)
              => CallingOK(early_, late_, smart_, calls', at.def)
      BY <1>1, <1>2, <2>3, <3>1, EarlyLooked
    <3> QED BY <1>1, <2>1, <3>2, CallInv
  <2>4. CASE op \notin DOMAIN early_
    <3>1. calls' = Append(calls, Early(op))
      BY <2>2, <2>4
    <3>2. Static /\ Known /\ Seen /\ CallingOK(early_, late_, smart_, calls, at.def)
              => CallingOK(early_, late_, smart_, calls', at.def)
      BY <1>1, <1>2, <2>4, <3>1, EarlyPushed
    <3> QED BY <1>1, <2>1, <3>2, CallInv
  <2> QED BY <2>3, <2>4
<1>4. CASE EarlyReturn
  <2>1. Top.todo = {} /\ early_' = Put(early_, Top.def, Top.result) /\ calls' = Popped(calls)
    BY <1>2, <1>4 DEF EarlyReturn
  <2>2. Static /\ Known /\ Seen /\ CallingOK(early_, late_, smart_, calls, at.def)
            => CallingOK(early_', late_, smart_, calls', at.def)
    BY <1>1, <1>2, <2>1, EarlyReturned
  <2> QED BY <1>1, <2>2, CallInv
<1> QED BY <1>3, <1>4

LEMMA LateInv == IInv /\ (LateUse \/ LateReturn) => IInv'
<1> SUFFICES ASSUME IInv, LateUse \/ LateReturn PROVE IInv'
  OBVIOUS
<1>1. /\ Beside /\ pc = "calls" /\ UNCHANGED <<pc, at, smart_>> /\ calls # <<>> /\ Top.fn = "late"
  BY DEF LateUse, LateReturn, Beside, Inside
<1>2. Top = calls[Len(calls)] /\ Callers = Popped(calls)
  BY DEF Top, Callers, Popped
<1>5. Top \in Frame
  BY <1>1, <1>2, TopIs DEF IInv, CallingOK
<1>3. CASE LateUse
  <2>1. late_' = late_
    BY <1>3 DEF LateUse
  <2>2. PICK use \in Top.todo :
          \/ /\ use \in DOMAIN late_
             /\ calls' = SetTop(use, Join(Top.result, late_[use]))
             /\ UNCHANGED early_
          \/ /\ use \notin DOMAIN late_ /\ free(use)
             /\ calls' = SetTop(use, Join(Top.result, entry))
             /\ early_' = Put(early_, use, entry)
          \/ /\ use \notin DOMAIN late_ /\ ~free(use)
             /\ calls' = Append(calls, Late(use))
             /\ UNCHANGED early_
    BY <1>3 DEF LateUse
  <2>3. CASE use \in DOMAIN late_ \/ free(use)
    <3> DEFINE n == LateOf(late_, use)
               h == After(Top, use, Join(Top.result, n))
               D == Append(Popped(calls), h)
    <3>1. ASSUME Static, Known, Seen, CallingOK(early_, late_, smart_, calls, at.def)
          PROVE  CallingOK(early_', late_, smart_, calls', at.def)
      <4>1. CallingOK(early_, late_, smart_, D, at.def) /\ \A k \in 1..Len(D) : D[k].fn = "late"
        <5>1. n = LateOf(late_, use) /\ h = After(Top, use, Join(Top.result, n))
          OBVIOUS
        <5> HIDE DEF n, h
        <5> QED BY <1>1, <1>2, <2>3, <3>1, <5>1, LateLooked
      <4>2. CASE use \in DOMAIN late_
        <5>1. LateOf(late_, use) = late_[use]
          BY <3>1, <4>2 DEF LateOf, CallingOK, TablesOK, LateOK, LateRight
        <5>2. early_' = early_ /\ calls' = D
          BY <1>5, <2>2, <4>2, <5>1, SetTopIs
        <5> HIDE DEF D
        <5> QED BY <4>1, <5>2
      <4>3. CASE use \notin DOMAIN late_
        <5>1. free(use) /\ LateOf(late_, use) = entry
          BY <2>3, <4>3 DEF LateOf
        <5>2. early_' = Put(early_, use, entry) /\ calls' = D
          BY <1>5, <2>2, <4>3, <5>1, SetTopIs
        <5>3. use \in Asked
          <6>1. LateCall(late_, Top)
            BY <1>1, <1>2, <3>1, TopIs DEF CallingOK
          <6> QED BY <3>1, <6>1, UsersAsked
        <5> HIDE DEF D
        <5> QED BY <3>1, <4>1, <5>1, <5>2, <5>3, FreeWritten
      <4> QED BY <4>2, <4>3
    <3> QED BY <1>1, <2>1, <3>1, CallInv
  <2>4. CASE use \notin DOMAIN late_ /\ ~free(use)
    <3>1. calls' = Append(calls, Late(use)) /\ early_' = early_
      BY <2>2, <2>4
    <3>2. Static /\ Known /\ Seen /\ CallingOK(early_, late_, smart_, calls, at.def)
              => CallingOK(early_, late_, smart_, calls', at.def)
      BY <1>1, <1>2, <2>4, <3>1, LatePushed
    <3> QED BY <1>1, <2>1, <3>1, <3>2, CallInv
  <2> QED BY <2>3, <2>4
<1>4. CASE LateReturn
  <2>1. /\ Top.todo = {} /\ calls' = Popped(calls)
        /\ free(Top.def) => early_' = Put(early_, Top.def, Top.result) /\ late_' = late_
        /\ ~free(Top.def) => late_' = Put(late_, Top.def, Top.result) /\ early_' = early_
    BY <1>2, <1>4 DEF LateReturn
  <2>2. Static /\ Known /\ Seen /\ CallingOK(early_, late_, smart_, calls, at.def)
            => CallingOK(early_', late_', smart_, calls', at.def)
    BY <1>1, <1>2, <2>1, LateReturned, FreeReturned
  <2> QED BY <1>1, <2>2, CallInv
<1> QED BY <1>3, <1>4

LEMMA AskInv == ASSUME IInv, NEW d \in Asked, Ask(d) PROVE IInv'
<1>1. /\ Beside /\ pc = "ready" /\ pc' = "calls" /\ UNCHANGED <<early_, late_, smart_>>
      /\ d \notin DOMAIN smart_ /\ at' = [Nobody EXCEPT !.def = d]
      /\ calls' = (IF d \in DOMAIN late_ THEN <<>> ELSE <<Late(d)>>) \o (IF d \in DOMAIN early_ THEN <<>> ELSE <<Early(d)>>)
  BY DEF Ask, Beside
<1>2. Static /\ UsesDone /\ TablesOK(early_, late_, smart_)
  BY <1>1 DEF IInv
<1>3. CallingOK(early_, late_, smart_, calls', d)
  BY <1>1, <1>2, KnownIs, SeenIs, SmartAsked
<1>4. at'.def = d
  BY <1>1 DEF Nobody
<1>5. Static' /\ UsesDone' /\ CallingOK(early_, late_, smart_, calls, at.def)'
  BY <1>1, <1>2, <1>3, <1>4, SameProgram, SameTables DEF Beside
<1>6. at' \in Local'
  <2>1. Local' = Local /\ d \in Defs
    BY <1>1, <1>2, SameProgram, KnownIs DEF Beside, Known
  <2> QED BY <1>1, <2>1 DEF Local, Nobody
<1> QED BY <1>1, <1>5, <1>6 DEF IInv

LEMMA WalkInv == IInv /\ (StartWalk \/ Walk \/ Place) => IInv'
<1> SUFFICES ASSUME IInv, StartWalk \/ Walk \/ Place PROVE IInv'
  OBVIOUS
<1>1. Beside /\ UNCHANGED <<early_, late_, calls>> /\ (StartWalk \/ Walk => UNCHANGED smart_)
  BY DEF StartWalk, Walk, Place, Beside
<1>2. Static /\ UsesDone /\ Static' /\ UsesDone' /\ Known /\ Local' = Local
      /\ (\A E, L, M : TablesOK(E, L, M)' = TablesOK(E, L, M))
      /\ (\A E, L, M, a : WalkOK(E, L, M, a)' = WalkOK(E, L, M, a))
  <2>1. Static /\ UsesDone
    BY DEF IInv, StartWalk, Walk, Place
  <2> QED BY <1>1, <2>1, KnownIs, SameProgram, SameTables DEF Beside
<1>3. CASE StartWalk
  <2>1. pc = "calls" /\ calls = <<>> /\ pc' = "walk"
        /\ at' = [def |-> at.def, e |-> early_[at.def], i |-> answer(late_, at.def), s |-> answer(late_, at.def)]
    BY <1>3 DEF StartWalk
  <2>2. TablesOK(early_, late_, smart_) /\ AskedOK(early_, late_, smart_, <<>>, at.def)
    BY <2>1 DEF IInv, CallingOK
  <2>3. at.def \in Asked \ DOMAIN smart_ /\ Answered(early_, late_, at.def)
    BY <2>2 DEF AskedOK, Going, Answered
  <2>4. WalkOK(early_, late_, smart_, at')
    BY <1>2, <2>1, <2>2, <2>3, KnownIs, WalkStarts
  <2>5. at' \in Local
    <3>1. at.def \in Defs /\ answer(late_, at.def) \in Nodes /\ early_[at.def] \in Nodes
      BY <1>2, <2>2, <2>3 DEF Known, answer, TablesOK, LateOK, LateRight, EarlyOK, EarlyRight, Answered
    <3> QED BY <2>1, <3>1 DEF Local
  <2> QED BY <1>1, <1>2, <1>3, <2>1, <2>2, <2>4, <2>5 DEF IInv
<1>4. CASE Walk
  <2>1. pc = "walk" /\ at.i # at.e
    BY <1>4 DEF Walk
  <2>2. TablesOK(early_, late_, smart_) /\ calls = <<>> /\ WalkOK(early_, late_, smart_, at)
    BY <2>1 DEF IInv
  <2> DEFINE l == answer(late_, at.def)
  <2>3. at.e \in Nodes /\ at.i \in Nodes /\ l \in Nodes /\ dominates(at.e, at.i) /\ Best(at.s, at.i, l)
    <3>1. entry \in Nodes
      BY <1>2 DEF Static
    <3> QED BY <2>2, <3>1 DEF WalkOK, Answered, TablesOK, EarlyOK, EarlyRight, LateOK, LateRight, answer
  <2> HIDE DEF l
  <2>4. /\ idom(at.i) # at.i /\ idom(at.i) \in Nodes /\ dominates(at.e, idom(at.i))
        /\ Best(Nearer(idom(at.i), at.s), idom(at.i), l)
    BY <1>2, <2>1, <2>3, WalkOn
  <2>5. at' = [at EXCEPT !.i = idom(at.i), !.s = Nearer(idom(at.i), @)] /\ pc' = "walk"
    BY <1>4, <2>1, <2>4 DEF Walk
  <2>6. WalkOK(early_, late_, smart_, at')
    <3>1. at'.def = at.def /\ at'.e = at.e /\ at'.i = idom(at.i) /\ at'.s = Nearer(idom(at.i), at.s)
      BY <2>5 DEF IInv, Local
    <3> QED BY <2>2, <2>4, <3>1 DEF WalkOK, l
  <2>7. at' \in Local
    <3>1. Nearer(idom(at.i), at.s) \in Nodes
      BY <2>4 DEF Best
    <3>2. at \in Local
      BY DEF IInv
    <3> QED BY <2>4, <2>5, <3>1, <3>2 DEF Local
  <2> QED BY <1>1, <1>2, <1>4, <2>2, <2>5, <2>6, <2>7 DEF IInv
<1>5. CASE Place
  <2>1. pc = "walk" /\ at.i = at.e /\ pc' = "ready" /\ smart_' = Put(smart_, at.def, at.s)
    BY <1>5 DEF Place
  <2>2. TablesOK(early_, late_, smart_) /\ calls = <<>> /\ WalkOK(early_, late_, smart_, at)
    BY <2>1 DEF IInv
  <2>3. TablesOK(early_, late_, smart_')
    BY <2>1, <2>2, WalkEnds DEF TablesOK
  <2>4. at' \in Local
    BY <1>5 DEF Place, Local, Nobody
  <2> QED BY <1>1, <1>2, <2>1, <2>2, <2>3, <2>4 DEF IInv
<1> QED BY <1>3, <1>4, <1>5

(* The invariant, whatever is asked for and in whatever order.                   *)
THEOREM Invariance == ScopesOK /\ IsFiniteSet(Defs) /\ Spec => []IInv
<1>1. ASSUME IInv, UNCHANGED vars PROVE IInv'
  <2>1. Beside /\ UNCHANGED <<early_, late_, smart_, calls, at, pc>>
    BY <1>1 DEF vars, Beside
  <2>2. /\ Static' = Static /\ Local' = Local /\ UsesDone' = UsesDone
        /\ \A Q, T : UsesOK(Q, T)' = UsesOK(Q, T)
        /\ \A E, L, M : TablesOK(E, L, M)' = TablesOK(E, L, M)
        /\ \A E, L, M, C, d : CallingOK(E, L, M, C, d)' = CallingOK(E, L, M, C, d)
        /\ \A E, L, M, a : WalkOK(E, L, M, a)' = WalkOK(E, L, M, a)
    BY <2>1, SameProgram, SameTables DEF Beside
  <2> QED BY <1>1, <2>1, <2>2 DEF IInv, Constructing, Beside
<1>2. IInv /\ [Next]_vars => IInv'
  BY <1>1, ConstructorInv, AskInv, EarlyInv, LateInv, WalkInv DEF Next
<1> QED BY InitInv, <1>2, PTL DEF Spec

-----------------------------------------------------------------------------
THEOREM Types == ScopesOK /\ IsFiniteSet(Defs) /\ Spec => []TypeOK
<1>1. IInv => TypeOK
  <2> SUFFICES ASSUME IInv PROVE TypeOK
    OBVIOUS
  <2>1. pc \in {"uses", "ready", "calls", "walk", "astray"}
    BY DEF IInv
  <2>2. CASE pc = "uses"
    <3>1. Static /\ UsesOK(queue, def2uses_) /\ early_ = <<>> /\ late_ = <<>> /\ smart_ = <<>> /\ calls = <<>>
      BY <2>2 DEF IInv, Constructing
    <3>2. Visited \subseteq Defs
      BY <3>1, VisitedIs
    <3>3. /\ queue \subseteq Defs /\ DOMAIN def2uses_ \subseteq Defs
          /\ \A d \in DOMAIN def2uses_ : def2uses_[d] \subseteq Defs
      BY <3>1, <3>2 DEF UsesOK
    <3>4. \A table \in {early_, late_, smart_} : DOMAIN table = {}
      BY <3>1
    <3>5. DOMAIN calls = {}
      BY <3>1
    <3> QED BY <2>1, <3>3, <3>4, <3>5 DEF TypeOK
  <2>3. CASE pc # "uses"
    <3>1. Static /\ UsesDone /\ TablesOK(early_, late_, smart_)
      BY <2>3 DEF IInv, CallingOK
    <3>2. Known
      BY <3>1, KnownIs
    <3>3. /\ queue \subseteq Defs /\ DOMAIN def2uses_ \subseteq Defs
          /\ \A d \in DOMAIN def2uses_ : def2uses_[d] \subseteq Defs
      BY <3>1, <3>2 DEF UsesDone, Known
    <3>4. /\ DOMAIN early_ \subseteq Defs /\ \A d \in DOMAIN early_ : early_[d] \in Nodes
          /\ DOMAIN late_ \subseteq Defs /\ \A d \in DOMAIN late_ : late_[d] \in Nodes
          /\ DOMAIN smart_ \subseteq Defs /\ \A d \in DOMAIN smart_ : smart_[d] \in Nodes
      BY <3>1, <3>2 DEF Known, TablesOK, EarlyOK, EarlyRight, LateOK, LateRight, SmartOK, Best
    <3>5. CallsOK(early_, late_, calls)
      BY <2>3, NoCalls DEF IInv, CallingOK
    <3>6. ASSUME NEW k \in DOMAIN calls
          PROVE  /\ calls[k].fn \in {"early", "late"} /\ calls[k].def \in Asked
                 /\ calls[k].todo \subseteq Asked
                 /\ calls[k].result \in Nodes \cup {None}
      <4>1. calls \in Seq(Frame) /\ k \in 1..Len(calls) /\ calls[k] \in Frame /\ CallOK(early_, late_, calls[k])
        BY <3>5, <3>6, ElementOfSeq, LenProperties DEF CallsOK
      <4>2. CASE calls[k].fn = "early"
        <5>1. EarlyCall(early_, calls[k])
          BY <4>1, <4>2 DEF CallOK
        <5>2. calls[k].todo \subseteq Asked
          <6>1. CASE Compound(calls[k].def)
            BY <5>1, <6>1 DEF EarlyCall, UsedOps, Asked
          <6>2. CASE ~Compound(calls[k].def)
            BY <5>1, <6>2 DEF EarlyCall, Compound, IsVar
          <6> QED BY <6>1, <6>2
        <5> QED BY <4>1, <5>1, <5>2 DEF Frame, EarlyCall
      <4>3. CASE calls[k].fn = "late"
        <5>1. LateCall(late_, calls[k])
          BY <4>1, <4>3 DEF CallOK
        <5> QED BY <3>2, <4>1, <5>1, UsersAsked DEF Frame, LateCall
      <4> QED BY <4>1, <4>2, <4>3 DEF Frame
    <3> QED BY <2>1, <3>3, <3>4, <3>6 DEF TypeOK
  <2> QED BY <2>2, <2>3
<1> QED BY <1>1, Invariance, PTL

(* The constructor finds all users of all defs.                                 *)
THEOREM AllUses == ScopesOK /\ IsFiniteSet(Defs) /\ Spec => []UsesFound
<1>1. IInv => UsesFound
  <2> SUFFICES ASSUME IInv, pc # "uses"
               PROVE  /\ DOMAIN def2uses_ = Visited \ Nodes
                      /\ \A d \in DOMAIN def2uses_ : def2uses_[d] = {u \in Visited : d \in Enqueued(u)} /\ def2uses_[d] # {}
    BY DEF UsesFound
  <2>1. Static /\ UsesDone
    BY DEF IInv
  <2> QED BY <2>1, KnownIs DEF Known
<1> QED BY <1>1, Invariance, PTL

(* smart always comes to early: the assertion in its loop holds.                *)
THEOREM Meets == ScopesOK /\ IsFiniteSet(Defs) /\ Spec => []MeetsEarly
<1>1. IInv => MeetsEarly
  BY DEF IInv, MeetsEarly, WalkOK
<1> QED BY <1>1, Invariance, PTL

(* What smart has placed lies between early and late, in as few loops as possible  *)
(* and no further up than that takes.                                          *)
LEMMA TablesAre == ASSUME IInv, pc # "uses" PROVE Static /\ Known /\ Seen /\ TablesOK(early_, late_, smart_)
<1>1. Static /\ UsesDone /\ TablesOK(early_, late_, smart_)
  BY DEF IInv, CallingOK
<1> QED BY <1>1, KnownIs, SeenIs

LEMMA NonePlaced == ASSUME IInv, pc = "uses" PROVE early_ = <<>> /\ late_ = <<>> /\ smart_ = <<>>
BY DEF IInv, Constructing

THEOREM Placed == ScopesOK /\ IsFiniteSet(Defs) /\ Spec => []WellPlaced
<1>1. IInv => WellPlaced
  <2> SUFFICES ASSUME IInv, NEW d \in DOMAIN smart_
               PROVE  LET Path == {n \in Nodes : dominates(early_[d], n) /\ dominates(n, answer(late_, d))}
                      IN  /\ smart_[d] \in Path
                          /\ \A n \in Path : \/ flow.loop[smart_[d]] < flow.loop[n]
                                             \/ flow.loop[smart_[d]] = flow.loop[n] /\ dominates(n, smart_[d])
    BY DEF WellPlaced
  <2>1. pc # "uses"
    BY NonePlaced
  <2>2. Best(smart_[d], early_[d], answer(late_, d))
    BY <2>1, TablesAre DEF TablesOK, SmartOK
  <2> QED BY <2>2 DEF Best
<1> QED BY <1>1, Invariance, PTL

(* early is further down for what uses a def than for the def itself.             *)
LEMMA EarlyDescends ==
    ASSUME Static, Known, Seen, TablesOK(early_, late_, smart_), NEW d \in DOMAIN smart_, Compound(d),
           NEW op \in Enqueued(d)
    PROVE  /\ op \in DOMAIN early_ /\ d \in DOMAIN late_ /\ d \in Visited
           /\ early_[op] \in Nodes /\ early_[d] \in Nodes /\ late_[d] \in Nodes
           /\ dominates(early_[op], early_[d]) /\ Best(smart_[d], early_[d], late_[d])
<1>1. Order /\ entry \in Nodes
  BY OrderIs DEF Static
<1>2. /\ EarlyOK(early_) /\ LateOK(late_) /\ Answered(early_, late_, d) /\ Best(smart_[d], early_[d], answer(late_, d))
      /\ d \in Asked
  BY DEF TablesOK, SmartOK
<1>3. ~free(d) /\ d \notin Vars(g) /\ d \in Visited
  BY <1>2 DEF Compound, Known
<1>4. d \in DOMAIN late_ /\ Best(smart_[d], early_[d], late_[d]) /\ late_[d] \in Nodes
  BY <1>2, <1>3 DEF Answered, answer, LateOK, LateRight
<1>5. EarlyRight(early_, d, early_[d])
  BY <1>2 DEF EarlyOK, Answered
<1>6. op \in UsedOps(d) /\ op \in DOMAIN early_ /\ early_[d] \in Deepest(early_, d) /\ early_[d] \in Nodes
  BY <1>3, <1>5 DEF EarlyRight, Known
<1>7. EarlyRight(early_, op, early_[op])
  BY <1>2, <1>6 DEF EarlyOK
<1> DEFINE a == early_[op]
           b == early_[d]
<1>8. a \in Nodes /\ b \in Nodes
  BY <1>6, <1>7 DEF EarlyRight
<1>9. CASE free(op)
  <2>1. a = entry
    BY <1>7, <1>9 DEF EarlyRight
  <2> QED BY <1>1, <1>3, <1>4, <1>6, <1>8, <2>1 DEF Order
<1>10. CASE ~free(op)
  <2>1. Covers(a, op)
    BY <1>7, <1>10 DEF EarlyRight
  <2>2. Covers(a, d)
    BY <1>3, <2>1, CoversUp
  <2>3. dominates(a, late_[d])
    BY <1>2, <1>4, <1>8, <2>2 DEF LateOK, LateRight
  <2>4. dominates(b, late_[d])
    BY <1>1, <1>4, <1>8 DEF Best, Order
  <2>5. dominates(a, b) \/ dominates(b, a)
    BY <1>1, <1>4, <1>8, <2>3, <2>4 DEF Order
  <2>6. depth(a) <= depth(b)
    BY <1>6 DEF Deepest
  <2>7. dominates(a, b)
    <3> SUFFICES ASSUME ~dominates(a, b) PROVE FALSE
      OBVIOUS
    <3>1. dominates(b, a) /\ a # b
      BY <1>1, <1>8, <2>5 DEF Order
    <3>2. depth(b) < depth(a) /\ depth(b) \in Nat /\ depth(a) \in Nat
      BY <1>8, <3>1, DepthIs
    <3> QED BY <2>6, <3>2
  <2> QED BY <1>3, <1>4, <1>6, <1>8, <2>7
<1> QED BY <1>9, <1>10 DEF Compound

(* The def itself is placed above what uses it, though loops have moved both.     *)
LEMMA OperandAbove ==
    ASSUME Static, Known, Seen, TablesOK(early_, late_, smart_), NEW d \in DOMAIN smart_, Compound(d),
           NEW op \in Operands(d)
    PROVE  dominates(smart_[op], smart_[d])
<1>1. Order /\ entry \in Nodes
  BY OrderIs DEF Static
<1>2. op \in Enqueued(d) /\ op \in DOMAIN smart_ /\ op \notin Vars(g)
  BY DEF Operands
<1>3. /\ d \in DOMAIN late_ /\ d \in Visited /\ early_[op] \in Nodes /\ early_[d] \in Nodes /\ late_[d] \in Nodes
      /\ dominates(early_[op], early_[d]) /\ Best(smart_[d], early_[d], late_[d])
  BY <1>2, EarlyDescends
<1>4. /\ EarlyOK(early_) /\ LateOK(late_) /\ Answered(early_, late_, op)
      /\ Best(smart_[op], early_[op], answer(late_, op)) /\ op \in Asked
  BY <1>2 DEF TablesOK, SmartOK
<1> DEFINE s == smart_[op]
           t == smart_[d]
<1>5. s \in Nodes /\ t \in Nodes
  BY <1>3, <1>4 DEF Best
<1>6. CASE free(op)
  <2>1. op \notin DOMAIN late_
    BY <1>4, <1>6 DEF LateOK, LateRight
  <2>2. answer(late_, op) = entry
    BY <2>1 DEF answer
  <2>3. s = entry
    BY <1>1, <1>4, <1>5, <2>2 DEF Best, Order
  <2> QED BY <1>1, <1>5, <2>3 DEF Order
<1>7. CASE ~free(op)
  <2>1. op \in DOMAIN late_ /\ LateRight(late_, op, late_[op])
    BY <1>4, <1>7 DEF Answered, LateOK
  <2>2. Inner(op) /\ d \in def2uses_[op]
    BY <1>2, <1>3, <1>7 DEF Known, Inner, Compound
  <2>3. dominates(late_[op], late_[d]) /\ late_[op] \in Nodes
    BY <2>1, <2>2 DEF LateRight, Highest, LateOf, Compound
  <2>4. Best(s, early_[op], late_[op])
    BY <1>4, <2>1 DEF answer
  <2>5. dominates(s, late_[d]) /\ dominates(t, late_[d])
    BY <1>1, <1>3, <1>5, <2>3, <2>4 DEF Best, Order
  <2>6. dominates(s, t) \/ dominates(t, s)
    BY <1>1, <1>3, <1>5, <2>5 DEF Order
  <2>7. CASE dominates(t, s)
    <3>1. dominates(early_[d], t) /\ dominates(early_[op], t) /\ dominates(s, late_[op]) /\ dominates(t, late_[op])
      BY <1>1, <1>3, <1>5, <2>3, <2>4, <2>7 DEF Best, Order
    <3>2. flow.loop[s] < flow.loop[t] \/ (flow.loop[s] = flow.loop[t] /\ dominates(t, s))
      BY <1>5, <2>4, <3>1 DEF Best
    <3>3. dominates(early_[d], s)
      BY <1>1, <1>3, <1>5, <2>7, <3>1 DEF Order
    <3>4. flow.loop[t] < flow.loop[s] \/ (flow.loop[t] = flow.loop[s] /\ dominates(s, t))
      BY <1>3, <1>5, <2>5, <3>3 DEF Best
    <3>5. flow.loop[t] \in Nat /\ flow.loop[s] \in Nat
      BY <1>5 DEF Static
    <3> QED BY <3>2, <3>4, <3>5
  <2> QED BY <2>6, <2>7
<1> QED BY <1>6, <1>7

(* What is placed is there before it is used, by what has been placed, by the Vars  *)
(* it needs and by the nominals themselves.                                     *)
THEOREM BeforeUse == ScopesOK /\ IsFiniteSet(Defs) /\ Spec => []DefBeforeUse
<1>1. IInv => DefBeforeUse
  <2> SUFFICES ASSUME IInv PROVE DefBeforeUse
    OBVIOUS
  <2>1. CASE pc = "uses"
    <3>1. smart_ = <<>> /\ DOMAIN smart_ = {}
      BY <2>1, NonePlaced
    <3> QED BY <3>1 DEF DefBeforeUse, Operands
  <2>2. CASE pc # "uses"
    <3>1. Static /\ Known /\ Seen /\ TablesOK(early_, late_, smart_) /\ Order /\ entry \in Nodes
      BY <2>2, TablesAre, OrderIs DEF Static
    <3>2. ASSUME NEW d \in (DOMAIN smart_ \cap Asked) \ (Vars(g) \cup {e \in Defs : free(e)})
          PROVE  /\ \A op \in Operands(d) : dominates(smart_[op], smart_[d])
                 /\ \A n \in VarsOf(d) : dominates(n, smart_[d])
      <4>1. d \in DOMAIN smart_ /\ Compound(d)
        BY <3>1 DEF Known, Compound
      <4>2. \A op \in Operands(d) : dominates(smart_[op], smart_[d])
        BY <3>1, <4>1, OperandAbove
      <4>3. ASSUME NEW v \in Enqueued(d) \cap Vars(g) PROVE dominates(nom(g, v), smart_[d])
        <5>1. /\ v \in DOMAIN early_ /\ early_[v] \in Nodes /\ early_[d] \in Nodes /\ late_[d] \in Nodes /\ d \in Visited
              /\ dominates(early_[v], early_[d]) /\ Best(smart_[d], early_[d], late_[d])
          BY <3>1, <4>1, EarlyDescends
        <5>2. v \in Visited /\ IsVar(v)
          BY <3>1, <5>1 DEF Known, IsVar
        <5>3. early_[v] = nom(g, v)
          BY <3>1, <5>1, <5>2 DEF TablesOK, EarlyOK, EarlyRight
        <5> QED BY <3>1, <5>1, <5>3 DEF Best, Order
      <4> QED BY <4>2, <4>3 DEF VarsOf
    <3>3. ASSUME NEW n \in Nodes, NEW op \in Operands(n) PROVE dominates(smart_[op], n)
      <4>1. op \in Enqueued(n) /\ op \in DOMAIN smart_ /\ op \notin Vars(g) /\ n \in Visited
        BY <3>1 DEF Operands, Known
      <4>2. /\ LateOK(late_) /\ Answered(early_, late_, op) /\ op \in Asked
            /\ EarlyOK(early_) /\ Best(smart_[op], early_[op], answer(late_, op))
        BY <3>1, <4>1 DEF TablesOK, SmartOK
      <4>3. early_[op] \in Nodes /\ smart_[op] \in Nodes /\ dominates(smart_[op], answer(late_, op))
        BY <4>2 DEF EarlyOK, EarlyRight, Answered, Best
      <4>4. CASE free(op)
        <5>1. answer(late_, op) = entry
          BY <4>2, <4>4 DEF LateOK, LateRight, answer
        <5> QED BY <3>1, <4>3, <5>1 DEF Order
      <4>5. CASE ~free(op)
        <5>1. op \in DOMAIN late_ /\ LateRight(late_, op, late_[op]) /\ answer(late_, op) = late_[op]
          BY <4>2, <4>5 DEF Answered, LateOK, answer
        <5>2. Inner(op) /\ n \in def2uses_[op]
          BY <3>1, <4>1, <4>5 DEF Known, Inner, Compound
        <5>3. dominates(late_[op], LateOf(late_, n)) /\ late_[op] \in Nodes /\ (n \in DOMAIN late_ \/ free(n))
          BY <5>1, <5>2 DEF LateRight, Highest, Settled
        <5>4. LateOf(late_, n) = n
          <6>1. CASE free(n)
            BY <3>1, <6>1 DEF LateOf, Known
          <6>2. CASE ~free(n)
            <7>1. IsNom(n) /\ n \in DOMAIN late_
              BY <3>1, <5>3, <6>2 DEF IsNom, Static
            <7> QED BY <4>2, <6>2, <7>1 DEF LateOf, LateOK, LateRight
          <6> QED BY <6>1, <6>2
        <5> QED BY <3>1, <4>3, <5>1, <5>3, <5>4 DEF Order
      <4> QED BY <4>4, <4>5
    <3> QED BY <3>2, <3>3 DEF DefBeforeUse
  <2> QED BY <2>1, <2>2
<1> QED BY <1>1, Invariance, PTL

(* The tables hold what the calls would find without them.                       *)
THEOREM Agree == ScopesOK /\ IsFiniteSet(Defs) /\ Spec => []TablesAgree
<1>1. IInv => TablesAgree
  <2> SUFFICES ASSUME IInv PROVE TablesAgree
    OBVIOUS
  <2>1. CASE pc = "uses"
    <3>1. early_ = <<>> /\ late_ = <<>> /\ DOMAIN early_ = {} /\ DOMAIN late_ = {}
      BY <2>1, NonePlaced
    <3> QED BY <3>1 DEF TablesAgree
  <2>2. CASE pc # "uses"
    <3>1. Static /\ Known /\ Seen /\ EarlyOK(early_) /\ LateOK(late_)
      BY <2>2, TablesAre DEF TablesOK
    <3>2. ASSUME NEW d \in DOMAIN early_
          PROVE  IF free(d) THEN early_[d] = entry
                 ELSE IF d \in Vars(g) THEN early_[d] = nom(g, d)
                 ELSE UsedOps(d) \subseteq DOMAIN early_ /\ early_[d] \in Deepest(early_, d)
      BY <3>1 DEF EarlyOK, EarlyRight, IsVar, Compound
    <3>3. ASSUME NEW d \in DOMAIN late_
          PROVE  IF d \in g.noms THEN late_[d] = d
                 ELSE IF d \in Vars(g) THEN late_[d] = nom(g, d)
                 ELSE LET U == {LateOf(late_, u) : u \in def2uses_[d]}
                      IN  late_[d] = Last({c \in Nodes : \A u \in U : dominates(c, u)})
      <4>1. LateRight(late_, d, late_[d]) /\ ~free(d)
        BY <3>1 DEF LateOK, LateRight
      <4>2. CASE IsNom(d) \/ IsVar(d)
        <5>1. ~(d \in g.noms /\ d \in Vars(g))
          BY <3>1, KindsAre
        <5> QED BY <4>1, <4>2, <5>1 DEF LateRight, IsNom, IsVar
      <4>3. CASE Inner(d)
        <5> DEFINE U == {LateOf(late_, u) : u \in def2uses_[d]}
                   C == {c \in Nodes : \A u \in U : dominates(c, u)}
        <5>1. Highest(late_, late_[d], def2uses_[d])
          BY <4>1, <4>3 DEF LateRight
        <5>2. late_[d] \in C /\ \A c \in C : dominates(c, late_[d])
          BY <5>1 DEF Highest
        <5>3. C \in SUBSET Nodes /\ late_[d] \in Nodes
          BY <5>2
        <5> HIDE DEF C
        <5>4. late_[d] = Last(C)
          BY <3>1, <5>2, <5>3, LastIs
        <5> QED BY <4>3, <5>4 DEF C, Inner, Compound
      <4> QED BY <4>1, <4>2, <4>3 DEF IsNom, IsVar, Inner, Compound
    <3> QED BY <3>2, <3>3 DEF TablesAgree
  <2> QED BY <2>1, <2>2
<1> QED BY <1>1, Invariance, PTL

(* All that is promised of the scheduler.                                       *)
THEOREM Sound == ScopesOK /\ IsFiniteSet(Defs) /\ Spec => []ScheduleSound
<1>1. UsesFound /\ WellPlaced /\ DefBeforeUse /\ TablesAgree /\ TypeOK /\ MeetsEarly => ScheduleSound
  BY DEF ScheduleSound
<1> QED BY <1>1, Types, AllUses, Meets, Placed, BeforeUse, Agree, PTL
=============================================================================
