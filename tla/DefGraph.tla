------------------------------ MODULE DefGraph ------------------------------
(***************************************************************************)
(* Graphs: a program as the analyses see it, and the control-flow graph that  *)
(* CFA makes of it, with the textbook definitions they are compared with.    *)
(***************************************************************************)
EXTENDS Integers, FiniteSets, FiniteSetTheorems, WellFoundedInduction, TLAPS

(* The least set that holds S and is closed under next, which maps each element *)
(* to a set of elements: by definition, and round by round as a worklist finds  *)
(* it.                                                                         *)
IsClosed(next, S) == \A d \in S : next[d] \subseteq S

Least(next, S) ==
    {d \in DOMAIN next : \A C \in SUBSET DOMAIN next : S \subseteq C /\ IsClosed(next, C) => d \in C}

Reach(next, S) ==
    LET round[i \in 0..Cardinality(DOMAIN next)] ==
            IF i = 0 THEN S
            ELSE LET R == round[i-1] IN R \cup UNION {next[d] : d \in R}
    IN  round[Cardinality(DOMAIN next)]

-----------------------------------------------------------------------------
(* G.succs[n] are the successors of n; all nodes lie between entry and exit.      *)
NodesOf(G)   == DOMAIN G.succs
preds(G, n)  == {p \in NodesOf(G) : n \in G.succs[p]}
Preds(G)     == [n \in NodesOf(G) |-> preds(G, n)]
Forward(G)   == [entry |-> G.entry, exit |-> G.exit, succs |-> G.succs, preds |-> Preds(G)]
Backward(G)  == [entry |-> G.exit, exit |-> G.entry, succs |-> Preds(G), preds |-> G.succs]

IsFlowGraph(G) ==
    /\ preds(G, G.entry) = {} /\ G.succs[G.exit] = {}
    /\ Reach(G.succs, {G.entry}) = NodesOf(G)
    /\ Reach(Preds(G), {G.exit}) = NodesOf(G)

(* a is on every path from the entry to b.                                     *)
Around(G, a) == IF a = G.entry THEN {}
                ELSE Reach([n \in NodesOf(G) |-> G.succs[n] \ {a}], {G.entry})
Dominated(G) == [a \in NodesOf(G) |-> NodesOf(G) \ Around(G, a)]

(* The loops by definition: in the nodes S, with the edges to H ignored, those   *)
(* that reach n and are reached from it; in them, the loops without the edges    *)
(* to the nodes that are entered from outside.  The depth of n is the number of  *)
(* those around it, the whole graph included.                                  *)
Within(G, S, H) == [n \in S |-> (G.succs[n] \cap S) \ H]
Loop(E, n)      == {m \in Reach(E, E[n]) : n \in Reach(E, E[m])}
Entered(G, C)   == {n \in C : \E p \in NodesOf(G) \ C : n \in G.succs[p]}
LoopDepth(G, n) ==
    LET around[i \in 0..Cardinality(NodesOf(G))] ==
            IF i = 0 THEN NodesOf(G)
            ELSE LET S == around[i-1]
                 IN  IF n \in S THEN Loop(Within(G, S, IF i = 1 THEN {} ELSE Entered(G, S)), n) ELSE {}
    IN  Cardinality({i \in DOMAIN around : n \in around[i]})

-----------------------------------------------------------------------------
(* A program as the analyses see it, which change nothing in it: the defs, which *)
(* of them are nominals or Vars, and the operands of each.  Types and debug info  *)
(* are operands like any other.                                                *)

(* g.noms are the nominals, g.var maps those that have a Var to it, g.ops maps *)
(* each def to its operands and g.const are the defs whose flags are dep_const. *)
DefsOf(g) == DOMAIN g.ops
IsProgram(g) ==
    /\ g.ops \in [DefsOf(g) -> SUBSET DefsOf(g)]
    /\ g.noms \subseteq DefsOf(g)
    /\ DOMAIN g.var \subseteq g.noms
    /\ \A n \in DOMAIN g.var : g.var[n] \in DefsOf(g) \ (g.noms \cup g.const) /\ n \in g.ops[g.var[n]]
    /\ g.const \subseteq DefsOf(g) \ g.noms
    /\ \A d \in g.const : g.ops[d] \subseteq g.const

Vars(g)    == {g.var[n] : n \in DOMAIN g.var}
uses(g, d) == {u \in DefsOf(g) : d \in g.ops[u]}
is_set(g, n) == g.ops[n] # {}

(* The nominal that a Var belongs to.                                          *)
nom(g, v) == CHOOSE n \in DOMAIN g.var : g.var[n] = v

Ops(g)   == [d \in DefsOf(g) |-> g.ops[d]]
Users(g) == [d \in DefsOf(g) |-> uses(g, d)]

(* What depends on the Var of n without going through n, and what n reaches of *)
(* it through such defs: the defs that are bound in n.                         *)
UsersBeside(g, n) == [d \in DefsOf(g) |-> uses(g, d) \ {n}]
OpsWithin(g, D)   == [d \in DefsOf(g) |-> g.ops[d] \cap D]

Dependent(g, n)    == IF n \in DOMAIN g.var THEN Reach(UsersBeside(g, n), {g.var[n]}) ELSE {}
LiveOf(g, n, D)    == Reach(OpsWithin(g, D), g.ops[n] \cap D)
Bound(g, n)        == LiveOf(g, n, Dependent(g, n))

-----------------------------------------------------------------------------
(* What TLAPS proves of Least and Reach.                                         *)

(* The least closed set around S: it holds S, it is closed, and it lies within  *)
(* every set of which that can be said.                                        *)
LEMMA LeastIs ==
    ASSUME NEW next, NEW E, next \in [E -> SUBSET E], NEW S \in SUBSET E
    PROVE  /\ S \subseteq Least(next, S) /\ Least(next, S) \subseteq E
           /\ IsClosed(next, Least(next, S))
           /\ \A C \in SUBSET E : S \subseteq C /\ IsClosed(next, C) => Least(next, S) \subseteq C
<1>1. DOMAIN next = E
  OBVIOUS
<1>2. Least(next, S) \subseteq E
  BY <1>1 DEF Least
<1>3. S \subseteq Least(next, S)
  BY <1>1 DEF Least
<1>4. \A C \in SUBSET E : S \subseteq C /\ IsClosed(next, C) => Least(next, S) \subseteq C
  BY <1>1 DEF Least
<1>5. IsClosed(next, Least(next, S))
  <2> SUFFICES ASSUME NEW d \in Least(next, S), NEW e \in next[d]
               PROVE  e \in Least(next, S)
    BY DEF IsClosed
  <2>1. d \in E /\ e \in E
    BY <1>2
  <2>2. ASSUME NEW C \in SUBSET E, S \subseteq C, IsClosed(next, C) PROVE e \in C
    <3>1. d \in C
      BY <2>2, <1>4
    <3> QED BY <2>2, <3>1 DEF IsClosed
  <2> QED BY <1>1, <2>1, <2>2 DEF Least
<1> QED BY <1>2, <1>3, <1>4, <1>5

(* Every non-empty set of naturals has a least member.                        *)
LEMMA Smallest ==
    ASSUME NEW T \in SUBSET Nat, T # {}
    PROVE  \E x \in T : \A y \in T : x <= y
<1> DEFINE R == {p \in Nat \X Nat : p[1] < p[2]}
<1>1. IsWellFoundedOn(R, Nat)
  BY NatLessThanWellFounded DEF OpToRel
<1>2. PICK x \in T : \A y \in T : ~ (<<y, x>> \in R)
  BY <1>1, WFMin
<1>3. ASSUME NEW y \in T PROVE x <= y
  <2>1. ~ (<<y, x>> \in R)
    BY <1>2
  <2>2. x \in Nat /\ y \in Nat /\ ~(y < x)
    BY <2>1
  <2> QED BY <2>2
<1> QED BY <1>3

(* One more round of a worklist, and the rounds up to m.                        *)
More(next, R)         == R \cup UNION {next[d] : d \in R}
Rounds(f, next, S, m) == f = [i \in 0..m |-> IF i = 0 THEN S ELSE More(next, f[i-1])]

(* There are such rounds, so that those of Reach are.                           *)
LEMMA RoundsAre ==
    ASSUME NEW next, NEW S, Cardinality(DOMAIN next) \in Nat
    PROVE  \E f : Rounds(f, next, S, Cardinality(DOMAIN next)) /\ Reach(next, S) = f[Cardinality(DOMAIN next)]
<1> DEFINE N == Cardinality(DOMAIN next)
<1>1. ASSUME NEW m \in Nat PROVE \E f : Rounds(f, next, S, m)
  <2> DEFINE Bad == {k \in Nat : ~\E f : Rounds(f, next, S, k)}
  <2> SUFFICES ASSUME Bad # {} PROVE FALSE
    BY <1>1
  <2>1. PICK k \in Bad : \A l \in Bad : k <= l
    <3>1. Bad \in SUBSET Nat
      OBVIOUS
    <3> HIDE DEF Bad
    <3> QED BY <3>1, Smallest
  <2>2. CASE k = 0
    <3>1. Rounds([l \in 0..0 |-> S], next, S, 0)
      BY DEF Rounds
    <3> QED BY <2>2, <3>1
  <2>3. CASE k # 0
    <3>1. k \in Nat /\ k - 1 \in Nat /\ k - 1 \notin Bad
      BY <2>1, <2>3
    <3>2. PICK f : Rounds(f, next, S, k - 1)
      BY <3>1
    <3> DEFINE h == [l \in 0..k |-> IF l = k THEN More(next, f[k-1]) ELSE f[l]]
    <3>3. f = [l \in 0..k-1 |-> IF l = 0 THEN S ELSE More(next, f[l-1])]
      BY <3>2 DEF Rounds
    <3>4. ASSUME NEW l \in 0..k PROVE h[l] = IF l = 0 THEN S ELSE More(next, h[l-1])
      <4>1. CASE l = k
        <5>1. h[l] = More(next, f[k-1]) /\ k - 1 \in 0..k /\ k - 1 # k
          BY <3>1, <4>1
        <5>2. h[l-1] = f[k-1]
          BY <4>1, <5>1
        <5> QED BY <2>3, <4>1, <5>1, <5>2
      <4>2. CASE l # k
        <5>1. l \in 0..k-1 /\ h[l] = f[l]
          BY <3>1, <4>2
        <5>2. f[l] = IF l = 0 THEN S ELSE More(next, f[l-1])
          BY <3>3, <5>1
        <5>3. l # 0 => l-1 \in 0..k /\ l-1 # k /\ h[l-1] = f[l-1]
          BY <3>1, <4>2
        <5> QED BY <5>1, <5>2, <5>3
      <4> QED BY <4>1, <4>2
    <3>5. Rounds(h, next, S, k)
      BY <3>4 DEF Rounds
    <3> QED BY <3>5
  <2> QED BY <2>2, <2>3
<1> DEFINE r == CHOOSE f : Rounds(f, next, S, N)
<1>2. Rounds(r, next, S, N)
  BY <1>1
<1>3. Reach(next, S) = r[N]
  BY DEF Reach, Rounds, More
<1> QED BY <1>2, <1>3

(* As many rounds as there are elements find all that is to be found: a round   *)
(* that is not the last adds at least one of them.                             *)
THEOREM ReachIs ==
    ASSUME NEW next, NEW E, IsFiniteSet(E), next \in [E -> SUBSET E], NEW S \in SUBSET E
    PROVE  Reach(next, S) = Least(next, S)
<1> DEFINE N == Cardinality(E)
<1>1. DOMAIN next = E /\ N \in Nat
  BY FS_CardinalityType
<1>2. PICK f : Rounds(f, next, S, N) /\ Reach(next, S) = f[N]
  BY <1>1, RoundsAre
<1>3. \A i \in 0..N : f[i] = IF i = 0 THEN S ELSE More(next, f[i-1])
  BY <1>2 DEF Rounds
<1>4. ASSUME NEW i \in 0..N
      PROVE  /\ f[i] \subseteq Least(next, S) /\ S \subseteq f[i] /\ f[i] \subseteq E
             /\ IsClosed(next, f[i]) \/ Cardinality(f[i]) >= i
  <2> DEFINE Ok(k) == /\ f[k] \subseteq Least(next, S) /\ S \subseteq f[k] /\ f[k] \subseteq E
                      /\ IsClosed(next, f[k]) \/ Cardinality(f[k]) >= k
             Bad == {k \in 0..N : ~Ok(k)}
  <2> SUFFICES ASSUME Bad # {} PROVE FALSE
    BY <1>4
  <2>1. PICK k \in Bad : \A l \in Bad : k <= l
    <3>1. Bad \in SUBSET Nat
      BY <1>1
    <3> HIDE DEF Bad
    <3> QED BY <3>1, Smallest
  <2>2. CASE k = 0
    <3>1. f[0] = S
      BY <1>1, <1>3
    <3>2. Cardinality(f[0]) \in Nat
      BY <3>1, FS_Subset, FS_CardinalityType
    <3>3. f[0] \subseteq Least(next, S) /\ S \subseteq f[0] /\ f[0] \subseteq E
      BY <3>1, LeastIs
    <3> QED BY <2>1, <2>2, <3>2, <3>3
  <2>3. CASE k # 0
    <3> DEFINE R == f[k-1]
    <3>1. k \in 1..N /\ k - 1 \in 0..N /\ k - 1 \notin Bad
      BY <1>1, <2>1, <2>3
    <3>2. f[k] = R \cup UNION {next[d] : d \in R}
      <4>1. f[k] = IF k = 0 THEN S ELSE More(next, R)
        BY <1>3, <2>1
      <4> QED BY <2>3, <4>1 DEF More
    <3>3. /\ R \subseteq Least(next, S) /\ S \subseteq R /\ R \subseteq E
          /\ IsClosed(next, R) \/ Cardinality(R) >= k - 1
      BY <3>1
    <3> HIDE DEF R
    <3>4. f[k] \subseteq Least(next, S) /\ S \subseteq f[k] /\ f[k] \subseteq E
      <4>1. IsClosed(next, Least(next, S))
        BY LeastIs
      <4> QED BY <3>2, <3>3, <4>1 DEF IsClosed
    <3>5. CASE IsClosed(next, R)
      <4>1. f[k] = R
        BY <3>2, <3>5 DEF IsClosed
      <4> QED BY <2>1, <3>4, <3>5, <4>1
    <3>6. CASE ~IsClosed(next, R)
      <4>1. R # f[k] /\ R \subseteq f[k]
        BY <3>2, <3>6 DEF IsClosed
      <4>2. IsFiniteSet(f[k]) /\ IsFiniteSet(R)
        BY <3>3, <3>4, FS_Subset
      <4>3. Cardinality(R) <= Cardinality(f[k]) /\ Cardinality(R) # Cardinality(f[k])
        BY <4>1, <4>2, FS_Subset
      <4>4. Cardinality(R) \in Nat /\ Cardinality(f[k]) \in Nat
        BY <4>2, FS_CardinalityType
      <4>5. Cardinality(f[k]) >= k
        BY <3>1, <3>3, <3>6, <4>3, <4>4
      <4> QED BY <2>1, <3>4, <4>5
    <3> QED BY <3>5, <3>6
  <2> QED BY <2>2, <2>3
<1>5. /\ f[N] \subseteq Least(next, S) /\ S \subseteq f[N] /\ f[N] \subseteq E
      /\ IsClosed(next, f[N]) \/ Cardinality(f[N]) >= N
  BY <1>1, <1>4
<1>6. IsClosed(next, f[N])
  <2>1. Cardinality(f[N]) <= N /\ Cardinality(f[N]) \in Nat
    BY <1>5, FS_Subset, FS_CardinalityType
  <2>2. CASE Cardinality(f[N]) >= N
    <3>1. f[N] = E
      BY <1>1, <1>5, <2>1, <2>2, FS_Subset
    <3> QED BY <3>1 DEF IsClosed
  <2> QED BY <1>5, <2>2
<1>7. Least(next, S) \subseteq f[N]
  BY <1>5, <1>6, LeastIs
<1> QED BY <1>2, <1>5, <1>7

(* With more edges and more to start with, no less is found.                    *)
LEMMA LeastGrows ==
    ASSUME NEW E, NEW next, next \in [E -> SUBSET E], NEW S \in SUBSET E,
           NEW next2, next2 \in [E -> SUBSET E], NEW S2 \in SUBSET E,
           S \subseteq S2, \A d \in E : next[d] \subseteq next2[d]
    PROVE  Least(next, S) \subseteq Least(next2, S2)
<1>1. /\ S2 \subseteq Least(next2, S2) /\ Least(next2, S2) \subseteq E
      /\ IsClosed(next2, Least(next2, S2))
  BY LeastIs
<1>2. IsClosed(next, Least(next2, S2))
  BY <1>1 DEF IsClosed
<1> QED BY <1>1, <1>2, LeastIs

(* Different members of S in as many places as it has members are all of them.   *)
LEMMA Onto ==
    ASSUME NEW S, IsFiniteSet(S), NEW f \in [1..Cardinality(S) -> S],
           \A a, b \in 1..Cardinality(S) : a # b => f[a] # f[b]
    PROVE  \A x \in S : \E k \in 1..Cardinality(S) : f[k] = x
<1> DEFINE D == 1..Cardinality(S)
<1> SUFFICES ASSUME NEW x \in S, ~\E k \in D : f[k] = x PROVE FALSE
  OBVIOUS
<1> DEFINE T == S \ {x}
<1>1. f \in [D -> T]
  OBVIOUS
<1>2. IsFiniteSet(T) /\ Cardinality(T) = Cardinality(S) - 1 /\ Cardinality(S) \in Nat
  BY FS_RemoveElement, FS_CardinalityType
<1>3. IsFiniteSet(D) /\ Cardinality(D) = Cardinality(S)
  BY <1>2, FS_Interval
<1>4. Cardinality(T) < Cardinality(D)
  BY <1>2, <1>3
<1>5. \E a, b \in D : a # b /\ f[a] = f[b]
  <2> HIDE DEF D, T
  <2> QED BY <1>1, <1>2, <1>3, <1>4, FS_PigeonHole
<1> QED BY <1>5
=============================================================================
