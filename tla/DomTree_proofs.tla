--------------------------- MODULE DomTree_proofs ---------------------------
(***************************************************************************)
(* What TLAPS proves of DomTree, for any flow graph in either direction, any  *)
(* order of successors and predecessors, and any first guess.               *)
(***************************************************************************)
EXTENDS DomTree, SequenceTheorems

-----------------------------------------------------------------------------
(* A flow graph in one direction.                                              *)
GraphInv ==
    /\ IsFiniteSet(Node)
    /\ G.entry \in Node
    /\ G.succs \in [Node -> SUBSET Node] /\ G.preds \in [Node -> SUBSET Node]
    /\ \A p, n \in Node : n \in G.succs[p] <=> p \in G.preds[n]
    /\ G.preds[G.entry] = {}
    /\ Least(G.succs, {G.entry}) = Node

(* The nodes that have a number, and those that are being visited.              *)
Given == {n \in Node : index[n] # New /\ index[n] # Open}

(* The calls are a path from the entry; numbers are given from the last down,    *)
(* each to one node, after all successors have been visited.  A node was entered *)
(* from a predecessor that gets its number later.                               *)
NumInv ==
    /\ index \in [Node -> {New, Open} \cup 0..size - 1]
    /\ i \in 0..size
    /\ calls \in Seq(Node)
    /\ index[G.entry] # New
    /\ \A k \in 1..Len(calls) : index[calls[k]] = Open
    /\ \A n \in Node : index[n] = Open => \E k \in 1..Len(calls) : calls[k] = n
    /\ \A k, l \in 1..Len(calls) : calls[k] = calls[l] => k = l
    /\ \A k \in 2..Len(calls) : calls[k-1] \in G.preds[calls[k]]
    /\ Len(calls) > 0 => calls[1] = G.entry
    /\ \A n \in Given : index[n] \in i..size - 1
    /\ \A m, n \in Given : index[m] = index[n] => m = n
    /\ \A p \in i..size - 1 : \E n \in Node : index[n] = p
    /\ Cardinality(Given) = size - i
    /\ \A n \in Given : \A s \in G.succs[n] : index[s] # New
    /\ \A n \in Given \ {G.entry} : \E p \in G.preds[n] : index[p] = Open \/ (p \in Starts(n) /\ p \in Given)

(* The numbers are a reverse post order.                                        *)
OrderInv ==
    /\ i = 0 /\ index \in [Node -> 0..size - 1] /\ size \in Nat /\ calls = <<>>
    /\ \A m, n \in Node : index[m] = index[n] => m = n
    /\ \A p \in 0..size - 1 : \E n \in Node : index[n] = p
    /\ \A n \in Node \ {G.entry} : Starts(n) # {}

(* The nodes from n up to the entry.                                           *)
Tree   == [n \in Node |-> {idoms[n]}]
Anc(n) == Least(Tree, {n})

(* The chains descend, and what strictly dominates a node dominates its idom.    *)
TreeInv ==
    /\ idoms \in [Node -> Node] /\ idoms[G.entry] = G.entry
    /\ \A n \in Node \ {G.entry} : index[idoms[n]] < index[n]
    /\ \A n \in Node \ {G.entry} : \A a \in Node \ {n} : n \in Dominated(G)[a] => idoms[n] \in Dominated(G)[a]

(* The idom of n is above all its predecessors.                                 *)
Meets(n) == \A p \in G.preds[n] : idoms[n] \in Anc(p)

(* A sweep that has changed nothing yet has found all idoms as they should be.    *)
SweepInv ==
    /\ pos \in 1..size /\ todo \in BOOLEAN
    /\ ~todo => \A n \in Node \ {G.entry} : index[n] < pos => Meets(n)

DoneInv == pos \in 0..size /\ todo \in BOOLEAN /\ \A n \in Node \ {G.entry} : Meets(n)

IInv ==
    /\ GraphInv
    /\ \/ pc = "number" /\ NumInv /\ pos = 0 /\ todo = FALSE
       \/ pc = "sweep" /\ OrderInv /\ TreeInv /\ SweepInv
       \/ pc = "frontier" /\ OrderInv /\ TreeInv /\ DoneInv
       \/ pc = "done" /\ OrderInv /\ TreeInv /\ DoneInv /\ frontier = [m \in Node |-> {n \in Joins : m \in Linked(n)}]

-----------------------------------------------------------------------------
(* Of dominance.                                                               *)

(* A set of nodes that holds the entry and can only be left through a holds      *)
(* everything around a.                                                        *)
LEMMA AroundIs ==
    ASSUME GraphInv, NEW a \in Node, a # G.entry
    PROVE  /\ G.entry \in Around(G, a) /\ Around(G, a) \subseteq Node
           /\ \A m \in Around(G, a) : G.succs[m] \ {a} \subseteq Around(G, a)
           /\ \A C \in SUBSET Node : G.entry \in C /\ (\A m \in C : G.succs[m] \ {a} \subseteq C)
                                       => Around(G, a) \subseteq C
<1> DEFINE next == [n \in NodesOf(G) |-> G.succs[n] \ {a}]
<1>1. NodesOf(G) = Node /\ next \in [Node -> SUBSET Node] /\ \A n \in Node : next[n] = G.succs[n] \ {a}
  BY DEF GraphInv, NodesOf
<1>2. {G.entry} \in SUBSET Node /\ IsFiniteSet(Node)
  BY DEF GraphInv
<1>3. Around(G, a) = Reach(next, {G.entry})
  BY DEF Around
<1> HIDE DEF next
<1>4. Around(G, a) = Least(next, {G.entry})
  BY <1>1, <1>2, <1>3, ReachIs
<1> QED BY <1>1, <1>2, <1>4, LeastIs DEF IsClosed

LEMMA DominatedIs ==
    ASSUME GraphInv, NEW a \in Node
    PROVE  Dominated(G)[a] = Node \ Around(G, a)
BY DEF GraphInv, Dominated, NodesOf

(* The entry dominates all nodes, and is dominated by no other.                 *)
LEMMA EntryDominates ==
    ASSUME GraphInv
    PROVE  /\ Dominated(G)[G.entry] = Node
           /\ \A a \in Node \ {G.entry} : G.entry \notin Dominated(G)[a]
<1>1. G.entry \in Node
  BY DEF GraphInv
<1>2. Around(G, G.entry) = {}
  BY DEF Around
<1> QED BY <1>1, <1>2, DominatedIs, AroundIs

(* Every node dominates itself, and what strictly dominates a node dominates its  *)
(* predecessors.                                                               *)
LEMMA DominatesSelf == ASSUME GraphInv, NEW n \in Node PROVE n \in Dominated(G)[n]
<1>1. CASE n = G.entry
  BY <1>1, EntryDominates
<1>2. CASE n # G.entry
  <2>1. G.entry \in Node \ {n} /\ \A m \in Node \ {n} : G.succs[m] \ {n} \subseteq Node \ {n}
    BY <1>2 DEF GraphInv
  <2>2. Around(G, n) \subseteq Node \ {n}
    BY <1>2, <2>1, AroundIs
  <2> QED BY <2>2, DominatedIs
<1> QED BY <1>1, <1>2

LEMMA DominatesPreds ==
    ASSUME GraphInv, NEW a \in Node, NEW n \in Node \ {a}, n \in Dominated(G)[a], NEW p \in G.preds[n]
    PROVE  p \in Node /\ p \in Dominated(G)[a]
<1>1. p \in Node /\ n \in G.succs[p]
  BY DEF GraphInv
<1>2. CASE a = G.entry
  BY <1>1, <1>2, EntryDominates
<1>3. CASE a # G.entry
  <2>1. n \notin Around(G, a)
    BY DominatedIs
  <2>2. p \notin Around(G, a)
    BY <1>1, <1>3, <2>1, AroundIs
  <2> QED BY <1>1, <2>2, DominatedIs
<1> QED BY <1>2, <1>3

(* What strictly dominates a node has a smaller number: from a node down the      *)
(* predecessors with smaller numbers is a way that meets it.                     *)
LEMMA DominatesSmaller ==
    ASSUME GraphInv, OrderInv, NEW a \in Node, NEW n \in Node \ {a}, n \in Dominated(G)[a]
    PROVE  index[a] < index[n]
<1>1. CASE a = G.entry
  <2>1. PICK m \in Node : index[m] = 0
    BY DEF OrderInv
  <2>2. m = G.entry
    <3>1. \A p \in Starts(m) : index[p] < 0 /\ index[p] \in 0..size - 1
      BY <2>1 DEF OrderInv, Starts, GraphInv
    <3>2. Starts(m) = {}
      BY <3>1 DEF OrderInv
    <3> QED BY <2>1, <3>2 DEF OrderInv
  <2> QED BY <1>1, <2>1, <2>2 DEF OrderInv
<1>2. CASE a # G.entry
  <2> DEFINE Bad == {m \in Node \ {a} : index[m] < index[a] /\ m \in Dominated(G)[a]}
             T   == {index[m] : m \in Bad}
  <2> SUFFICES ASSUME n \in Bad PROVE FALSE
    BY DEF OrderInv
  <2>1. T \in SUBSET Nat /\ T # {}
    BY DEF OrderInv
  <2>2. PICK x \in T : \A y \in T : x <= y
    <3> HIDE DEF T
    <3> QED BY <2>1, Smallest
  <2>3. PICK m \in Bad : index[m] = x
    OBVIOUS
  <2>4. m # G.entry
    BY <1>2, <2>3, EntryDominates
  <2>5. PICK p \in Starts(m) : TRUE
    BY <2>3, <2>4 DEF OrderInv
  <2>6. p \in G.preds[m] /\ index[p] < index[m] /\ m \in Node \ {a}
    BY <2>3, <2>5 DEF Starts
  <2>7. p \in Node /\ p \in Dominated(G)[a]
    BY <2>3, <2>6, DominatesPreds
  <2>8. index[p] < index[a] /\ p # a
    BY <2>3, <2>6, <2>7 DEF OrderInv
  <2>9. p \in Bad
    BY <2>7, <2>8
  <2>10. index[m] <= index[p]
    BY <2>2, <2>3, <2>9
  <2> QED BY <2>3, <2>6, <2>7, <2>10 DEF OrderInv
<1> QED BY <1>1, <1>2

-----------------------------------------------------------------------------
(* Of the tree.                                                                *)
LEMMA AncIs ==
    ASSUME TreeInv, NEW n \in Node
    PROVE  /\ n \in Anc(n) /\ Anc(n) \subseteq Node
           /\ \A m \in Anc(n) : idoms[m] \in Anc(n)
           /\ \A C \in SUBSET Node : n \in C /\ (\A m \in C : idoms[m] \in C) => Anc(n) \subseteq C
<1>1. Tree \in [Node -> SUBSET Node] /\ \A m \in Node : Tree[m] = {idoms[m]}
  BY DEF TreeInv, Tree
<1>2. {n} \in SUBSET Node
  OBVIOUS
<1> QED BY <1>1, <1>2, LeastIs DEF Anc, IsClosed

(* What is above a node is above what is below it.                              *)
LEMMA AncUp ==
    ASSUME TreeInv, NEW n \in Node, NEW m \in Anc(n)
    PROVE  m \in Node /\ Anc(m) \subseteq Anc(n)
BY AncIs

(* Above a node are the node itself and what is above its idom.                  *)
LEMMA AncSplit ==
    ASSUME TreeInv, NEW n \in Node
    PROVE  /\ idoms[n] \in Node /\ Anc(n) = {n} \cup Anc(idoms[n])
<1>1. idoms[n] \in Node
  BY DEF TreeInv
<1>2. {n} \cup Anc(idoms[n]) \subseteq Anc(n)
  BY <1>1, AncIs, AncUp
<1>3. \A m \in {n} \cup Anc(idoms[n]) : idoms[m] \in {n} \cup Anc(idoms[n])
  BY <1>1, AncIs
<1>4. {n} \cup Anc(idoms[n]) \in SUBSET Node
  BY <1>1, AncIs
<1> QED BY <1>2, <1>3, <1>4, AncIs

LEMMA AncEntry == ASSUME GraphInv, TreeInv PROVE Anc(G.entry) = {G.entry}
<1>1. G.entry \in Node /\ idoms[G.entry] = G.entry
  BY DEF GraphInv, TreeInv
<1>2. {G.entry} \in SUBSET Node /\ \A m \in {G.entry} : idoms[m] \in {G.entry}
  BY <1>1
<1>3. Anc(G.entry) \subseteq {G.entry}
  BY <1>1, <1>2, AncIs
<1> QED BY <1>1, <1>3, AncIs

(* Numbers get smaller on the way up.                                          *)
LEMMA AncSmaller ==
    ASSUME GraphInv, OrderInv, TreeInv, NEW n \in Node, NEW m \in Anc(n)
    PROVE  m \in Node /\ index[m] <= index[n] /\ (m # n => index[m] < index[n])
<1> DEFINE C == {x \in Node : index[x] <= index[n]}
<1>1. n \in C /\ \A x \in C : idoms[x] \in C
  <2>1. n \in C
    BY DEF OrderInv
  <2>2. ASSUME NEW x \in C PROVE idoms[x] \in C
    <3>1. idoms[x] \in Node /\ (x = G.entry \/ index[idoms[x]] < index[x])
      BY DEF TreeInv
    <3>2. idoms[x] = x \/ index[idoms[x]] < index[x]
      BY <3>1 DEF TreeInv
    <3> QED BY <3>1, <3>2 DEF OrderInv
  <2> QED BY <2>1, <2>2
<1>2. m \in C
  BY <1>1, AncIs
<1> QED BY <1>2 DEF OrderInv

(* Of two nodes above a third, one is above the other.                          *)
LEMMA AncLinear ==
    ASSUME TreeInv, NEW n \in Node, NEW x \in Anc(n), NEW y \in Anc(n)
    PROVE  x \in Anc(y) \/ y \in Anc(x)
<1> DEFINE C == {z \in Anc(n) : z \in Anc(y) \/ y \in Anc(z)}
<1>1. n \in C
  BY AncIs
<1>2. ASSUME NEW z \in C PROVE idoms[z] \in C
  <2>1. z \in Node /\ y \in Node /\ idoms[z] \in Anc(n)
    BY AncIs
  <2>2. CASE z \in Anc(y)
    BY <2>1, <2>2, AncIs
  <2>3. CASE y \in Anc(z) /\ z \notin Anc(y)
    <3>1. y # z
      BY <2>1, <2>3, AncIs
    <3> QED BY <2>1, <2>3, <3>1, AncSplit
  <2> QED BY <2>2, <2>3
<1>3. Anc(n) \subseteq C
  BY <1>1, <1>2, AncIs
<1> QED BY <1>3

(* What dominates a node is above it, whatever has been swept.                    *)
LEMMA DominatesAbove ==
    ASSUME GraphInv, OrderInv, TreeInv, NEW a \in Node, NEW n \in Node, n \in Dominated(G)[a]
    PROVE  a \in Anc(n)
<1> DEFINE Bad == {m \in Node : m \in Dominated(G)[a] /\ a \notin Anc(m)}
           T   == {index[m] : m \in Bad}
<1> SUFFICES ASSUME n \in Bad PROVE FALSE
  OBVIOUS
<1>1. T \in SUBSET Nat /\ T # {}
  BY DEF OrderInv
<1>2. PICK x \in T : \A y \in T : x <= y
  <2> HIDE DEF T
  <2> QED BY <1>1, Smallest
<1>3. PICK m \in Bad : index[m] = x
  OBVIOUS
<1>4. m # a
  BY <1>3, AncIs
<1>5. m # G.entry
  BY <1>3, <1>4, EntryDominates
<1>6. idoms[m] \in Node /\ idoms[m] \in Dominated(G)[a] /\ index[idoms[m]] < index[m]
  BY <1>3, <1>4, <1>5 DEF TreeInv
<1>7. idoms[m] \notin Bad
  BY <1>2, <1>3, <1>6 DEF OrderInv
<1>8. a \in Anc(idoms[m])
  BY <1>6, <1>7
<1> QED BY <1>3, <1>8, AncSplit

(* Once all idoms are as they should be, what is above a node dominates it.       *)
LEMMA AboveDominates ==
    ASSUME GraphInv, OrderInv, TreeInv, \A n \in Node \ {G.entry} : Meets(n),
           NEW n \in Node, NEW a \in Anc(n)
    PROVE  a \in Node /\ n \in Dominated(G)[a]
<1>1. a \in Node
  BY AncIs
<1>2. CASE a = G.entry
  <2>1. Dominated(G)[G.entry] = Node
    BY EntryDominates
  <2> QED BY <1>1, <1>2, <2>1
<1>3. CASE a # G.entry
  <2> DEFINE C == {m \in Node : a \notin Anc(m)}
  <2>1. G.entry \in C
    BY <1>3, AncEntry DEF GraphInv
  <2>2. ASSUME NEW m \in C, NEW s \in G.succs[m] \ {a} PROVE s \in C
    <3>1. s \in Node /\ m \in G.preds[s] /\ s # G.entry
      BY DEF GraphInv
    <3>2. idoms[s] \in Anc(m)
      BY <3>1 DEF Meets
    <3>3. Anc(idoms[s]) \subseteq Anc(m)
      BY <3>2, AncUp
    <3> QED BY <3>1, <3>3, AncSplit
  <2>3. Around(G, a) \subseteq C
    <3>1. C \in SUBSET Node /\ \A m \in C : G.succs[m] \ {a} \subseteq C
      BY <2>2
    <3> HIDE DEF C
    <3> QED BY <1>1, <1>3, <2>1, <3>1, AroundIs
  <2> QED BY <1>1, <2>3, DominatedIs
<1> QED BY <1>1, <1>2, <1>3

-----------------------------------------------------------------------------
(* Of least_common_ancestor and Merge.                                          *)

(* What holds of 0 and carries over to the next number holds up to m.            *)
LEMMA Upto ==
    ASSUME NEW m \in Nat, NEW S, 0 \in S, \A k \in 1..m : k - 1 \in S => k \in S
    PROVE  \A k \in 0..m : k \in S
<1> DEFINE Bad == {k \in 0..m : k \notin S}
<1> SUFFICES ASSUME Bad # {} PROVE FALSE
  OBVIOUS
<1>1. PICK k \in Bad : \A l \in Bad : k <= l
  <2>1. Bad \in SUBSET Nat
    OBVIOUS
  <2> HIDE DEF Bad
  <2> QED BY <2>1, Smallest
<1>2. k \in 1..m /\ k - 1 \in 0..m /\ k - 1 \notin Bad
  BY <1>1
<1> QED BY <1>1, <1>2

(* m steps can be taken one after the other.                                   *)
StepsOf(f, X, m, F, x0) ==
    f \in [0..m -> X] /\ f[0] = x0 /\ \A k \in 1..m : f[k] = F[k][f[k-1]]

LEMMA Iterates ==
    ASSUME NEW X, NEW m, m \in Nat, NEW F, F \in [1..m -> [X -> X]], NEW x0, x0 \in X
    PROVE  \E f : StepsOf(f, X, m, F, x0)
<1> DEFINE Runs(f, k) == StepsOf(f, X, k, F, x0)
           S          == {k \in 0..m : \E f : Runs(f, k)}
<1>1. 0 \in S
  <2>1. Runs([k \in 0..0 |-> x0], 0) /\ 0 \in 0..m
    BY DEF StepsOf
  <2> HIDE DEF Runs
  <2> QED BY <2>1
<1>2. ASSUME NEW k \in 1..m, k - 1 \in S PROVE k \in S
  <2>0. PICK f : Runs(f, k - 1)
    BY <1>2
  <2>1. f \in [0..k-1 -> X] /\ f[0] = x0 /\ \A l \in 1..k-1 : f[l] = F[l][f[l-1]]
    BY <2>0 DEF StepsOf
  <2> DEFINE h == [l \in 0..k |-> IF l = k THEN F[k][f[k-1]] ELSE f[l]]
  <2>2. f[k-1] \in X /\ F[k][f[k-1]] \in X
    BY <2>1
  <2>3. h \in [0..k -> X] /\ h[0] = x0
    BY <2>1, <2>2
  <2>4. ASSUME NEW l \in 1..k PROVE h[l] = F[l][h[l-1]]
    <3>1. l - 1 \in 0..k /\ l - 1 # k /\ h[l-1] = f[l-1]
      OBVIOUS
    <3>2. CASE l = k
      BY <3>1, <3>2
    <3>3. CASE l # k
      <4>1. l \in 1..k-1 /\ h[l] = f[l]
        BY <3>3
      <4> QED BY <2>1, <3>1, <4>1
    <3> QED BY <3>2, <3>3
  <2>5. Runs(h, k)
    <3> HIDE DEF h
    <3> QED BY <2>3, <2>4 DEF StepsOf
  <2> HIDE DEF Runs, h
  <2> QED BY <2>5
<1>3. m \in S
  <2>1. \A k \in 1..m : k - 1 \in S => k \in S
    BY <1>2
  <2> HIDE DEF S
  <2>2. \A k \in 0..m : k \in S
    BY <1>1, <2>1, Upto
  <2> QED BY <2>2
<1> QED BY <1>3

(* The node with the greater number is not the entry, and what dominates both    *)
(* dominates its idom.                                                         *)
LEMMA UpOne ==
    ASSUME GraphInv, OrderInv, TreeInv, NEW x \in Node, NEW y \in Node, index[x] < index[y]
    PROVE  /\ idoms[y] \in Node /\ index[idoms[y]] < index[y]
           /\ \A d \in Node : x \in Dominated(G)[d] /\ y \in Dominated(G)[d] => idoms[y] \in Dominated(G)[d]
<1>1. x # y
  BY DEF OrderInv
<1>2. y # G.entry
  <2> SUFFICES ASSUME y = G.entry PROVE FALSE
    OBVIOUS
  <2>1. index[y] < index[x]
    BY <1>1, EntryDominates, DominatesSmaller
  <2> QED BY <2>1 DEF OrderInv
<1>3. ASSUME NEW d \in Node, x \in Dominated(G)[d], y \in Dominated(G)[d]
      PROVE  idoms[y] \in Dominated(G)[d]
  <2>1. CASE d = y
    <3>1. index[d] < index[x]
      BY <1>1, <1>3, <2>1, DominatesSmaller
    <3> QED BY <2>1, <3>1 DEF OrderInv
  <2>2. CASE d # y
    BY <1>2, <1>3, <2>2 DEF TreeInv
  <2> QED BY <2>1, <2>2
<1> QED BY <1>2, <1>3 DEF TreeInv

(* What least_common_ancestor finds is above both nodes, and dominated by what     *)
(* dominates both.                                                             *)
Common(a, b, c) ==
    /\ c \in Node /\ c \in Anc(a) /\ c \in Anc(b)
    /\ \A d \in Node : a \in Dominated(G)[d] /\ b \in Dominated(G)[d] => c \in Dominated(G)[d]

LEMMA CommonAncestor ==
    ASSUME GraphInv, OrderInv, TreeInv, NEW a \in Node, NEW b \in Node
    PROVE  Common(a, b, least_common_ancestor(a, b))
<1> DEFINE N      == 2 * size
           X      == Node \X Node
           F      == [k \in 1..N |-> [z \in X |-> Up(z)]]
           Way(f) == f = [k \in 0..N |-> IF k = 0 THEN <<a, b>> ELSE Up(f[k-1])]
           Ok(x, y, k) ==
               /\ x \in Node /\ y \in Node /\ x \in Anc(a) /\ y \in Anc(b)
               /\ index[x] = index[y] \/ index[x] + index[y] + k <= index[a] + index[b]
               /\ \A d \in Node : a \in Dominated(G)[d] /\ b \in Dominated(G)[d]
                                    => x \in Dominated(G)[d] /\ y \in Dominated(G)[d]
<1>1. N \in Nat /\ size \in Nat
  BY DEF OrderInv
<1>2. ASSUME NEW z \in X PROVE Up(z) \in X
  BY <1>2 DEF Up, TreeInv, OrderInv
<1>3. \E f : Way(f)
  <2>1. F \in [1..N -> [X -> X]] /\ <<a, b>> \in X
    BY <1>2
  <2>2. PICK f \in [0..N -> X] : f[0] = <<a, b>> /\ \A k \in 1..N : f[k] = F[k][f[k-1]]
    <3> HIDE DEF F, X, N
    <3>1. PICK f : StepsOf(f, X, N, F, <<a, b>>)
      BY <1>1, <2>1, Iterates
    <3> QED BY <3>1 DEF StepsOf
  <2>3. \A k \in 1..N : f[k] = Up(f[k-1])
    <3>1. ASSUME NEW k \in 1..N PROVE f[k] = Up(f[k-1])
      <4>1. f[k-1] \in X /\ f[k] = F[k][f[k-1]]
        <5> HIDE DEF X, F, N
        <5>1. k - 1 \in 0..N
          BY <1>1
        <5> QED BY <2>2, <5>1
      <4>2. F[k] = [z \in X |-> Up(z)]
        OBVIOUS
      <4> HIDE DEF X, F
      <4> QED BY <4>1, <4>2
    <3> QED BY <3>1
  <2>4. f = [k \in 0..N |-> IF k = 0 THEN <<a, b>> ELSE Up(f[k-1])]
    BY <1>1, <2>2, <2>3
  <2> QED BY <2>4
<1> DEFINE w == CHOOSE f : Way(f)
<1>4. Way(w)
  BY <1>3
<1>5. least_common_ancestor(a, b) = w[N][1]
  BY DEF least_common_ancestor
<1> HIDE DEF w
<1>6. w[0] = <<a, b>> /\ \A k \in 1..N : w[k] = Up(w[k-1])
  <2>1. w = [k \in 0..N |-> IF k = 0 THEN <<a, b>> ELSE Up(w[k-1])]
    BY <1>4
  <2> HIDE DEF N
  <2>2. \A k \in 0..N : w[k] = IF k = 0 THEN <<a, b>> ELSE Up(w[k-1])
    BY <2>1
  <2>3. 0 \in 0..N /\ \A k \in 1..N : k \in 0..N /\ k # 0
    BY <1>1
  <2> QED BY <2>2, <2>3
<1> DEFINE S == {k \in 0..N : \E x, y \in Node : w[k] = <<x, y>> /\ Ok(x, y, k)}
<1>7. 0 \in S
  <2>1. Ok(a, b, 0)
    BY AncIs DEF OrderInv
  <2> QED BY <1>1, <1>6, <2>1
<1>8. ASSUME NEW k \in 1..N, k - 1 \in S PROVE k \in S
  <2>1. PICK x, y \in Node : w[k-1] = <<x, y>> /\ Ok(x, y, k - 1)
    BY <1>8
  <2>2. w[k] = Up(<<x, y>>) /\ k \in 0..N /\ k \in Nat
    BY <1>1, <1>6, <2>1
  <2>3. index[x] \in Nat /\ index[y] \in Nat /\ index[a] \in Nat /\ index[b] \in Nat
    BY DEF OrderInv
  <2>4. CASE index[x] < index[y]
    <3>1. w[k] = <<x, idoms[y]>>
      BY <2>2, <2>3, <2>4 DEF Up
    <3>2. /\ idoms[y] \in Node /\ index[idoms[y]] < index[y] /\ index[idoms[y]] \in Nat
          /\ \A d \in Node : x \in Dominated(G)[d] /\ y \in Dominated(G)[d] => idoms[y] \in Dominated(G)[d]
      BY <2>4, UpOne DEF OrderInv
    <3>3. idoms[y] \in Anc(b)
      BY <2>1, AncIs
    <3>4. index[x] + index[idoms[y]] + k <= index[a] + index[b]
      BY <2>1, <2>2, <2>3, <2>4, <3>2
    <3>5. Ok(x, idoms[y], k)
      BY <2>1, <3>2, <3>3, <3>4
    <3> QED BY <2>2, <3>1, <3>2, <3>5
  <2>5. CASE index[y] < index[x]
    <3>1. w[k] = <<idoms[x], y>>
      BY <2>2, <2>3, <2>5 DEF Up
    <3>2. /\ idoms[x] \in Node /\ index[idoms[x]] < index[x] /\ index[idoms[x]] \in Nat
          /\ \A d \in Node : x \in Dominated(G)[d] /\ y \in Dominated(G)[d] => idoms[x] \in Dominated(G)[d]
      BY <2>5, UpOne DEF OrderInv
    <3>3. idoms[x] \in Anc(a)
      BY <2>1, AncIs
    <3>4. index[idoms[x]] + index[y] + k <= index[a] + index[b]
      BY <2>1, <2>2, <2>3, <2>5, <3>2
    <3>5. Ok(idoms[x], y, k)
      BY <2>1, <3>2, <3>3, <3>4
    <3> QED BY <2>2, <3>1, <3>2, <3>5
  <2>6. CASE index[x] = index[y]
    <3>1. w[k] = <<x, y>>
      BY <2>2, <2>3, <2>6 DEF Up
    <3>2. Ok(x, y, k)
      BY <2>1, <2>6
    <3> QED BY <2>2, <3>1, <3>2
  <2> QED BY <2>3, <2>4, <2>5, <2>6
<1>9. N \in S
  <2>1. \A k \in 1..N : k - 1 \in S => k \in S
    BY <1>8
  <2> HIDE DEF S, N
  <2>2. \A k \in 0..N : k \in S
    BY <1>1, <1>7, <2>1, Upto
  <2> QED BY <1>1, <2>2
<1>10. PICK x, y \in Node : w[N] = <<x, y>> /\ Ok(x, y, N)
  BY <1>9
<1>11. index[x] = index[y]
  BY <1>10 DEF OrderInv
<1>12. x = y
  BY <1>11 DEF OrderInv
<1> QED BY <1>5, <1>10, <1>12 DEF Common

(* Merge finds what is above all of S, and dominated by what dominates all of S.   *)
LEMMA MergeIs ==
    ASSUME GraphInv, OrderInv, TreeInv, NEW S \in SUBSET Node, S # {}, NEW order \in SetToSeqs(S)
    PROVE  /\ Merge(order) \in Node
           /\ \A p \in S : Merge(order) \in Anc(p)
           /\ \A d \in Node : S \subseteq Dominated(G)[d] => Merge(order) \in Dominated(G)[d]
<1> DEFINE N      == Len(order)
           F      == [k \in 1..N-1 |-> [x \in Node |-> least_common_ancestor(x, order[k+1])]]
           Way(f) == f = [k \in 1..N |-> IF k = 1 THEN order[1] ELSE least_common_ancestor(f[k-1], order[k])]
           Ok(m, k) ==
               /\ m \in Node /\ \A l \in 1..k : m \in Anc(order[l])
               /\ \A d \in Node : S \subseteq Dominated(G)[d] => m \in Dominated(G)[d]
<1>1. /\ N \in Nat \ {0} /\ \A k \in 1..N : order[k] \in S
      /\ \A p \in S : \E k \in 1..N : order[k] = p
  <2> DEFINE M == Cardinality(S)
  <2>1. IsFiniteSet(S) /\ M \in Nat
    BY FS_Subset, FS_CardinalityType DEF GraphInv
  <2>2. order \in [1..M -> S] /\ \A a, b \in 1..M : a # b => order[a] # order[b]
    BY DEF SetToSeqs
  <2>3. Len(order) = M
    BY <2>1, <2>2
  <2>4. M # 0
    BY <2>1, FS_EmptySet
  <2>5. \A x \in S : \E k \in 1..M : order[k] = x
    BY <2>1, <2>2, Onto
  <2> HIDE DEF M
  <2> QED BY <2>1, <2>2, <2>3, <2>4, <2>5
<1>2. ASSUME NEW x \in Node, NEW k \in 1..N PROVE Common(x, order[k], least_common_ancestor(x, order[k]))
  BY <1>1, CommonAncestor
<1>3. \E f : Way(f)
  <2>1. ASSUME NEW k \in 1..N-1, NEW x \in Node PROVE least_common_ancestor(x, order[k+1]) \in Node
    <3>1. k + 1 \in 1..N
      BY <1>1
    <3> QED BY <1>2, <3>1 DEF Common
  <2>2. F \in [1..N-1 -> [Node -> Node]] /\ order[1] \in Node /\ N - 1 \in Nat
    BY <1>1, <2>1
  <2> HIDE DEF F, N
  <2>3. PICK f : StepsOf(f, Node, N - 1, F, order[1])
    BY <2>2, Iterates
  <2>4. /\ f \in [0..N-1 -> Node] /\ f[0] = order[1]
        /\ \A k \in 1..N-1 : f[k] = F[k][f[k-1]]
    BY <2>3 DEF StepsOf
  <2>5. ASSUME NEW k \in 1..N-1 PROVE f[k] = least_common_ancestor(f[k-1], order[k+1])
    <3>1. f[k-1] \in Node /\ f[k] = F[k][f[k-1]]
      <4>1. k - 1 \in 0..N-1
        BY <1>1
      <4> QED BY <2>4, <4>1
    <3>2. F[k] = [x \in Node |-> least_common_ancestor(x, order[k+1])]
      BY DEF F
    <3> QED BY <3>1, <3>2
  <2> DEFINE h == [k \in 1..N |-> f[k-1]]
  <2>6. ASSUME NEW k \in 1..N
        PROVE  h[k] = IF k = 1 THEN order[1] ELSE least_common_ancestor(h[k-1], order[k])
    <3>1. CASE k = 1
      BY <2>4, <3>1
    <3>2. CASE k # 1
      <4>1. k - 1 \in 1..N-1 /\ k - 1 \in 1..N /\ k = (k - 1) + 1
        BY <1>1, <3>2
      <4>2. h[k-1] = f[(k-1)-1]
        BY <4>1
      <4>3. h[k] = f[k-1]
        OBVIOUS
      <4>4. f[k-1] = least_common_ancestor(f[(k-1)-1], order[k])
        BY <2>5, <4>1
      <4> HIDE DEF h
      <4> QED BY <3>2, <4>2, <4>3, <4>4
    <3> QED BY <3>1, <3>2
  <2>7. h = [k \in 1..N |-> IF k = 1 THEN order[1] ELSE least_common_ancestor(h[k-1], order[k])]
    BY <2>6
  <2> QED BY <2>7
<1> DEFINE w == CHOOSE f : Way(f)
<1>4. Way(w)
  BY <1>3
<1>5. Merge(order) = w[N]
  BY DEF Merge
<1> HIDE DEF w
<1>6. w[1] = order[1] /\ \A k \in 2..N : w[k] = least_common_ancestor(w[k-1], order[k])
  <2>1. w = [k \in 1..N |-> IF k = 1 THEN order[1] ELSE least_common_ancestor(w[k-1], order[k])]
    BY <1>4
  <2> HIDE DEF N
  <2>2. \A k \in 1..N : w[k] = IF k = 1 THEN order[1] ELSE least_common_ancestor(w[k-1], order[k])
    BY <2>1
  <2>3. 1 \in 1..N /\ \A k \in 2..N : k \in 1..N /\ k # 1
    BY <1>1
  <2> QED BY <2>2, <2>3
<1> DEFINE Good == {k \in 0..N-1 : Ok(w[k+1], k + 1)}
<1>7. 0 \in Good
  <2>1. order[1] \in S /\ order[1] \in Node /\ order[1] \in Anc(order[1])
    BY <1>1, AncIs
  <2>2. Ok(order[1], 1)
    BY <2>1
  <2> QED BY <1>1, <1>6, <2>2
<1>8. ASSUME NEW k \in 1..N-1, k - 1 \in Good PROVE k \in Good
  <2>1. (k - 1) + 1 = k /\ k + 1 \in 2..N /\ k + 1 \in 1..N /\ (k + 1) - 1 = k /\ k \in 0..N-1 /\ k \in Nat
    BY <1>1
  <2>2. Ok(w[k], k)
    BY <1>8, <2>1
  <2>3. w[k+1] = least_common_ancestor(w[k], order[k+1])
    BY <1>6, <2>1
  <2>4. w[k] \in Node /\ order[k+1] \in S
    BY <1>1, <2>1, <2>2
  <2>5. Common(w[k], order[k+1], w[k+1])
    BY <1>2, <2>1, <2>3, <2>4
  <2>6. ASSUME NEW l \in 1..k+1 PROVE w[k+1] \in Anc(order[l])
    <3>1. CASE l = k + 1
      BY <2>5, <3>1 DEF Common
    <3>2. CASE l # k + 1
      <4>1. l \in 1..k /\ l \in 1..N
        BY <2>1, <3>2
      <4>2. w[k] \in Anc(order[l]) /\ order[l] \in Node
        BY <1>1, <2>2, <4>1
      <4> QED BY <2>5, <4>2, AncUp DEF Common
    <3> QED BY <3>1, <3>2
  <2>7. Ok(w[k+1], k + 1)
    BY <2>2, <2>4, <2>5, <2>6 DEF Common
  <2> HIDE DEF Ok
  <2> QED BY <2>1, <2>7
<1>9. N - 1 \in Good
  <2>1. \A k \in 1..N-1 : k - 1 \in Good => k \in Good
    BY <1>8
  <2>2. N - 1 \in Nat
    BY <1>1
  <2> HIDE DEF Good, N
  <2>3. \A k \in 0..N-1 : k \in Good
    BY <1>7, <2>1, <2>2, Upto
  <2> QED BY <2>2, <2>3
<1>10. Ok(w[N], N)
  <2>1. (N - 1) + 1 = N
    BY <1>1
  <2> HIDE DEF Ok, N
  <2> QED BY <1>9, <2>1
<1>11. ASSUME NEW p \in S PROVE w[N] \in Anc(p)
  <2>1. PICK k \in 1..N : order[k] = p
    BY <1>1
  <2> HIDE DEF N
  <2> QED BY <1>10, <2>1
<1> QED BY <1>5, <1>10, <1>11

-----------------------------------------------------------------------------
(* A flow graph is one in either direction.                                     *)
LEMMA InitInv == GraphsOK /\ IsFiniteSet(Node) /\ Init => IInv
<1> SUFFICES ASSUME GraphsOK, IsFiniteSet(Node), Init PROVE IInv
  OBVIOUS
<1>1. PICK F \in Graphs : G = Forward(F) \/ G = Backward(F)
  BY DEF Init
<1>2. /\ F.entry \in Node /\ F.exit \in Node
      /\ F.succs \in [Node -> SUBSET Node]
      /\ NodesOf(F) = Node
      /\ preds(F, F.entry) = {} /\ F.succs[F.exit] = {}
      /\ Reach(F.succs, {F.entry}) = Node /\ Reach(Preds(F), {F.exit}) = Node
  BY <1>1 DEF GraphsOK, IsFlowGraph, NodesOf
<1>3. /\ Preds(F) \in [Node -> SUBSET Node]
      /\ \A n \in Node : Preds(F)[n] = {p \in Node : n \in F.succs[p]}
      /\ Preds(F)[F.entry] = {}
  BY <1>2 DEF Preds, preds
<1>4. Least(F.succs, {F.entry}) = Node /\ Least(Preds(F), {F.exit}) = Node
  BY <1>2, <1>3, ReachIs
<1>5. GraphInv
  <2>1. CASE G = Forward(F)
    <3>1. G.entry = F.entry /\ G.succs = F.succs /\ G.preds = Preds(F)
      BY <2>1 DEF Forward
    <3> QED BY <1>2, <1>3, <1>4, <3>1 DEF GraphInv
  <2>2. CASE G = Backward(F)
    <3>1. G.entry = F.exit /\ G.succs = Preds(F) /\ G.preds = F.succs
      BY <2>2 DEF Backward
    <3> QED BY <1>2, <1>3, <1>4, <3>1 DEF GraphInv
  <2> QED BY <1>1, <2>1, <2>2
<1>6. NumInv
  <2>1. size \in Nat
    BY FS_CardinalityType DEF size
  <2>2. G.entry \in Node /\ calls = <<G.entry>> /\ Len(calls) = 1 /\ calls \in Seq(Node) /\ i = size
    BY <1>5 DEF Init, GraphInv
  <2>3. index = [n \in Node |-> IF n = G.entry THEN Open ELSE New]
    BY DEF Init
  <2>4. Given = {} /\ Cardinality(Given) = 0
    BY <2>3, FS_EmptySet DEF Given
  <2> QED BY <2>1, <2>2, <2>3, <2>4 DEF NumInv, Open, New
<1> QED BY <1>5, <1>6 DEF Init, IInv

(* A call enters a new node from the one that is being visited.                  *)
LEMMA DescendInv == GraphInv /\ NumInv /\ Descend => NumInv'
<1> SUFFICES ASSUME GraphInv, NumInv, Descend PROVE NumInv'
  OBVIOUS
<1> DEFINE c == calls[Len(calls)]
<1>1. PICK s \in fresh : index' = [index EXCEPT ![s] = Open] /\ calls' = Append(calls, s)
  BY DEF Descend
<1>2. /\ calls \in Seq(Node) /\ Len(calls) \in Nat \ {0} /\ c \in Node
      /\ index \in [Node -> {New, Open} \cup 0..size - 1]
  BY DEF NumInv, Descend
<1>3. s \in Node /\ index[s] = New /\ c \in G.preds[s]
  BY <1>1, <1>2 DEF fresh, GraphInv
<1>4. G' = G /\ i' = i /\ size \in Nat /\ i \in Nat
  BY FS_CardinalityType DEF Descend, size, NumInv, GraphInv
<1>5. /\ Len(calls') = Len(calls) + 1 /\ calls' \in Seq(Node)
      /\ calls'[Len(calls) + 1] = s /\ \A k \in 1..Len(calls) : calls'[k] = calls[k]
  BY <1>1, <1>2, <1>3
<1>6. /\ index' \in [Node -> {New, Open} \cup 0..size - 1] /\ index'[s] = Open
      /\ \A n \in Node \ {s} : index'[n] = index[n]
  BY <1>1, <1>2, <1>3
<1>7. Given' = Given /\ s \notin Given /\ Given \subseteq Node /\ New # Open
  BY <1>3, <1>6 DEF Given, New, Open
<1>8. /\ \A k \in 1..Len(calls') : index'[calls'[k]] = Open
      /\ \A k, l \in 1..Len(calls') : calls'[k] = calls'[l] => k = l
      /\ \A k \in 2..Len(calls') : calls'[k-1] \in G.preds[calls'[k]]
      /\ calls'[1] = G.entry
  <2>1. ASSUME NEW k \in 1..Len(calls) PROVE calls[k] \in Node \ {s} /\ index[calls[k]] = Open
    BY <1>2, <1>3, <1>7 DEF NumInv
  <2>2. ASSUME NEW k \in 1..Len(calls') PROVE k = Len(calls) + 1 \/ k \in 1..Len(calls)
    BY <1>2, <1>5
  <2>3. \A k \in 1..Len(calls') : index'[calls'[k]] = Open
    BY <1>5, <1>6, <2>1, <2>2
  <2>4. \A k, l \in 1..Len(calls') : calls'[k] = calls'[l] => k = l
    BY <1>5, <2>1, <2>2 DEF NumInv
  <2>5. ASSUME NEW k \in 2..Len(calls') PROVE calls'[k-1] \in G.preds[calls'[k]]
    <3>1. CASE k = Len(calls) + 1
      <4>1. k - 1 = Len(calls) /\ k - 1 \in 1..Len(calls)
        BY <1>2, <3>1
      <4> QED BY <1>3, <1>5, <3>1, <4>1
    <3>2. CASE k # Len(calls) + 1
      <4>1. k \in 2..Len(calls) /\ k - 1 \in 1..Len(calls) /\ k \in 1..Len(calls)
        BY <1>2, <1>5, <3>2
      <4> QED BY <1>5, <4>1 DEF NumInv
    <3> QED BY <3>1, <3>2
  <2>6. 1 \in 1..Len(calls) /\ calls[1] = G.entry
    BY <1>2 DEF NumInv
  <2> QED BY <1>5, <2>3, <2>4, <2>5, <2>6
<1>9. ASSUME NEW n \in Node, index'[n] = Open PROVE \E k \in 1..Len(calls') : calls'[k] = n
  <2>1. CASE n = s
    BY <1>2, <1>5, <2>1
  <2>2. CASE n # s
    <3>1. PICK k \in 1..Len(calls) : calls[k] = n
      BY <1>6, <1>9, <2>2 DEF NumInv
    <3>2. k \in 1..Len(calls') /\ calls'[k] = n
      BY <1>2, <1>5, <3>1
    <3> QED BY <3>2
  <2> QED BY <2>1, <2>2
<1>10. /\ \A n \in Given : index'[n] = index[n] /\ index'[n] \in i..size - 1
       /\ \A m, n \in Given : index'[m] = index'[n] => m = n
       /\ Cardinality(Given) = size - i
  BY <1>6, <1>7 DEF NumInv
<1>11. \A p \in i..size - 1 : \E n \in Node : index'[n] = p
  <2> SUFFICES ASSUME NEW p \in i..size - 1 PROVE \E n \in Node : index'[n] = p
    OBVIOUS
  <2>1. PICK n \in Node : index[n] = p
    BY DEF NumInv
  <2>2. n # s
    BY <1>3, <1>4, <2>1 DEF New
  <2> QED BY <1>6, <2>1, <2>2
<1>12. \A n \in Given : \A t \in G.succs[n] : index'[t] # New
  BY <1>6, <1>7 DEF NumInv, GraphInv
<1>13. index'[G.entry] # New
  BY <1>6, <1>7 DEF NumInv, GraphInv
<1>14. ASSUME NEW n \in Given \ {G.entry}
       PROVE  \E p \in G.preds[n] : index'[p] = Open \/ (p \in Starts(n)' /\ p \in Given)
  <2>1. PICK p \in G.preds[n] : index[p] = Open \/ (p \in Starts(n) /\ p \in Given)
    BY DEF NumInv
  <2>2. p \in Node /\ n \in Node /\ n # s
    BY <1>7 DEF GraphInv
  <2>3. CASE index[p] = Open
    <3>1. index'[p] = Open
      BY <1>6, <2>2, <2>3
    <3> QED BY <2>1, <3>1
  <2>4. CASE p \in Starts(n) /\ p \in Given
    <3>1. index'[p] < index'[n]
      BY <1>6, <1>7, <2>2, <2>4 DEF Starts
    <3> QED BY <1>4, <2>1, <2>4, <3>1 DEF Starts
  <2> QED BY <2>1, <2>3, <2>4
<1>15. size' = size
  BY DEF size
<1> QED BY <1>4, <1>5, <1>6, <1>7, <1>8, <1>9, <1>10, <1>11, <1>12, <1>13, <1>14, <1>15, FS_CardinalityType DEF NumInv

(* A call that finds no new successor returns, and its node gets the next number; *)
(* there is one left, since that node had none.                                  *)
LEMMA AscendInv == GraphInv /\ NumInv /\ Ascend => NumInv'
<1> SUFFICES ASSUME GraphInv, NumInv, Ascend PROVE NumInv'
  OBVIOUS
<1> DEFINE L == Len(calls)
           c == calls[L]
<1>1. /\ calls \in Seq(Node) /\ L \in Nat \ {0} /\ c \in Node /\ index[c] = Open
      /\ index \in [Node -> {New, Open} \cup 0..size - 1]
  BY DEF NumInv, Ascend
<1>2. G' = G /\ i' = i - 1 /\ size' = size /\ size \in Nat /\ i \in 0..size
  BY FS_CardinalityType DEF Ascend, size, NumInv, GraphInv
<1>3. c \notin Given /\ Given \subseteq Node /\ IsFiniteSet(Given)
  BY <1>1, FS_Subset DEF Given, GraphInv
<1>4. Cardinality(Given \cup {c}) = size - i + 1
  <2>1. Cardinality(Given) = size - i
    BY DEF NumInv
  <2>2. Cardinality(Given \cup {c}) = Cardinality(Given) + 1
    BY <1>3, FS_AddElement
  <2> QED BY <1>2, <2>1, <2>2
<1>5. i >= 1
  <2>1. Given \cup {c} \in SUBSET Node
    BY <1>1, <1>3
  <2>2. Cardinality(Given \cup {c}) <= size
    BY <2>1, FS_Subset DEF GraphInv, size
  <2> QED BY <1>2, <1>4, <2>2
<1>6. /\ index' \in [Node -> {New, Open} \cup 0..size - 1] /\ index'[c] = i - 1
      /\ \A n \in Node \ {c} : index'[n] = index[n]
  BY <1>1, <1>2, <1>5 DEF Ascend
<1>7. Given' = Given \cup {c}
  BY <1>1, <1>2, <1>3, <1>5, <1>6 DEF Given, New, Open
<1>8. calls' \in Seq(Node) /\ Len(calls') = L - 1 /\ \A k \in 1..L-1 : calls'[k] = calls[k]
  <2>1. \A k \in 1..L-1 : calls[k] \in Node
    BY <1>1
  <2>2. calls' = SubSeq(calls, 1, L - 1) /\ L - 1 \in Int /\ 1 \in Int /\ (L - 1) - 1 + 1 = L - 1
    BY <1>1 DEF Ascend
  <2>3. \A k \in 1..L-1 : 1 + k - 1 = k
    OBVIOUS
  <2> HIDE DEF L
  <2> QED BY <1>1, <2>1, <2>2, <2>3, SubSeqProperties
<1>9. /\ \A k \in 1..L-1 : calls[k] \in Node \ {c} /\ index'[calls[k]] = Open
      /\ \A k, l \in 1..L-1 : calls'[k] = calls'[l] => k = l
      /\ \A k \in 2..L-1 : calls'[k-1] \in G.preds[calls'[k]]
      /\ L - 1 > 0 => calls'[1] = G.entry
  <2>1. ASSUME NEW k \in 1..L-1 PROVE calls[k] \in Node \ {c} /\ index'[calls[k]] = Open
    <3>1. k \in 1..L /\ L \in 1..L /\ k # L
      BY <1>1
    <3> QED BY <1>1, <1>6, <3>1 DEF NumInv
  <2>2. \A k, l \in 1..L-1 : calls'[k] = calls'[l] => k = l
    BY <1>1, <1>8 DEF NumInv
  <2>3. ASSUME NEW k \in 2..L-1 PROVE calls'[k-1] \in G.preds[calls'[k]]
    <3>1. k - 1 \in 1..L-1 /\ k \in 1..L-1 /\ k \in 2..L
      BY <1>1
    <3> QED BY <1>8, <3>1 DEF NumInv
  <2>4. L - 1 > 0 => calls'[1] = G.entry
    BY <1>1, <1>8 DEF NumInv
  <2> QED BY <2>1, <2>2, <2>3, <2>4
<1>10. ASSUME NEW n \in Node, index'[n] = Open PROVE \E k \in 1..L-1 : calls'[k] = n
  <2>1. n # c
    BY <1>2, <1>5, <1>6, <1>10 DEF Open
  <2>2. PICK k \in 1..L : calls[k] = n
    BY <1>6, <1>10, <2>1 DEF NumInv
  <2>3. k \in 1..L-1
    BY <1>1, <2>1, <2>2
  <2> QED BY <1>8, <2>2, <2>3
<1>11. \A n \in Given : n # c /\ index'[n] = index[n] /\ index[n] \in i..size - 1
  BY <1>3, <1>6 DEF NumInv
<1>12. /\ \A n \in Given' : index'[n] \in i-1..size - 1
       /\ \A m, n \in Given' : index'[m] = index'[n] => m = n
  <2>1. ASSUME NEW n \in Given' PROVE index'[n] \in i-1..size - 1
    BY <1>2, <1>5, <1>6, <1>7, <1>11
  <2>2. ASSUME NEW m \in Given', NEW n \in Given', index'[m] = index'[n] PROVE m = n
    <3>1. CASE m \in Given /\ n \in Given
      BY <1>11, <2>2, <3>1 DEF NumInv
    <3>2. CASE m \notin Given \/ n \notin Given
      BY <1>2, <1>6, <1>7, <1>11, <2>2, <3>2
    <3> QED BY <3>1, <3>2
  <2> QED BY <2>1, <2>2
<1>13. \A p \in i-1..size - 1 : \E n \in Node : index'[n] = p
  <2> SUFFICES ASSUME NEW p \in i-1..size - 1 PROVE \E n \in Node : index'[n] = p
    OBVIOUS
  <2>1. CASE p = i - 1
    BY <1>1, <1>6, <2>1
  <2>2. CASE p # i - 1
    <3>1. p \in i..size - 1
      BY <1>2, <2>2
    <3>2. PICK n \in Node : index[n] = p
      BY <3>1 DEF NumInv
    <3>3. n # c
      BY <1>1, <1>2, <3>1, <3>2 DEF Open
    <3> QED BY <1>6, <3>2, <3>3
  <2> QED BY <2>1, <2>2
<1>14. \A n \in Given' : \A t \in G.succs[n] : index'[t] # New
  <2> SUFFICES ASSUME NEW n \in Given', NEW t \in G.succs[n] PROVE index'[t] # New
    OBVIOUS
  <2>1. n \in Node /\ t \in Node
    BY <1>1, <1>3, <1>7 DEF GraphInv
  <2>2. index[t] # New
    BY <1>7 DEF NumInv, Ascend, fresh
  <2> QED BY <1>2, <1>5, <1>6, <2>1, <2>2 DEF New
<1>15. index'[G.entry] # New
  BY <1>2, <1>5, <1>6 DEF NumInv, GraphInv, New
<1>16. ASSUME NEW n \in Given' \ {G.entry}
       PROVE  \E p \in G.preds[n] : index'[p] = Open \/ (p \in Starts(n)' /\ p \in Given')
  <2>1. CASE n = c
    <3>1. L # 1
      BY <1>1, <1>16, <2>1 DEF NumInv
    <3>2. L \in 2..L /\ L - 1 \in 1..L-1
      <4> HIDE DEF L
      <4> QED BY <1>1, <3>1
    <3> DEFINE p == calls[L-1]
    <3>3. p \in G.preds[c] /\ index'[p] = Open
      BY <1>9, <3>2 DEF NumInv
    <3> HIDE DEF p
    <3> QED BY <2>1, <3>3
  <2>2. CASE n # c
    <3>1. n \in Given \ {G.entry} /\ n \in Node
      BY <1>3, <1>7, <2>2, <1>16
    <3>2. PICK p \in G.preds[n] : index[p] = Open \/ (p \in Starts(n) /\ p \in Given)
      BY <3>1 DEF NumInv
    <3>3. p \in Node
      BY <3>1 DEF GraphInv
    <3>4. CASE p = c
      <4>1. index'[p] < index'[n]
        BY <1>2, <1>6, <1>11, <3>1, <3>4
      <4> QED BY <1>2, <1>7, <3>2, <3>4, <4>1 DEF Starts
    <3>5. CASE p # c /\ index[p] = Open
      <4>1. index'[p] = Open
        BY <1>6, <3>3, <3>5
      <4> QED BY <3>2, <4>1
    <3>6. CASE p # c /\ p \in Starts(n) /\ p \in Given
      <4>1. index'[p] < index'[n]
        BY <1>11, <3>1, <3>6 DEF Starts
      <4> QED BY <1>2, <1>7, <3>2, <3>6, <4>1 DEF Starts
    <3> QED BY <3>2, <3>4, <3>5, <3>6
  <2> QED BY <2>1, <2>2
<1>17. /\ i' \in 0..size' /\ Cardinality(Given') = size' - i'
       /\ \A k \in 1..Len(calls') : index'[calls'[k]] = Open
       /\ \A k, l \in 1..Len(calls') : calls'[k] = calls'[l] => k = l
       /\ \A k \in 2..Len(calls') : calls'[k-1] \in G'.preds[calls'[k]]
       /\ Len(calls') > 0 => calls'[1] = G'.entry
       /\ \A n \in Node : index'[n] = Open => \E k \in 1..Len(calls') : calls'[k] = n
  BY <1>2, <1>4, <1>5, <1>7, <1>8, <1>9, <1>10
<1>18. /\ \A n \in Given' : index'[n] \in i'..size' - 1
       /\ \A p \in i'..size' - 1 : \E n \in Node : index'[n] = p
       /\ \A n \in Given' : \A t \in G'.succs[n] : index'[t] # New'
       /\ \A n \in Given' \ {G'.entry} : \E p \in G'.preds[n] : index'[p] = Open' \/ (p \in Starts(n)' /\ p \in Given')
  BY <1>2, <1>12, <1>13, <1>14, <1>16 DEF New, Open
<1> QED BY <1>2, <1>6, <1>8, <1>12, <1>15, <1>17, <1>18 DEF NumInv, New, Open

(* When the calls are over, all nodes have been found.                           *)
LEMMA FirstIdomsInv == GraphInv /\ NumInv /\ FirstIdoms => OrderInv' /\ TreeInv' /\ SweepInv'
<1> SUFFICES ASSUME GraphInv, NumInv, FirstIdoms PROVE OrderInv' /\ TreeInv' /\ SweepInv'
  OBVIOUS
<1>1. PICK f \in [Node -> Node] : f[G.entry] = G.entry /\ (\A n \in Node \ {G.entry} : f[n] \in Starts(n)) /\ idoms' = f
  BY DEF FirstIdoms
<1>2. G' = G /\ index' = index /\ calls' = calls /\ calls = <<>> /\ i' = i /\ size' = size /\ size \in Nat
  BY FS_CardinalityType DEF FirstIdoms, size, GraphInv
<1>3. \A n \in Node : index[n] # Open
  BY <1>2 DEF NumInv
<1>4. Given = Node
  <2>1. Given \in SUBSET Node /\ {G.entry} \subseteq Given
    BY <1>3 DEF Given, NumInv, GraphInv
  <2>2. IsClosed(G.succs, Given)
    <3> SUFFICES ASSUME NEW n \in Given, NEW s \in G.succs[n] PROVE s \in Given
      BY DEF IsClosed
    <3>1. n \in Node /\ s \in Node /\ index[s] # New
      BY <2>1 DEF NumInv, GraphInv
    <3> QED BY <1>3, <3>1 DEF Given
  <2>3. {G.entry} \in SUBSET Node /\ G.succs \in [Node -> SUBSET Node] /\ Least(G.succs, {G.entry}) = Node
    BY DEF GraphInv
  <2> QED BY <2>1, <2>2, <2>3, LeastIs
<1>5. i = 0
  BY <1>2, <1>4 DEF NumInv, size
<1>6. index \in [Node -> 0..size - 1]
  BY <1>4, <1>5 DEF NumInv
<1>7. ASSUME NEW n \in Node \ {G.entry} PROVE Starts(n) # {}
  BY <1>3, <1>4 DEF NumInv, GraphInv
<1>8. OrderInv
  BY <1>2, <1>4, <1>5, <1>6, <1>7 DEF OrderInv, NumInv
<1>9. OrderInv'
  <2>1. \A n : Starts(n)' = Starts(n)
    BY <1>2 DEF Starts
  <2> QED BY <1>2, <1>8, <2>1 DEF OrderInv
<1>10. TreeInv'
  <2>1. ASSUME NEW n \in Node \ {G.entry} PROVE idoms'[n] \in G.preds[n] /\ index[idoms'[n]] < index[n]
    BY <1>1, <2>1 DEF Starts
  <2>2. ASSUME NEW n \in Node \ {G.entry}, NEW a \in Node \ {n}, n \in Dominated(G)[a]
        PROVE  idoms'[n] \in Dominated(G)[a]
    BY <2>1, <2>2, DominatesPreds
  <2> QED BY <1>1, <1>2, <2>1, <2>2 DEF TreeInv
<1>11. SweepInv'
  <2>1. pos' = 1 /\ todo' = FALSE /\ 1 \in 1..size'
    BY <1>2, <1>6 DEF FirstIdoms, GraphInv
  <2>2. ASSUME NEW n \in Node \ {G.entry} PROVE ~(index[n] < 1)
    <3>1. G.entry \in Node \ {n} /\ index[G.entry] < index[n]
      BY <1>8, EntryDominates, DominatesSmaller DEF GraphInv
    <3> QED BY <1>6, <3>1
  <2> QED BY <1>2, <2>1, <2>2 DEF SweepInv
<1> QED BY <1>9, <1>10, <1>11

(* The entry has number 0.                                                     *)
LEMMA EntryFirst ==
    ASSUME GraphInv, OrderInv, NEW n \in Node \ {G.entry} PROVE index[n] >= 1 /\ index[n] \in 0..size - 1
<1>1. G.entry \in Node \ {n} /\ index[G.entry] < index[n]
  BY EntryDominates, DominatesSmaller DEF GraphInv
<1> QED BY <1>1 DEF OrderInv

(* One node gets the meet of its predecessors.                                   *)
LEMMA SweepKeeps ==
    GraphInv /\ OrderInv /\ TreeInv /\ SweepInv /\ Sweep => OrderInv' /\ TreeInv' /\ SweepInv'
<1> SUFFICES ASSUME GraphInv, OrderInv, TreeInv, SweepInv, Sweep PROVE OrderInv' /\ TreeInv' /\ SweepInv'
  OBVIOUS
<1> DEFINE n == rpo(pos)
<1>1. PICK order \in SetToSeqs(G.preds[n]) :
          /\ idoms' = [idoms EXCEPT ![n] = Merge(order)]
          /\ todo' = (todo \/ Merge(order) # idoms[n])
  BY DEF Sweep
<1> DEFINE m == Merge(order)
<1>2. G' = G /\ index' = index /\ calls' = calls /\ i' = i /\ size' = size /\ size \in Nat /\ pos' = pos + 1 /\ pos \in 1..size - 1
  BY DEF Sweep, size, SweepInv, OrderInv
<1>3. n \in Node /\ index[n] = pos
  <2>1. pos \in 0..size - 1
    BY <1>2
  <2> QED BY <2>1 DEF OrderInv, rpo
<1>4. n # G.entry
  <2> SUFFICES ASSUME n = G.entry PROVE FALSE
    OBVIOUS
  <2>1. PICK x \in Node : index[x] = 0
    BY <1>2 DEF OrderInv
  <2>2. x \in Node \ {G.entry}
    BY <1>2, <1>3, <2>1
  <2> QED BY <2>1, <2>2, EntryFirst
<1>5. G.preds[n] \in SUBSET Node /\ Starts(n) \subseteq G.preds[n] /\ Starts(n) # {}
  BY <1>3, <1>4 DEF GraphInv, OrderInv, Starts
<1>6. /\ m \in Node
      /\ \A p \in G.preds[n] : m \in Anc(p)
      /\ \A d \in Node : G.preds[n] \subseteq Dominated(G)[d] => m \in Dominated(G)[d]
  <2>1. G.preds[n] # {}
    BY <1>5
  <2> HIDE DEF n
  <2> QED BY <1>1, <1>5, <2>1, MergeIs
<1>7. index[m] < index[n]
  <2>1. PICK p \in Starts(n) : TRUE
    BY <1>5
  <2>2. p \in Node /\ index[p] < index[n] /\ m \in Anc(p)
    BY <1>5, <1>6, <2>1 DEF Starts
  <2>3. index[m] <= index[p]
    BY <2>2, AncSmaller
  <2> QED BY <1>3, <1>6, <2>2, <2>3 DEF OrderInv
<1> HIDE DEF m, n
<1>8. idoms' \in [Node -> Node] /\ idoms'[n] = m /\ \A x \in Node \ {n} : idoms'[x] = idoms[x]
  BY <1>1, <1>3, <1>6 DEF TreeInv, m
<1>9. OrderInv'
  <2>1. \A x : Starts(x)' = Starts(x)
    BY <1>2 DEF Starts
  <2> QED BY <1>2, <2>1 DEF OrderInv
<1>10. TreeInv'
  <2>1. G.entry \in Node /\ idoms'[G.entry] = G.entry
    BY <1>4, <1>8 DEF TreeInv, GraphInv
  <2>2. ASSUME NEW x \in Node \ {G.entry} PROVE index[idoms'[x]] < index[x]
    BY <1>7, <1>8 DEF TreeInv
  <2>3. ASSUME NEW x \in Node \ {G.entry}, NEW a \in Node \ {x}, x \in Dominated(G)[a]
        PROVE  idoms'[x] \in Dominated(G)[a]
    <3>1. CASE x = n
      <4>1. G.preds[n] \subseteq Dominated(G)[a]
        BY <2>3, <3>1, DominatesPreds
      <4> QED BY <1>6, <1>8, <3>1, <4>1
    <3>2. CASE x # n
      BY <1>8, <2>3, <3>2 DEF TreeInv
    <3> QED BY <3>1, <3>2
  <2> QED BY <1>2, <1>8, <2>1, <2>2, <2>3 DEF TreeInv
<1>11. SweepInv'
  <2>1. pos' \in 1..size' /\ todo' \in BOOLEAN
    BY <1>1, <1>2 DEF SweepInv
  <2>2. ASSUME ~todo', NEW x \in Node \ {G.entry}, index[x] < pos + 1 PROVE Meets(x)'
    <3>1. ~todo /\ idoms[n] = m
      BY <1>1, <2>2 DEF m
    <3>2. idoms' = idoms
      BY <1>8, <3>1 DEF TreeInv
    <3>3. Meets(x)
      <4>1. CASE x = n
        BY <1>6, <3>1, <4>1 DEF Meets
      <4>2. CASE x # n
        <5>1. index[x] # index[n]
          BY <1>3, <4>2 DEF OrderInv
        <5>2. index[x] < pos
          BY <1>2, <1>3, <2>2, <5>1 DEF OrderInv
        <5> QED BY <3>1, <5>2 DEF SweepInv
      <4> QED BY <4>1, <4>2
    <3> QED BY <1>2, <3>2, <3>3 DEF Meets, Anc, Tree
  <2> QED BY <1>2, <2>1, <2>2 DEF SweepInv
<1> QED BY <1>9, <1>10, <1>11

(* A sweep that changed nothing is the last.                                     *)
LEMMA EndKeeps ==
    GraphInv /\ OrderInv /\ TreeInv /\ SweepInv /\ EndOfSweep
      => OrderInv' /\ TreeInv' /\ ((todo /\ pc' = pc /\ SweepInv') \/ (~todo /\ pc' = "frontier" /\ DoneInv'))
<1> SUFFICES ASSUME GraphInv, OrderInv, TreeInv, SweepInv, EndOfSweep
             PROVE  OrderInv' /\ TreeInv' /\ ((todo /\ pc' = pc /\ SweepInv') \/ (~todo /\ pc' = "frontier" /\ DoneInv'))
  OBVIOUS
<1>1. /\ G' = G /\ index' = index /\ calls' = calls /\ i' = i /\ idoms' = idoms /\ size' = size
      /\ size \in Nat /\ pos = size /\ size >= 1
  BY DEF EndOfSweep, size, SweepInv, OrderInv
<1>2. OrderInv' /\ TreeInv'
  <2>1. \A x : Starts(x)' = Starts(x)
    BY <1>1 DEF Starts
  <2> QED BY <1>1, <2>1 DEF OrderInv, TreeInv
<1>3. \A x : Meets(x)' = Meets(x)
  BY <1>1 DEF Meets, Anc, Tree
<1>4. CASE todo
  <2>1. pos' = 1 /\ todo' = FALSE /\ pc' = pc
    BY <1>4 DEF EndOfSweep
  <2>2. \A x \in Node \ {G.entry} : ~(index[x] < 1)
    <3> SUFFICES ASSUME NEW x \in Node \ {G.entry} PROVE ~(index[x] < 1)
      OBVIOUS
    <3>1. index[x] >= 1 /\ index[x] \in 0..size - 1
      BY EntryFirst
    <3> QED BY <3>1
  <2>3. pos' \in 1..size' /\ todo' \in BOOLEAN
    <3>1. pos' \in 1..size'
      BY <1>1, <2>1
    <3>2. todo' \in BOOLEAN
      BY ONLY <2>1
    <3> QED BY <3>1, <3>2
  <2>4. ~todo' => \A x \in Node \ {G'.entry} : index'[x] < pos' => Meets(x)'
    BY <1>1, <2>1, <2>2
  <2>5. SweepInv'
    BY <2>3, <2>4 DEF SweepInv
  <2> QED BY <1>2, <1>4, <2>1, <2>5
<1>5. CASE ~todo
  <2>1. pos' = pos /\ todo' = todo /\ pc' = "frontier"
    BY <1>5 DEF EndOfSweep
  <2>2. \A x \in Node \ {G.entry} : Meets(x)
    BY <1>1, <1>5 DEF SweepInv, OrderInv
  <2>3. DoneInv'
    BY <1>1, <1>3, <2>1, <2>2 DEF DoneInv, SweepInv
  <2> QED BY <1>2, <1>5, <2>1, <2>3
<1> QED BY <1>4, <1>5

(* The invariant.                                                              *)
LEMMA NextInv == IInv /\ [Next]_vars => IInv'
<1> SUFFICES ASSUME IInv, [Next]_vars PROVE IInv'
  OBVIOUS
<1>1. GraphInv'
  BY DEF IInv, GraphInv, Next, vars, Descend, Ascend, FirstIdoms, Sweep, EndOfSweep, Frontier
<1>2. GraphInv
  BY DEF IInv
<1>3. CASE Descend
  <2>1. pc = "number" /\ NumInv /\ pos = 0 /\ todo = FALSE
    BY <1>3 DEF IInv, Descend
  <2> QED BY <1>1, <1>2, <1>3, <2>1, DescendInv DEF IInv, Descend
<1>4. CASE Ascend
  <2>1. pc = "number" /\ NumInv /\ pos = 0 /\ todo = FALSE
    BY <1>4 DEF IInv, Ascend
  <2> QED BY <1>1, <1>2, <1>4, <2>1, AscendInv DEF IInv, Ascend
<1>5. CASE FirstIdoms
  <2>1. pc = "number" /\ NumInv /\ pc' = "sweep"
    BY <1>5 DEF IInv, FirstIdoms
  <2> QED BY <1>1, <1>2, <1>5, <2>1, FirstIdomsInv DEF IInv
<1>6. CASE Sweep
  <2>1. pc = "sweep" /\ OrderInv /\ TreeInv /\ SweepInv /\ pc' = pc
    BY <1>6 DEF IInv, Sweep
  <2> QED BY <1>1, <1>2, <1>6, <2>1, SweepKeeps DEF IInv
<1>7. CASE EndOfSweep
  <2>1. pc = "sweep" /\ OrderInv /\ TreeInv /\ SweepInv
    BY <1>7 DEF IInv, EndOfSweep
  <2> QED BY <1>1, <1>2, <1>7, <2>1, EndKeeps DEF IInv
<1>8. ASSUME Frontier \/ UNCHANGED vars, pc # "number", pc # "sweep" PROVE IInv'
  <2>1. /\ G' = G /\ index' = index /\ calls' = calls /\ i' = i /\ idoms' = idoms /\ size' = size
        /\ pos' = pos /\ todo' = todo
    BY <1>8 DEF Frontier, vars, size
  <2>2. OrderInv /\ TreeInv /\ DoneInv
    BY <1>8 DEF IInv
  <2>3. /\ \A x : Starts(x)' = Starts(x)
        /\ \A x : Meets(x)' = Meets(x)
        /\ \A x : Linked(x)' = Linked(x)
        /\ Joins' = Joins
    BY <2>1 DEF Starts, Meets, Anc, Tree, Linked, Chain, Joins
  <2>4. OrderInv' /\ TreeInv' /\ DoneInv'
    BY <2>1, <2>2, <2>3 DEF OrderInv, TreeInv, DoneInv
  <2>5. \/ pc' = "done" /\ frontier' = [x \in Node |-> {n \in Joins : x \in Linked(n)}]
        \/ pc' = "frontier"
    BY <1>8 DEF Frontier, vars, IInv
  <2> QED BY <1>1, <2>3, <2>4, <2>5 DEF IInv
<1>9. CASE Frontier
  BY <1>8, <1>9 DEF Frontier
<1>10. CASE UNCHANGED vars
  <2>1. CASE pc = "number" \/ pc = "sweep"
    <3>1. /\ G' = G /\ index' = index /\ calls' = calls /\ i' = i /\ idoms' = idoms /\ size' = size
          /\ pos' = pos /\ todo' = todo /\ pc' = pc
      BY <1>10 DEF vars, size
    <3>2. /\ \A x : Starts(x)' = Starts(x)
          /\ \A x : Meets(x)' = Meets(x)
          /\ Given' = Given
      BY <3>1 DEF Starts, Meets, Anc, Tree, Given, New, Open
    <3>3. NumInv => NumInv'
      BY <3>1, <3>2 DEF NumInv, New, Open
    <3>4. OrderInv /\ TreeInv /\ SweepInv => OrderInv' /\ TreeInv' /\ SweepInv'
      BY <3>1, <3>2 DEF OrderInv, TreeInv, SweepInv
    <3> QED BY <1>1, <2>1, <3>1, <3>3, <3>4 DEF IInv
  <2>2. CASE pc # "number" /\ pc # "sweep"
    BY <1>8, <1>10, <2>2
  <2> QED BY <2>1, <2>2
<1> QED BY <1>3, <1>4, <1>5, <1>6, <1>7, <1>9, <1>10 DEF Next

THEOREM Invariance == GraphsOK /\ IsFiniteSet(Node) /\ Spec => []IInv
BY InitInv, NextInv, PTL DEF Spec

-----------------------------------------------------------------------------
THEOREM Types == GraphsOK /\ IsFiniteSet(Node) /\ Spec => []TypeOK
<1>1. IInv => TypeOK
  <2> SUFFICES ASSUME IInv PROVE TypeOK
    OBVIOUS
  <2>1. size \in Nat
    BY FS_CardinalityType DEF size, IInv, GraphInv
  <2>2. CASE pc = "number"
    <3>1. NumInv /\ pos = 0 /\ todo = FALSE
      BY <2>2 DEF IInv
    <3>2. index \in [Node -> {New, Open} \cup 0..size - 1] /\ i \in 0..size /\ calls \in Seq(Node)
      BY <3>1 DEF NumInv
    <3>3. pos \in 0..size
      BY <2>1, <3>1
    <3>4. todo \in BOOLEAN
      BY ONLY <3>1
    <3> QED BY <2>2, <3>2, <3>3, <3>4 DEF TypeOK
  <2>3. CASE pc # "number"
    <3>1. OrderInv /\ TreeInv /\ pos \in 0..size /\ todo \in BOOLEAN /\ pc \in {"sweep", "frontier", "done"}
      BY <2>1, <2>3 DEF IInv, SweepInv, DoneInv
    <3>2. index \in [Node -> {New, Open} \cup 0..size - 1] /\ i \in 0..size /\ calls \in Seq(Node)
      BY <2>1, <3>1 DEF OrderInv
    <3>3. idoms \in [Node -> Node]
      BY <3>1 DEF TreeInv
    <3> QED BY <3>1, <3>2, <3>3 DEF TypeOK
  <2> QED BY <2>2, <2>3
<1> QED BY Invariance, <1>1, PTL

(* cfg.cpp: assert(i == 0); and no node but the entry is without a predecessor     *)
(* to start with, so that unreachable() in DomTreeBase::create is not reached.      *)
THEOREM Numbers == GraphsOK /\ IsFiniteSet(Node) /\ Spec => []Numbered
<1>1. IInv => Numbered
  BY DEF IInv, OrderInv, Numbered
<1> QED BY Invariance, <1>1, PTL

(* Whatever the first guess and the order, the chains only go to smaller numbers.  *)
THEOREM Descends == GraphsOK /\ IsFiniteSet(Node) /\ Spec => []ChainsDescend
<1>1. IInv => ChainsDescend
  BY DEF IInv, TreeInv, ChainsDescend
<1> QED BY Invariance, <1>1, PTL

(* When a sweep changes nothing, idom(n) is the immediate dominator of n, in        *)
(* either direction.                                                           *)
THEOREM Exact == GraphsOK /\ IsFiniteSet(Node) /\ Spec => []IdomsExact
<1>1. IInv => IdomsExact
  <2> SUFFICES ASSUME IInv, pc \in {"frontier", "done"}, NEW n \in Node \ {G.entry}
               PROVE  LET D == {a \in Node : n \in Dominated(G)[a]} \ {n}
                      IN  idoms[n] \in D /\ \A a \in D : idoms[n] \in Dominated(G)[a]
    BY DEF IdomsExact
  <2>1. GraphInv /\ OrderInv /\ TreeInv /\ \A x \in Node \ {G.entry} : Meets(x)
    BY DEF IInv, DoneInv
  <2>2. idoms[n] \in Node /\ idoms[n] # n /\ idoms[n] \in Anc(n)
    <3>1. idoms[n] \in Node /\ index[idoms[n]] < index[n] /\ index[n] \in Nat
      BY <2>1 DEF TreeInv, OrderInv
    <3> QED BY <2>1, <3>1, AncIs
  <2>3. n \in Dominated(G)[idoms[n]]
    BY <2>1, <2>2, AboveDominates
  <2>4. ASSUME NEW a \in Node \ {n}, n \in Dominated(G)[a] PROVE idoms[n] \in Dominated(G)[a]
    BY <2>1, <2>4 DEF TreeInv
  <2> QED BY <2>2, <2>3, <2>4
<1> QED BY Invariance, <1>1, PTL

-----------------------------------------------------------------------------
(* Of two nodes, each above the other, there is one.                              *)
LEMMA AncAnti ==
    ASSUME GraphInv, OrderInv, TreeInv, NEW x \in Node, NEW y \in Anc(x), x \in Anc(y)
    PROVE  x = y
<1>1. y \in Node /\ index[y] <= index[x] /\ (y # x => index[y] < index[x])
  BY AncSmaller
<1>2. index[x] <= index[y]
  BY <1>1, AncSmaller
<1> QED BY <1>1, <1>2 DEF OrderInv

(* The chain from p up to stop is what is above p and not above stop.              *)
LEMMA ChainIs ==
    ASSUME GraphInv, OrderInv, TreeInv, NEW p \in Node, NEW stop \in Anc(p)
    PROVE  Chain(p, stop) = Anc(p) \ Anc(stop)
<1> DEFINE next == [n \in Node |-> IF n = stop THEN {} ELSE {idoms[n]}]
           L    == Least(next, {p})
<1>1. stop \in Node /\ Anc(p) \subseteq Node /\ Anc(stop) \subseteq Anc(p) /\ stop \in Anc(stop) /\ p \in Anc(p)
  BY AncIs, AncUp
<1>2. next \in [Node -> SUBSET Node] /\ {p} \in SUBSET Node /\ \A n \in Node \ {stop} : next[n] = {idoms[n]}
  BY DEF TreeInv
<1>3. next[stop] = {}
  BY <1>1
<1>4. Chain(p, stop) = L \ {stop}
  <2>1. Chain(p, stop) = Reach(next, {p}) \ {stop}
    BY DEF Chain
  <2>2. IsFiniteSet(Node)
    BY DEF GraphInv
  <2> HIDE DEF next
  <2> QED BY <1>2, <2>1, <2>2, ReachIs
<1>5. /\ p \in L /\ L \subseteq Node /\ \A d \in L : next[d] \subseteq L
      /\ \A C \in SUBSET Node : p \in C /\ (\A d \in C : next[d] \subseteq C) => L \subseteq C
  <2> HIDE DEF next
  <2> QED BY <1>2, LeastIs DEF IsClosed
<1> HIDE DEF next, L
<1>6. L \subseteq (Anc(p) \ Anc(stop)) \cup {stop}
  <2> DEFINE C == (Anc(p) \ Anc(stop)) \cup {stop}
  <2>1. p \in C
    <3>1. p \in Anc(stop) => p = stop
      BY AncAnti
    <3> QED BY <1>1, <3>1
  <2>2. ASSUME NEW m \in C PROVE next[m] \subseteq C
    <3>1. CASE m = stop
      BY <1>3, <3>1
    <3>2. CASE m # stop
      <4>1. m \in Anc(p) /\ m \notin Anc(stop) /\ m \in Node
        BY <1>1, <3>2
      <4>2. stop \in Anc(m)
        BY <4>1, AncLinear
      <4>3. idoms[m] \in Node /\ idoms[m] \in Anc(p) /\ stop \in Anc(idoms[m])
        BY <3>2, <4>1, <4>2, AncSplit, AncIs
      <4>4. idoms[m] \in Anc(stop) => idoms[m] = stop
        BY <1>1, <4>3, AncAnti
      <4> QED BY <1>2, <3>2, <4>1, <4>3, <4>4
    <3> QED BY <3>1, <3>2
  <2>3. C \in SUBSET Node
    BY <1>1
  <2> HIDE DEF C
  <2>4. L \subseteq C
    BY <1>5, <2>1, <2>2, <2>3
  <2> QED BY <2>4 DEF C
<1>7. Anc(p) \subseteq L \cup Anc(stop)
  <2>1. ASSUME NEW m \in L \cup Anc(stop) PROVE idoms[m] \in L \cup Anc(stop)
    <3>1. CASE m \in Anc(stop)
      BY <1>1, <3>1, AncIs
    <3>2. CASE m \notin Anc(stop)
      <4>1. m \in L /\ m \in Node \ {stop}
        BY <1>1, <1>5, <3>2
      <4> QED BY <1>2, <1>5, <4>1
    <3> QED BY <3>1, <3>2
  <2>2. L \cup Anc(stop) \in SUBSET Node /\ p \in L \cup Anc(stop)
    BY <1>1, <1>5
  <2> QED BY <2>1, <2>2, AncIs
<1> QED BY <1>1, <1>4, <1>6, <1>7

(* A node with a single predecessor is dominated by it.                           *)
LEMMA OnlyPred ==
    ASSUME GraphInv, OrderInv, NEW n \in Node \ {G.entry}, NEW p, G.preds[n] = {p}
    PROVE  p \in Node \ {n} /\ n \in Dominated(G)[p]
<1>1. p \in Node /\ \A m \in Node : n \in G.succs[m] => m = p
  BY DEF GraphInv
<1>2. p # n
  <2>1. p \in Starts(n)
    BY DEF OrderInv, Starts
  <2>2. index[p] < index[n] /\ index[n] \in Nat
    BY <2>1 DEF Starts, OrderInv
  <2> QED BY <2>2
<1>3. CASE p = G.entry
  <2>1. Dominated(G)[G.entry] = Node
    BY EntryDominates
  <2> QED BY <1>1, <1>2, <1>3, <2>1
<1>4. CASE p # G.entry
  <2> DEFINE C == Node \ {n, p}
  <2>1. G.entry \in C /\ C \in SUBSET Node /\ \A m \in C : G.succs[m] \ {p} \subseteq C
    BY <1>1, <1>4 DEF GraphInv
  <2> HIDE DEF C
  <2>2. Around(G, p) \subseteq C
    BY <1>1, <1>4, <2>1, AroundIs
  <2>3. n \notin Around(G, p)
    BY <2>2 DEF C
  <2> QED BY <1>1, <1>2, <2>3, DominatedIs
<1> QED BY <1>3, <1>4

(* The frontier of m is where the dominance of m ends, although only the nodes     *)
(* with two predecessors are looked at.                                         *)
THEOREM Frontiers == GraphsOK /\ IsFiniteSet(Node) /\ Spec => []FrontierExact
<1>1. IInv => FrontierExact
  <2> SUFFICES ASSUME IInv, pc = "done", NEW m \in Node
               PROVE  frontier[m] = LET D == Dominated(G)[m]
                                    IN  {n \in Node : G.preds[n] \cap D # {} /\ n \notin D \ {m}}
    BY DEF FrontierExact
  <2>1. GraphInv /\ OrderInv /\ TreeInv /\ (\A x \in Node \ {G.entry} : Meets(x))
    BY DEF IInv, DoneInv
  <2>2. frontier[m] = {n \in Joins : m \in Linked(n)}
    BY DEF IInv
  <2>3. ASSUME NEW n \in Node PROVE n \in Dominated(G)[m] <=> m \in Anc(n)
    BY <2>1, DominatesAbove, AboveDominates
  <2>4. Dominated(G)[m] \subseteq Node
    BY <2>1, DominatedIs
  <2> SUFFICES ASSUME NEW n \in Node
               PROVE  (n \in Joins /\ m \in Linked(n)) <=>
                        (\E p \in G.preds[n] : m \in Anc(p)) /\ (m \in Anc(n) => n = m)
    <3>1. ASSUME NEW x \in Node, NEW p \in G.preds[x] PROVE p \in Dominated(G)[m] <=> m \in Anc(p)
      <4>1. p \in Node
        BY <2>1 DEF GraphInv
      <4> QED BY <2>3, <4>1
    <3>2. Joins \subseteq Node
      BY DEF Joins
    <3> QED BY <2>2, <2>3, <3>1, <3>2
  <2>5. CASE n = G.entry
    BY <2>1, <2>5 DEF Joins, GraphInv
  <2>6. CASE n # G.entry
    <3>1. /\ \A p \in G.preds[n] : p \in Node /\ idoms[n] \in Anc(p) /\ Chain(p, idoms[n]) = Anc(p) \ Anc(idoms[n])
          /\ Anc(n) = {n} \cup Anc(idoms[n]) /\ idoms[n] \in Node /\ index[idoms[n]] < index[n]
      BY <2>1, <2>6, ChainIs, AncSplit DEF Meets, GraphInv, TreeInv
    <3>2. ASSUME n \in Joins, m \in Linked(n)
          PROVE  (\E p \in G.preds[n] : m \in Anc(p)) /\ (m \in Anc(n) => n = m)
      <4>1. PICK p \in G.preds[n] : m \in Chain(p, idoms[n])
        BY <3>2 DEF Linked
      <4> QED BY <3>1, <4>1
    <3>3. ASSUME NEW p \in G.preds[n], m \in Anc(p), m \in Anc(n) => n = m
          PROVE  n \in Joins /\ m \in Linked(n)
      <4>1. m \notin Anc(idoms[n])
        <5> SUFFICES ASSUME m \in Anc(idoms[n]) PROVE FALSE
          OBVIOUS
        <5>1. n = m
          BY <3>1, <3>3
        <5>2. index[m] <= index[idoms[n]]
          BY <2>1, <3>1, AncSmaller
        <5> QED BY <2>1, <3>1, <5>1, <5>2 DEF OrderInv
      <4>2. m \in Linked(n)
        BY <3>1, <3>3, <4>1 DEF Linked
      <4>3. G.preds[n] # {p}
        <5> SUFFICES ASSUME G.preds[n] = {p} PROVE FALSE
          OBVIOUS
        <5>1. p \in Node \ {n} /\ n \in Dominated(G)[p]
          BY <2>1, <2>6, OnlyPred
        <5>2. p \in Anc(n)
          BY <2>1, <5>1, DominatesAbove
        <5>3. p \in Anc(idoms[n])
          BY <3>1, <5>1, <5>2
        <5>4. m \in Anc(idoms[n])
          BY <2>1, <3>1, <3>3, <5>3, AncUp
        <5> QED BY <4>1, <5>4
      <4>4. Cardinality(G.preds[n]) > 1
        <5>1. IsFiniteSet(G.preds[n])
          BY <2>1, FS_Subset DEF GraphInv
        <5>2. IsFiniteSet(G.preds[n] \ {p}) /\ Cardinality(G.preds[n] \ {p}) = Cardinality(G.preds[n]) - 1
          BY <3>3, <5>1, FS_RemoveElement
        <5>3. G.preds[n] \ {p} # {}
          BY <3>3, <4>3
        <5>4. Cardinality(G.preds[n] \ {p}) # 0 /\ Cardinality(G.preds[n] \ {p}) \in Nat
          BY <5>2, <5>3, FS_EmptySet, FS_CardinalityType
        <5>5. Cardinality(G.preds[n]) \in Nat
          BY <5>1, FS_CardinalityType
        <5> QED BY <5>2, <5>4, <5>5
      <4> QED BY <2>6, <4>2, <4>4 DEF Joins
    <3> QED BY <3>2, <3>3
  <2> QED BY <2>5, <2>6
<1> QED BY Invariance, <1>1, PTL

(* All that is promised of the tree and its frontiers.                           *)
THEOREM Sound == GraphsOK /\ IsFiniteSet(Node) /\ Spec => []DomExact
BY Types, Numbers, Descends, Exact, Frontiers, PTL DEF DomExact
=============================================================================
