----------------------------- MODULE World_proofs -----------------------------
(***************************************************************************)
(* What TLAPS proves of World, for any node kinds and any number of defs.   *)
(***************************************************************************)
EXTENDS World, WellFoundedInduction, TLAPS

Constant(D, d) == D[d].dep \cap {"Nom", "Var"} = {}

(* Each def by itself.  A structural def is made of older defs, the operands   *)
(* of a nominal are defs or not set, and a nominal depends on itself only.     *)
DefOK(D, d) ==
    /\ D[d] \in Def
    /\ D[d].nom <=> D[d].node \in Nominal
    /\ d = Univ => D[d].node = "Univ" /\ D[d].type = Null /\ Len(D[d].ops) = 0
    /\ d # Univ => /\ D[d].type \in DOMAIN D
                   /\ D[d].node \in DOMAIN Arity
                   /\ Len(D[d].ops) = Arity[D[d].node]
    /\ \A i \in 1..Len(D[d].ops) : D[d].ops[i] \in DOMAIN D \cup {Null}
    /\ D[d].nom => D[d].dep = {"Nom"}
    /\ ~D[d].nom => /\ D[d].type < d
                    /\ \A i \in 1..Len(D[d].ops) : D[d].ops[i] \in DOMAIN D /\ D[d].ops[i] < d
    /\ D[d].node = "Var" => Len(D[d].ops) = 1 /\ D[D[d].ops[1]].nom
    /\ D[d].nom /\ D[d].node = "Lam" => D[D[d].type].node = "Pi"

DefsOK(D) ==
    /\ D \in [DOMAIN D -> Def]
    /\ DOMAIN D \subseteq Gid
    /\ Univ \in DOMAIN D
    /\ \A d \in DOMAIN D : DefOK(D, d)

(* UsesExact for given defs and uses, so that it can be followed through a     *)
(* step that changes several operands.                                        *)
UsesOK(D, U) ==
    /\ U \subseteq UseSet(DOMAIN D)
    /\ \A u \in U : /\ u.index \in 0..Len(D[u.user].ops)
                    /\ u.def = (IF u.index = Type THEN D[u.user].type ELSE D[u.user].ops[u.index])
    /\ \A u \in DOMAIN D : \A i \in 1..Len(D[u].ops) :
           D[u].ops[i] # Null /\ (D[u].nom \/ ~Constant(D, D[u].ops[i])) => Use(D[u].ops[i], u, i) \in U
    /\ \A u \in DOMAIN D \ {Univ} : ~Constant(D, D[u].type) => Use(D[u].type, u, Type) \in U

HashOK(D) ==
    \A d, e \in DOMAIN D :
        ~D[d].nom /\ ~D[e].nom /\ D[d].node = D[e].node /\ D[d].type = D[e].type /\ D[d].ops = D[e].ops
            => d = e

CacheOK == \A p \in DOMAIN cache : p \in live \X live /\ cache[p] \in Seq(Gid \cup {Null})

IInv ==
    /\ curr_gid \in Gid
    /\ live \subseteq 1..curr_gid
    /\ frozen \in BOOLEAN
    /\ CacheOK
    /\ DefsOK(defs)
    /\ UsesOK(defs, uses)
    /\ HashOK(defs)

-----------------------------------------------------------------------------
(* The inductive invariant gives the properties of World.                     *)
LEMMA InvTypeOK == IInv => TypeOK
<1> SUFFICES ASSUME IInv PROVE TypeOK
  OBVIOUS
<1>1. Univ \in live /\ defs \in [live -> Def]
  BY Zenon DEF IInv, DefsOK, live
<1>2. uses \subseteq UseSet(live)
  BY DEF IInv, UsesOK, live
<1> QED BY <1>1, <1>2, Zenon DEF IInv, TypeOK, CacheOK

(* No two live structural defs agree in what hash-consing compares.           *)
LEMMA InvHashConsed == IInv => HashConsed
BY DEF IInv, HashConsed, HashOK, Structurals, live

(* The uses are the operands and types of the live defs, seen from below.     *)
LEMMA InvUsesExact == IInv => UsesExact
BY DEF IInv, UsesExact, UsesOK, Constant, dep_const, live

(* A structural def is made of defs that are live and older.                  *)
LEMMA InvAcyclic == IInv => Acyclic
<1> SUFFICES ASSUME IInv, NEW d \in Structurals, NEW e \in Parts(d)
             PROVE  e \in live /\ e < d
  BY DEF Acyclic
<1>1. d \in live /\ DefOK(defs, d) /\ ~defs[d].nom
  BY DEF IInv, DefsOK, Structurals, live
<1>2. CASE e = defs[d].type
  BY <1>1, <1>2 DEF DefOK, Parts, live, Null
<1>3. CASE \E i \in 1..Len(defs[d].ops) : e = defs[d].ops[i]
  BY <1>1, <1>3 DEF DefOK, live
<1> QED BY <1>2, <1>3 DEF Parts

(* Def::has_var, looking through the uses of a nominal, finds its Var.         *)
LEMMA InvVarIsFound == IInv => VarIsFound
<1> SUFFICES ASSUME IInv, NEW v \in live, defs[v].node = "Var"
             PROVE  v \in FoundVars(defs[v].ops[1])
  BY DEF VarIsFound
<1> DEFINE n == defs[v].ops[1]
<1>1. v # Univ /\ Len(defs[v].ops) = 1 /\ n \in live /\ defs[n].nom /\ ~defs[v].nom
  BY WorldAssumption DEF IInv, DefsOK, DefOK, live
<1>2. defs[n].dep = {"Nom"} /\ n # Null
  BY <1>1 DEF IInv, DefsOK, DefOK, live, Gid, Null
<1>3. 1 \in 1..Len(defs[v].ops)
  BY <1>1
<1>4. Use(n, v, 1) \in uses
  BY <1>1, <1>2, <1>3 DEF IInv, UsesOK, Constant, live
<1> QED BY <1>4 DEF FoundVars, UsesOf, Use

-----------------------------------------------------------------------------
(* A new World holds Univ alone.                                              *)
LEMMA InitInv == Init => IInv
<1> SUFFICES ASSUME Init PROVE IInv
  OBVIOUS
<1>1. live = {1} /\ curr_gid = 1 /\ 1 \in Gid /\ frozen = FALSE /\ uses = {}
  BY WorldAssumption DEF Init, live, Univ, Gid
<1>2. defs[1] = [node |-> "Univ", nom |-> FALSE, type |-> Null, ops |-> <<>>, dep |-> {}]
  BY DEF Init, Univ
<1>3. defs[1] \in Def /\ Len(defs[1].ops) = 0 /\ defs = [d \in {1} |-> defs[1]]
  <2>1. <<>> \in Seq(Gid \cup {Null})
    OBVIOUS
  <2> QED BY <1>2, <2>1 DEF Def, Node, Deps, Init, Univ
<1>4. DefOK(defs, 1)
  BY <1>1, <1>2, <1>3, WorldAssumption DEF DefOK, Univ, Null
<1>5. DefsOK(defs)
  BY <1>1, <1>3, <1>4 DEF DefsOK, live, Univ
<1>6. UsesOK(defs, uses)
  BY <1>1, <1>3 DEF UsesOK, live, Univ
<1>7. CacheOK
  BY DEF Init, CacheOK
<1>8. HashOK(defs)
  BY <1>1 DEF HashOK, live
<1>9. live \subseteq 1..curr_gid /\ curr_gid \in Gid
  BY <1>1
<1>10. frozen \in BOOLEAN
  BY <1>1
<1> QED BY <1>5, <1>6, <1>7, <1>8, <1>9, <1>10, Zenon DEF IInv

-----------------------------------------------------------------------------
(* A def with gid g is added.  The new gid is larger than those of all defs.  *)
Fresh(D, g) == g \in Gid /\ \A d \in DOMAIN D : d < g

Extended(D, g, def) == [x \in DOMAIN D \cup {g} |-> IF x = g THEN def ELSE D[x]]

(* A fresh def that is well made leaves the defs well made.                   *)
LEMMA ExtendedDefs ==
    ASSUME NEW D, NEW g, NEW def \in Def, DefsOK(D), Fresh(D, g),
           DefOK(Extended(D, g, def), g)
    PROVE  /\ DefsOK(Extended(D, g, def))
           /\ g \notin DOMAIN D
           /\ DOMAIN Extended(D, g, def) = DOMAIN D \cup {g}
           /\ Extended(D, g, def)[g] = def
           /\ \A x \in DOMAIN D : Extended(D, g, def)[x] = D[x]
<1> DEFINE E == Extended(D, g, def)
<1>1. /\ g \notin DOMAIN D
      /\ DOMAIN E = DOMAIN D \cup {g}
      /\ E[g] = def
      /\ \A x \in DOMAIN D : E[x] = D[x]
  BY DEF Extended, Fresh, DefsOK, Gid
<1>2. E \in [DOMAIN E -> Def] /\ DOMAIN E \subseteq Gid /\ Univ \in DOMAIN E
  BY DEF Extended, Fresh, DefsOK
<1>3. ASSUME NEW d \in DOMAIN D PROVE DefOK(E, d)
  <2>1. DefOK(D, d) /\ E[d] = D[d] /\ DOMAIN D \subseteq DOMAIN E
    BY <1>1, <1>3 DEF DefsOK
  <2>2. D[d].node = "Var" => E[E[d].ops[1]].nom
    <3> SUFFICES ASSUME D[d].node = "Var" PROVE E[D[d].ops[1]].nom
      BY <2>1
    <3>1. ~D[d].nom /\ Len(D[d].ops) = 1
      BY <2>1, WorldAssumption DEF DefOK
    <3>2. D[d].ops[1] \in DOMAIN D /\ D[D[d].ops[1]].nom
      BY <2>1, <3>1 DEF DefOK
    <3> QED BY <3>2, <1>1
  <2>3. d # Univ => E[E[d].type].node = D[D[d].type].node
    BY <1>1, <2>1 DEF DefOK
  <2>4. D[d].nom => d # Univ
    BY <2>1, WorldAssumption DEF DefOK
  <2> HIDE DEF E
  <2> QED BY <2>1, <2>2, <2>3, <2>4 DEF DefOK
<1>4. DefsOK(E)
  <2>1. DefOK(E, g)
    OBVIOUS
  <2> HIDE DEF E
  <2>2. \A d \in DOMAIN E : DefOK(E, d)
    BY <1>1, <1>3, <2>1, Zenon
  <2> QED BY <1>2, <2>2, Zenon DEF DefsOK
<1> QED BY <1>1, <1>4

(* The uses registered for the new def are those of its type and operands.     *)
NewUses(D, g, def, I, T) ==
    {Use(def.ops[i], g, i) : i \in I} \cup {Use(t, g, Type) : t \in T}

(* Def::finalize enters the uses of a fresh def, and no others.               *)
LEMMA ExtendedUses ==
    ASSUME NEW D, NEW U, NEW g, NEW def \in Def, DefsOK(D), Fresh(D, g),
           DefOK(Extended(D, g, def), g), UsesOK(D, U),
           NEW I \in SUBSET (1..Len(def.ops)), NEW T \in SUBSET {def.type},
           def.type \in DOMAIN D,
           \A i \in 1..Len(def.ops) : def.ops[i] \in DOMAIN D \cup {Null},
           \A i \in I : def.ops[i] \in DOMAIN D,
           \A i \in 1..Len(def.ops) : def.ops[i] # Null /\ (def.nom \/ ~Constant(D, def.ops[i])) => i \in I,
           ~Constant(D, def.type) => def.type \in T
    PROVE  UsesOK(Extended(D, g, def), U \cup NewUses(D, g, def, I, T))
<1> DEFINE E == Extended(D, g, def)
           V == U \cup NewUses(D, g, def, I, T)
<1>1. /\ DefsOK(E)
      /\ g \notin DOMAIN D
      /\ DOMAIN E = DOMAIN D \cup {g}
      /\ E[g] = def
      /\ \A x \in DOMAIN D : E[x] = D[x]
  <2>1. DefsOK(Extended(D, g, def)) /\ g \notin DOMAIN D
    BY ExtendedDefs
  <2>2. DOMAIN Extended(D, g, def) = DOMAIN D \cup {g} /\ Extended(D, g, def)[g] = def
    BY <2>1 DEF Extended
  <2>3. \A x \in DOMAIN D : Extended(D, g, def)[x] = D[x]
    BY <2>1 DEF Extended
  <2> QED BY <2>1, <2>2, <2>3, Zenon
<1> HIDE DEF E
<1>n. Len(def.ops) \in Nat
  BY DEF Def
<1>2. \A u \in NewUses(D, g, def, I, T) :
        /\ u \in UseSet(DOMAIN E)
        /\ u.user = g
        /\ u.index \in 0..Len(def.ops)
        /\ u.def = (IF u.index = Type THEN def.type ELSE def.ops[u.index])
  <2>1. ASSUME NEW i \in I
        PROVE  /\ Use(def.ops[i], g, i) \in UseSet(DOMAIN E)
               /\ i \in 0..Len(def.ops) /\ i # Type
    BY <1>1, <1>n DEF Type, Use, UseSet
  <2>2. \A t \in T : t = def.type /\ Use(t, g, Type) \in UseSet(DOMAIN E)
    BY <1>1 DEF Type, Use, UseSet
  <2> QED BY <2>1, <2>2, <1>n DEF NewUses, Type, Use
<1>3. V \subseteq UseSet(DOMAIN E)
  <2>1. U \subseteq UseSet(DOMAIN D)
    BY DEF UsesOK
  <2> QED BY <2>1, <1>1, <1>2 DEF UseSet
<1>4. ASSUME NEW u \in V
      PROVE  /\ u.index \in 0..Len(E[u.user].ops)
             /\ u.def = (IF u.index = Type THEN E[u.user].type ELSE E[u.user].ops[u.index])
  <2>1. CASE u \in U
    <3>1. u \in UseSet(DOMAIN D)
      BY <2>1, Zenon DEF UsesOK
    <3>2. u.user \in DOMAIN D
      BY <3>1 DEF UseSet
    <3> QED BY <2>1, <3>2, <1>1 DEF UsesOK
  <2>2. CASE u \in NewUses(D, g, def, I, T)
    BY <2>2, <1>2, <1>1
  <2> QED BY <2>1, <2>2
<1>5. \A x \in DOMAIN D : Constant(E, x) <=> Constant(D, x)
  BY <1>1 DEF Constant
<1>6. ASSUME NEW u \in DOMAIN E, NEW i \in 1..Len(E[u].ops), E[u].ops[i] # Null,
             E[u].nom \/ ~Constant(E, E[u].ops[i])
      PROVE  Use(E[u].ops[i], u, i) \in V
  <2>1. CASE u = g
    <3>1. E[u].ops[i] \in DOMAIN D /\ i \in 1..Len(def.ops)
      BY <2>1, <1>1, <1>6
    <3>2. i \in I
      BY <2>1, <3>1, <1>1, <1>5, <1>6
    <3> QED BY <2>1, <3>2, <1>1 DEF NewUses
  <2>2. CASE u \in DOMAIN D
    <3>1. E[u] = D[u] /\ DefOK(D, u)
      BY <2>2, <1>1 DEF DefsOK
    <3>2. E[u].ops[i] \in DOMAIN D
      BY <3>1, <1>6 DEF DefOK
    <3>3. D[u].nom \/ ~Constant(D, D[u].ops[i])
      BY <3>1, <3>2, <1>5, <1>6
    <3> QED BY <3>1, <3>3, <2>2, <1>6 DEF UsesOK
  <2> QED BY <2>1, <2>2, <1>1
<1>7. ASSUME NEW u \in DOMAIN E \ {Univ}, ~Constant(E, E[u].type)
      PROVE  Use(E[u].type, u, Type) \in V
  <2>1. CASE u = g
    BY <2>1, <1>1, <1>5, <1>7 DEF NewUses
  <2>2. CASE u \in DOMAIN D
    <3>1. E[u] = D[u] /\ D[u].type \in DOMAIN D
      BY <2>2, <1>1 DEF DefsOK, DefOK
    <3> QED BY <3>1, <2>2, <1>5, <1>7 DEF UsesOK
  <2> QED BY <2>1, <2>2, <1>1
<1> HIDE DEF V
<1>8. UsesOK(E, V)
  BY <1>3, <1>4, <1>6, <1>7 DEF UsesOK
<1> QED BY <1>8 DEF E, V

(* The next gid names no def, and no def is made of it.                       *)
LEMMA FreshGid == IInv /\ curr_gid < MaxGid => Fresh(defs, curr_gid + 1)
BY WorldAssumption DEF IInv, Fresh, Gid, live

(* live only grows, so that what the cache holds stays good.                  *)
LEMMA CacheGrows == CacheOK /\ live \subseteq live' /\ UNCHANGED cache => CacheOK'
<1> SUFFICES ASSUME CacheOK, live \subseteq live', UNCHANGED cache,
                    NEW p \in DOMAIN cache
             PROVE  p \in live' \X live' /\ cache[p] \in Seq(Gid \cup {Null})
  BY DEF CacheOK
<1>1. p \in live \X live /\ cache[p] \in Seq(Gid \cup {Null})
  BY DEF CacheOK
<1> QED BY <1>1

(* World::unify keeps the invariant, whether it finds the def or makes it.    *)
LEMMA UnifyInv ==
    ASSUME IInv, NEW node \in Structural, NEW type \in live,
           NEW ops \in [1..Arity[node] -> live],
           node = "Var" => defs[ops[1]].nom,
           Unify(node, type, ops)
    PROVE  IInv'
<1> DEFINE g   == curr_gid + 1
           def == [node |-> node, nom |-> FALSE, type |-> type, ops |-> ops,
                   dep |-> finalize(node, type, ops)]
           I   == {j \in 1..Len(ops) : Used(ops[j])}
           T   == {t \in {type} : Used(t)}
<1>1. g \in Gid /\ curr_gid' = g /\ Fresh(defs, g) /\ curr_gid \in Gid
  BY FreshGid, WorldAssumption DEF Unify, IInv, Gid
<1>2. /\ DefsOK(defs) /\ UsesOK(defs, uses) /\ HashOK(defs) /\ CacheOK
      /\ live \subseteq 1..curr_gid /\ frozen \in BOOLEAN /\ UNCHANGED <<frozen, cache>>
  BY DEF IInv, Unify
<1>3. CASE \E d \in live : equal(d, node, type, ops)
  <2>1. UNCHANGED <<defs, uses, frozen, cache>>
    BY <1>3 DEF Unify
  <2>2. live' = live /\ CacheOK'
    BY <1>2, <2>1 DEF live, CacheOK
  <2>3. live \subseteq 1..g
    BY <1>1, <1>2 DEF Gid
  <2>4. DefsOK(defs)' /\ UsesOK(defs, uses)' /\ HashOK(defs)'
    BY <1>2, <2>1
  <2> QED BY <1>1, <1>2, <2>1, <2>2, <2>3, <2>4 DEF IInv
<1>4. CASE ~ \E d \in live : equal(d, node, type, ops)
  <2>1. defs' = Added(curr_gid', def)
    BY <1>4 DEF Unify
  <2>2. uses' = uses \cup {Use(ops[i], curr_gid', i) : i \in I} \cup {Use(t, curr_gid', Type) : t \in T}
    BY <1>4 DEF Unify
  <2>3. Added(g, def) = Extended(defs, g, def)
    BY DEF Added, Extended, live
  <2>4. defs' = Extended(defs, g, def) /\ uses' = uses \cup NewUses(defs, g, def, I, T)
    BY <1>1, <2>1, <2>2, <2>3 DEF NewUses
  <2>5. /\ node # "Univ" /\ node \notin Nominal /\ node \in DOMAIN Arity /\ Arity[node] \in Nat
        /\ node = "Var" => Arity[node] = 1
    BY WorldAssumption
  <2>6. /\ Len(ops) = Arity[node] /\ ops \in Seq(Gid \cup {Null})
        /\ \A i \in 1..Len(ops) : ops[i] \in live
    <3>1. live \subseteq Gid
      BY <1>2 DEF DefsOK, live
    <3> QED BY <2>5, <3>1
  <2>7. finalize(node, type, ops) \in SUBSET Deps
    <3>1. \A d \in live : defs[d].dep \subseteq Deps
      BY <1>2 DEF DefsOK, Def, live
    <3> QED BY <2>6, <3>1 DEF finalize, own_dep, Deps
  <2>8. def \in Def
    BY <1>2, <2>5, <2>6, <2>7 DEF Def, Node, DefsOK, live
  <2>9. DefOK(Extended(defs, g, def), g)
    <3> DEFINE E == Extended(defs, g, def)
    <3>1. DOMAIN E = live \cup {g} /\ E[g] = def /\ g \notin live /\ \A x \in live : E[x] = defs[x] /\ x < g
      BY <1>1 DEF Extended, live, Fresh, Gid
    <3>2. g # Univ
      BY <1>1 DEF Univ, Gid
    <3>3. ASSUME node = "Var" PROVE Len(ops) = 1 /\ E[ops[1]].nom
      <4>1. Len(ops) = 1 /\ 1 \in 1..Len(ops)
        BY <2>5, <2>6, <3>3
      <4>2. ops[1] \in live /\ defs[ops[1]].nom
        BY <2>6, <3>3, <4>1
      <4> HIDE DEF E
      <4> QED BY <3>1, <4>1, <4>2
    <3>4. /\ def.node = node /\ ~def.nom /\ def.type = type /\ def.ops = ops
          /\ def.dep = finalize(node, type, ops)
      OBVIOUS
    <3>5. /\ type \in DOMAIN E /\ type < g
          /\ \A i \in 1..Len(ops) : ops[i] \in DOMAIN E /\ ops[i] < g
      BY <2>6, <3>1
    <3> HIDE DEF E, def, g
    <3>6. E[g] \in Def /\ (E[g].nom <=> E[g].node \in Nominal)
      BY <2>5, <2>8, <3>1, <3>4
    <3>7. g # Univ /\ E[g].type \in DOMAIN E /\ E[g].node \in DOMAIN Arity /\ Len(E[g].ops) = Arity[E[g].node]
      BY <2>5, <2>6, <3>1, <3>2, <3>4, <3>5
    <3>8. /\ ~E[g].nom /\ E[g].type < g
          /\ \A i \in 1..Len(E[g].ops) : E[g].ops[i] \in DOMAIN E /\ E[g].ops[i] < g
      BY <3>1, <3>4, <3>5
    <3>9. E[g].node = "Var" => Len(E[g].ops) = 1 /\ E[E[g].ops[1]].nom
      BY <3>1, <3>3, <3>4
    <3>10. DefOK(E, g)
      BY <3>6, <3>7, <3>8, <3>9 DEF DefOK
    <3> QED BY <3>10 DEF E
  <2>10. DefsOK(defs')
    BY <1>1, <1>2, <2>4, <2>8, <2>9, ExtendedDefs
  <2>11. UsesOK(defs', uses')
    <3>1. I \in SUBSET (1..Len(def.ops)) /\ T \in SUBSET {def.type} /\ def.type \in DOMAIN defs
      BY DEF live
    <3>2. /\ \A i \in 1..Len(def.ops) : def.ops[i] \in DOMAIN defs \cup {Null}
          /\ \A i \in I : def.ops[i] \in DOMAIN defs
      BY <2>6 DEF live
    <3>3. \A i \in 1..Len(def.ops) : def.ops[i] # Null /\ (def.nom \/ ~Constant(defs, def.ops[i])) => i \in I
      BY DEF Used, dep_const, Constant
    <3>4. ~Constant(defs, def.type) => def.type \in T
      BY DEF Used, dep_const, Constant
    <3> HIDE DEF def, I, T, g
    <3> QED BY <1>1, <1>2, <2>4, <2>8, <2>9, <3>1, <3>2, <3>3, <3>4, ExtendedUses
  <2>12. /\ DOMAIN defs' = live \cup {g} /\ defs'[g] = def /\ g \notin live
         /\ \A x \in live : defs'[x] = defs[x]
    BY <1>1, <2>4 DEF Extended, live, Fresh, Gid
  <2>13. HashOK(defs')
    <3> SUFFICES ASSUME NEW d \in live \cup {g}, NEW e \in live \cup {g},
                        ~defs'[d].nom, ~defs'[e].nom, defs'[d].node = defs'[e].node,
                        defs'[d].type = defs'[e].type, defs'[d].ops = defs'[e].ops
                 PROVE  d = e
      BY <2>12 DEF HashOK
    <3>1. CASE d \in live /\ e \in live
      BY <1>2, <2>12, <3>1 DEF HashOK, live
    <3>2. CASE d = g /\ e \in live
      BY <1>4, <2>12, <3>2 DEF equal
    <3>3. CASE d \in live /\ e = g
      BY <1>4, <2>12, <3>3 DEF equal
    <3> QED BY <3>1, <3>2, <3>3
  <2>14. CacheOK'
    BY <1>2, <2>12, CacheGrows DEF live
  <2>15. live' \subseteq 1..curr_gid'
    BY <1>1, <1>2, <2>12 DEF live, Gid
  <2> QED BY <1>1, <1>2, <2>10, <2>11, <2>13, <2>14, <2>15 DEF IInv
<1> QED BY <1>3, <1>4

(* World::insert keeps the invariant: it makes a nominal with unset operands. *)
LEMMA InsertInv ==
    ASSUME IInv, NEW node \in Nominal, NEW type \in live, Insert(node, type),
           node = "Lam" => defs[type].node = "Pi"
    PROVE  IInv'
<1> DEFINE g   == curr_gid + 1
           def == [node |-> node, nom |-> TRUE, type |-> type,
                   ops |-> [i \in 1..Arity[node] |-> Null], dep |-> {"Nom"}]
           T   == {t \in {type} : Used(t)}
<1>1. g \in Gid /\ curr_gid' = g /\ Fresh(defs, g) /\ curr_gid \in Gid
  BY FreshGid, WorldAssumption DEF Insert, IInv, Gid
<1>2. /\ DefsOK(defs) /\ UsesOK(defs, uses) /\ HashOK(defs) /\ CacheOK
      /\ live \subseteq 1..curr_gid /\ frozen \in BOOLEAN /\ UNCHANGED <<frozen, cache>>
  BY DEF IInv, Insert
<1>3. Added(g, def) = Extended(defs, g, def)
  BY DEF Added, Extended, live
<1>4. defs' = Extended(defs, g, def) /\ uses' = uses \cup NewUses(defs, g, def, {}, T)
  BY <1>1, <1>3 DEF NewUses, Insert
<1>5. /\ node # "Univ" /\ node # "Var" /\ node \in DOMAIN Arity /\ Arity[node] \in Nat
  BY WorldAssumption
<1>6. /\ Len(def.ops) = Arity[node] /\ def.ops \in Seq(Gid \cup {Null})
      /\ \A i \in 1..Len(def.ops) : def.ops[i] = Null
  BY <1>5
<1>7. def \in Def
  BY <1>2, <1>5, <1>6 DEF Def, Node, DefsOK, live, Deps
<1>8. /\ DOMAIN Extended(defs, g, def) = live \cup {g} /\ Extended(defs, g, def)[g] = def
      /\ g \notin live /\ \A x \in live : Extended(defs, g, def)[x] = defs[x]
  BY <1>1 DEF Extended, live, Fresh, Gid
<1>9. DefOK(Extended(defs, g, def), g)
  <2>1. g # Univ
    BY <1>1 DEF Univ, Gid
  <2>2. Len(def.ops) = Arity[node] /\ \A i \in 1..Len(def.ops) : def.ops[i] = Null
    BY <1>6
  <2>3. def.node = node /\ def.nom /\ def.type = type /\ def.dep = {"Nom"}
    OBVIOUS
  <2> DEFINE E == Extended(defs, g, def)
  <2>4. E[g] = def /\ type \in DOMAIN E
    BY <1>8
  <2> HIDE DEF E, def, g
  <2>5. E[g] \in Def /\ (E[g].nom <=> E[g].node \in Nominal) /\ E[g].node # "Var"
    BY <1>5, <1>7, <2>3, <2>4
  <2>6. g # Univ /\ E[g].type \in DOMAIN E /\ E[g].node \in DOMAIN Arity /\ Len(E[g].ops) = Arity[E[g].node]
    BY <1>5, <1>6, <2>1, <2>3, <2>4
  <2>7. E[g].nom /\ E[g].dep = {"Nom"} /\ \A i \in 1..Len(E[g].ops) : E[g].ops[i] = Null
    BY <2>2, <2>3, <2>4
  <2>8. E[g].node = "Lam" => E[E[g].type].node = "Pi"
    BY <1>8, <2>3, <2>4 DEF E
  <2>9. DefOK(E, g)
    BY <2>5, <2>6, <2>7, <2>8 DEF DefOK
  <2> QED BY <2>9 DEF E
<1>10. DefsOK(defs')
  BY <1>1, <1>2, <1>4, <1>7, <1>9, ExtendedDefs
<1>11. UsesOK(defs', uses')
  <2>1. {} \in SUBSET (1..Len(def.ops)) /\ T \in SUBSET {def.type} /\ def.type \in DOMAIN defs
    BY DEF live
  <2>2. \A i \in 1..Len(def.ops) : def.ops[i] = Null
    BY <1>6
  <2>3. ~Constant(defs, def.type) => def.type \in T
    BY DEF Used, dep_const, Constant
  <2> HIDE DEF def, T, g
  <2> QED BY <1>1, <1>2, <1>4, <1>7, <1>9, <2>1, <2>2, <2>3, ExtendedUses
<1>12. HashOK(defs')
  <2>1. DOMAIN defs' = live \cup {g} /\ \A x \in live : defs'[x] = defs[x]
    BY <1>4, <1>8
  <2>2. defs'[g] = def /\ def.nom
    BY <1>4, <1>8
  <2> QED BY <1>2, <2>1, <2>2 DEF HashOK, live
<1>13. CacheOK'
  BY <1>2, <1>4, <1>8, CacheGrows DEF live
<1>14. live' \subseteq 1..curr_gid'
  BY <1>1, <1>2, <1>4, <1>8 DEF live, Gid
<1> QED BY <1>1, <1>2, <1>10, <1>11, <1>12, <1>13, <1>14 DEF IInv

-----------------------------------------------------------------------------
(* E is D except that operand i, or the type, of the nominal n is d.           *)
Differs(D, E, n, i, d) ==
    /\ E \in [DOMAIN D -> Def]
    /\ \A x \in DOMAIN D \ {n} : E[x] = D[x]
    /\ E[n].node = D[n].node /\ E[n].nom /\ E[n].dep = D[n].dep
    /\ Len(E[n].ops) = Len(D[n].ops)
    /\ E[n].type = (IF i = Type THEN d ELSE D[n].type)
    /\ \A j \in 1..Len(D[n].ops) : E[n].ops[j] = (IF i = j THEN d ELSE D[n].ops[j])

(* Replacing one operand or the type of a nominal leaves the defs well made.  *)
LEMMA ReplaceOK ==
    ASSUME NEW D, NEW U, NEW E, DefsOK(D), UsesOK(D, U),
           NEW n \in DOMAIN D, D[n].nom,
           NEW i \in 0..Len(D[n].ops), NEW d \in DOMAIN D \cup {Null}, i = Type => d # Null /\ D[n].node # "Lam",
           Differs(D, E, n, i, d)
    PROVE  /\ DefsOK(E)
           /\ UsesOK(E, SetUses(U, n, i, d))
           /\ HashOK(D) => HashOK(E)
<1> DEFINE V == SetUses(U, n, i, d)
<1>1. DOMAIN E = DOMAIN D /\ \A x \in DOMAIN D \ {n} : E[x] = D[x]
  BY DEF Differs
<1>2. /\ DefOK(D, n) /\ n # Univ /\ D[n].node # "Var" /\ D[n].dep = {"Nom"}
      /\ Len(D[n].ops) \in Nat
  BY WorldAssumption DEF DefsOK, DefOK, Def
<1>3. \A x \in DOMAIN D : /\ E[x].dep = D[x].dep /\ E[x].node = D[x].node
                          /\ E[x].nom <=> D[x].nom
                          /\ Len(E[x].ops) = Len(D[x].ops)
                          /\ Constant(E, x) <=> Constant(D, x)
  BY DEF Differs, Constant
<1>4. ASSUME NEW x \in DOMAIN E PROVE DefOK(E, x)
  <2>1. CASE x = n
    <3>1. E[n] \in Def /\ E[n].type \in DOMAIN D
      BY <1>2 DEF Differs, DefOK
    <3>2. \A j \in 1..Len(E[n].ops) : E[n].ops[j] \in DOMAIN D \cup {Null}
      BY <1>2 DEF Differs, DefOK
    <3>3. /\ E[n].node = D[n].node /\ E[n].nom /\ E[n].dep = {"Nom"}
          /\ Len(E[n].ops) = Len(D[n].ops)
      BY <1>2 DEF Differs
    <3>4. D[n].node = "Lam" => E[E[n].type].node = "Pi"
      <4> SUFFICES ASSUME D[n].node = "Lam" PROVE E[E[n].type].node = "Pi"
        OBVIOUS
      <4>1. E[n].type = D[n].type /\ D[n].type \in DOMAIN D
        BY <1>2 DEF Differs, DefOK
      <4>2. D[D[n].type].node = "Pi"
        BY <1>2 DEF DefOK
      <4> QED BY <1>3, <4>1, <4>2
    <3> QED BY <1>1, <1>2, <2>1, <3>1, <3>2, <3>3, <3>4 DEF DefOK
  <2>2. CASE x # n
    <3>1. DefOK(D, x) /\ E[x] = D[x] /\ x \in DOMAIN D
      BY <1>1, <2>2 DEF DefsOK
    <3>2. ASSUME D[x].node = "Var" PROVE E[D[x].ops[1]].nom
      <4>1. ~D[x].nom /\ Len(D[x].ops) = 1
        BY <3>1, <3>2, WorldAssumption DEF DefOK
      <4>2. D[x].ops[1] \in DOMAIN D /\ D[D[x].ops[1]].nom
        BY <3>1, <3>2, <4>1 DEF DefOK
      <4> QED BY <1>3, <4>2
    <3>3. D[x].nom => D[x].type \in DOMAIN D
      BY <3>1, WorldAssumption DEF DefOK
    <3> QED BY <1>1, <1>3, <3>1, <3>2, <3>3 DEF DefOK
  <2> QED BY <2>1, <2>2
<1>5. DefsOK(E)
  BY <1>1, <1>4 DEF DefsOK, Differs
<1>6. V \subseteq UseSet(DOMAIN E)
  BY <1>1, <1>2 DEF UsesOK, SetUses, Use, UseSet
<1>7. ASSUME NEW u \in V
      PROVE  /\ u.index \in 0..Len(E[u.user].ops)
             /\ u.def = (IF u.index = Type THEN E[u.user].type ELSE E[u.user].ops[u.index])
  <2>1. CASE u \in U /\ u.user # n
    <3>1. u.user \in DOMAIN D \ {n}
      BY <2>1 DEF UsesOK, UseSet
    <3> QED BY <1>1, <2>1, <3>1 DEF UsesOK
  <2>2. CASE u \in U /\ u.user = n /\ u.index # i
    <3>1. /\ u.index \in 0..Len(D[n].ops)
          /\ u.def = (IF u.index = Type THEN D[n].type ELSE D[n].ops[u.index])
      BY <2>2 DEF UsesOK
    <3>2. CASE u.index = Type
      BY <2>2, <3>1, <3>2 DEF Differs
    <3>3. CASE u.index # Type
      <4>1. u.index \in 1..Len(D[n].ops)
        BY <1>2, <3>1, <3>3 DEF Type
      <4> QED BY <2>2, <3>1, <3>3, <4>1 DEF Differs
    <3> QED BY <3>2, <3>3
  <2>3. CASE u = Use(d, n, i)
    <3>1. u.user = n /\ u.index = i /\ u.def = d
      BY <2>3 DEF Use
    <3>2. CASE i = Type
      BY <3>1, <3>2 DEF Differs
    <3>3. CASE i # Type
      <4>1. i \in 1..Len(D[n].ops)
        BY <1>2, <3>3 DEF Type
      <4> QED BY <3>1, <3>3, <4>1 DEF Differs
    <3> QED BY <3>2, <3>3
  <2> QED BY <2>1, <2>2, <2>3 DEF SetUses
<1>8. \A u \in U : u.user # n \/ u.index # i => u \in V
  BY DEF SetUses
<1>9. d # Null => Use(d, n, i) \in V
  BY DEF SetUses
<1>10. ASSUME NEW u \in DOMAIN E, NEW j \in 1..Len(E[u].ops), E[u].ops[j] # Null,
              E[u].nom \/ ~Constant(E, E[u].ops[j])
       PROVE  Use(E[u].ops[j], u, j) \in V
  <2>1. CASE u = n /\ j = i
    <3>1. E[n].ops[i] = d
      BY <2>1 DEF Differs
    <3> QED BY <1>9, <1>10, <2>1, <3>1
  <2>2. CASE u # n \/ j # i
    <3>1. E[u].ops[j] = D[u].ops[j] /\ j \in 1..Len(D[u].ops)
      BY <1>1, <2>2 DEF Differs
    <3>2. D[u].ops[j] \in DOMAIN D
      BY <1>1, <1>10, <3>1 DEF DefsOK, DefOK
    <3>3. D[u].nom \/ ~Constant(D, D[u].ops[j])
      BY <1>1, <1>3, <1>10, <3>1, <3>2
    <3>4. Use(D[u].ops[j], u, j) \in U
      BY <1>1, <1>10, <3>1, <3>3 DEF UsesOK
    <3> QED BY <1>8, <2>2, <3>1, <3>4 DEF Use
  <2> QED BY <2>1, <2>2
<1>11. ASSUME NEW u \in DOMAIN E \ {Univ}, ~Constant(E, E[u].type)
       PROVE  Use(E[u].type, u, Type) \in V
  <2>1. CASE u = n /\ i = Type
    <3>1. E[n].type = d /\ d # Null
      BY <2>1 DEF Differs
    <3> QED BY <1>9, <2>1, <3>1
  <2>2. CASE u # n \/ i # Type
    <3>1. E[u].type = D[u].type /\ D[u].type \in DOMAIN D
      BY <1>1, <2>2 DEF Differs, DefsOK, DefOK
    <3>2. Use(D[u].type, u, Type) \in U
      BY <1>1, <1>3, <1>11, <3>1 DEF UsesOK
    <3> QED BY <1>8, <2>2, <3>1, <3>2 DEF Use
  <2> QED BY <2>1, <2>2
<1>12. UsesOK(E, V)
  <2> HIDE DEF V
  <2> QED BY <1>6, <1>7, <1>10, <1>11 DEF UsesOK
<1>13. HashOK(D) => HashOK(E)
  BY <1>1, <1>3 DEF HashOK
<1> QED BY <1>5, <1>12, <1>13

(* Def::set exchanges an operand and, in step with it, a use.                 *)
LEMMA SetOpOK ==
    ASSUME NEW D, NEW U, DefsOK(D), UsesOK(D, U),
           NEW n \in DOMAIN D, D[n].nom,
           NEW i \in 1..Len(D[n].ops), NEW d \in DOMAIN D \cup {Null}
    PROVE  /\ DefsOK(SetOp(D, n, i, d))
           /\ UsesOK(SetOp(D, n, i, d), SetUses(U, n, i, d))
           /\ HashOK(D) => HashOK(SetOp(D, n, i, d))
           /\ Differs(D, SetOp(D, n, i, d), n, i, d)
<1> DEFINE E == SetOp(D, n, i, d)
<1>1. D \in [DOMAIN D -> Def] /\ DOMAIN D \subseteq Gid /\ D[n] \in Def
  BY DEF DefsOK
<1>2. PICK ops : ops = [D[n].ops EXCEPT ![i] = d]
  OBVIOUS
<1>3. /\ ops \in Seq(Gid \cup {Null}) /\ Len(ops) = Len(D[n].ops)
      /\ \A j \in 1..Len(D[n].ops) : ops[j] = (IF i = j THEN d ELSE D[n].ops[j])
  <2>1. D[n].ops \in Seq(Gid \cup {Null}) /\ d \in Gid \cup {Null}
    BY <1>1 DEF Def
  <2> QED BY <1>2, <2>1
<1>4. PICK new : new = [D[n] EXCEPT !.ops = ops]
  OBVIOUS
<1>4a. /\ new \in Def /\ new.ops = ops /\ new.node = D[n].node /\ (new.nom <=> D[n].nom)
       /\ new.dep = D[n].dep /\ new.type = D[n].type
  BY <1>1, <1>3, <1>4 DEF Def
<1>5. E = [D EXCEPT ![n] = new]
  BY <1>2, <1>4 DEF SetOp
<1>6. Differs(D, E, n, i, d)
  <2>1. E \in [DOMAIN D -> Def] /\ E[n] = new /\ \A x \in DOMAIN D \ {n} : E[x] = D[x]
    BY <1>1, <1>4a, <1>5
  <2>2. i # Type
    BY DEF Type
  <2> HIDE DEF E
  <2> QED BY <1>3, <1>4a, <2>1, <2>2 DEF Differs
<1>7. i \in 0..Len(D[n].ops) /\ i # Type
  BY DEF Type
<1> HIDE DEF E
<1>8. DefsOK(E) /\ UsesOK(E, SetUses(U, n, i, d)) /\ (HashOK(D) => HashOK(E))
  BY <1>6, <1>7, ReplaceOK
<1> QED BY <1>6, <1>8 DEF E

(* Def::set_type exchanges the type and, in step with it, a use.              *)
LEMMA SetTypeOK ==
    ASSUME NEW D, NEW U, DefsOK(D), UsesOK(D, U),
           NEW n \in DOMAIN D, D[n].nom, D[n].node # "Lam", NEW t \in DOMAIN D
    PROVE  /\ DefsOK([D EXCEPT ![n].type = t])
           /\ UsesOK([D EXCEPT ![n].type = t], SetUses(U, n, Type, t))
           /\ HashOK(D) => HashOK([D EXCEPT ![n].type = t])
<1> DEFINE E == [D EXCEPT ![n].type = t]
<1>1. D \in [DOMAIN D -> Def] /\ DOMAIN D \subseteq Gid /\ D[n] \in Def
  BY DEF DefsOK
<1>2. PICK new : new = [D[n] EXCEPT !.type = t]
  OBVIOUS
<1>2a. /\ new \in Def /\ new.ops = D[n].ops /\ new.node = D[n].node /\ (new.nom <=> D[n].nom)
       /\ new.dep = D[n].dep /\ new.type = t
  BY <1>1, <1>2 DEF Def
<1>3. E = [D EXCEPT ![n] = new]
  BY <1>2
<1>4. Len(D[n].ops) \in Nat /\ t # Null
  BY <1>1 DEF Def, Gid, Null
<1>5. Differs(D, E, n, Type, t)
  <2>1. E \in [DOMAIN D -> Def] /\ E[n] = new /\ \A x \in DOMAIN D \ {n} : E[x] = D[x]
    BY <1>1, <1>2a, <1>3
  <2> HIDE DEF E
  <2> QED BY <1>2a, <1>4, <2>1 DEF Differs, Type
<1>6. Type \in 0..Len(D[n].ops)
  BY <1>4 DEF Type
<1> HIDE DEF E
<1>7. DefsOK(E) /\ UsesOK(E, SetUses(U, n, Type, t)) /\ (HashOK(D) => HashOK(E))
  BY <1>4, <1>5, <1>6, ReplaceOK
<1> QED BY <1>7 DEF E

-----------------------------------------------------------------------------
(* Def::set and Def::unset keep the invariant.                                *)
LEMMA SetInv ==
    ASSUME IInv, NEW n \in live, NEW i \in 1..Len(defs[n].ops), NEW d \in live \cup {Null},
           Set(n, i, d)
    PROVE  IInv'
<1> DEFINE D == SetOp(defs, n, i, d)
           U == SetUses(uses, n, i, d)
<1>1. /\ DefsOK(defs) /\ UsesOK(defs, uses) /\ HashOK(defs) /\ CacheOK
      /\ live \subseteq 1..curr_gid /\ curr_gid \in Gid /\ frozen \in BOOLEAN
      /\ UNCHANGED <<curr_gid, frozen, cache>> /\ defs[n].nom
  BY DEF IInv, Set
<1>2. DefsOK(D) /\ UsesOK(D, U) /\ HashOK(D) /\ Differs(defs, D, n, i, d)
  BY <1>1, SetOpOK DEF live
<1>3. DOMAIN D = live /\ D[n].nom /\ D[n].node = defs[n].node /\ \A x \in live \ {n} : D[x] = defs[x]
  BY <1>2 DEF Differs, live
<1>4. DefsOK(defs') /\ UsesOK(defs', uses') /\ HashOK(defs') /\ DOMAIN defs' = live
  <2>1. CASE ~Infers(n, i, d)
    <3>1. defs' = D /\ uses' = U
      BY <2>1 DEF Set
    <3> QED BY <1>2, <1>3, <3>1
  <2>2. CASE Infers(n, i, d)
    <3> DEFINE infer == defs[n].type
               t     == defs[d].type
               E     == SetOp(D, infer, 1, t)
               V     == SetUses(U, infer, 1, t)
    <3>1. /\ t # Null /\ defs' = [E EXCEPT ![n].type = t]
          /\ uses' = SetUses(V, n, Type, t)
      BY <2>2 DEF Set
    <3>2. n # Univ /\ infer \in live /\ defs[infer].node = "Infer" /\ defs[n].node = "Arr" /\ n # infer
      BY <1>1, <2>2, WorldAssumption DEF Infers, DefsOK, DefOK, live
    <3>3. d \in live /\ t \in live
      BY <1>1, <2>2, <3>1 DEF Infers, DefsOK, DefOK, live
    <3>4. D[infer] = defs[infer] /\ infer # Univ
      BY <1>1, <1>3, <3>2 DEF DefsOK, DefOK, live
    <3>5. infer \in DOMAIN D /\ D[infer].nom /\ 1 \in 1..Len(D[infer].ops) /\ t \in DOMAIN D \cup {Null}
      <4>0. DefOK(defs, infer)
        BY <1>1, <3>2 DEF DefsOK, live
      <4>1. /\ Len(defs[infer].ops) = Arity["Infer"] /\ "Infer" \in DOMAIN Arity
            /\ defs[infer].node \in Nominal
        BY <3>2, <3>4, <4>0, WorldAssumption DEF DefOK
      <4>2. Arity["Infer"] \in Nat \ {0}
        BY <4>1, WorldAssumption
      <4>3. defs[infer].nom
        BY <4>0, <4>1 DEF DefOK
      <4> QED BY <1>3, <3>2, <3>3, <3>4, <4>1, <4>2, <4>3
    <3> HIDE DEF D, U, infer, t
    <3>6. DefsOK(E) /\ UsesOK(E, V) /\ HashOK(E) /\ Differs(D, E, infer, 1, t)
      BY <1>2, <3>5, SetOpOK
    <3>7. DOMAIN E = live /\ n \in DOMAIN E /\ E[n].nom /\ E[n].node # "Lam" /\ t \in DOMAIN E
      BY <1>3, <3>2, <3>3, <3>6 DEF Differs
    <3> HIDE DEF E, V
    <3>8. /\ DefsOK([E EXCEPT ![n].type = t])
          /\ UsesOK([E EXCEPT ![n].type = t], SetUses(V, n, Type, t))
          /\ HashOK([E EXCEPT ![n].type = t])
      BY <3>6, <3>7, SetTypeOK
    <3> QED BY <3>1, <3>7, <3>8
  <2> QED BY <2>1, <2>2
<1>5. live' = live
  BY <1>4 DEF live
<1>6. CacheOK'
  BY <1>1, <1>5, CacheGrows
<1> QED BY <1>1, <1>4, <1>5, <1>6 DEF IInv

(* Def::set_type keeps the invariant.                                         *)
LEMMA SetTypeInv ==
    ASSUME IInv, NEW n \in live, NEW t \in live, SetType(n, t)
    PROVE  IInv'
<1>1. /\ DefsOK(defs) /\ UsesOK(defs, uses) /\ HashOK(defs) /\ CacheOK
      /\ live \subseteq 1..curr_gid /\ curr_gid \in Gid /\ frozen \in BOOLEAN
      /\ UNCHANGED <<curr_gid, frozen, cache>> /\ defs[n].nom /\ defs[n].node # "Lam"
      /\ defs' = [defs EXCEPT ![n].type = t] /\ uses' = SetUses(uses, n, Type, t)
  BY DEF IInv, SetType
<1>2. DefsOK(defs') /\ UsesOK(defs', uses') /\ HashOK(defs')
  BY <1>1, SetTypeOK DEF live
<1>3. live' = live
  BY <1>1 DEF live
<1>4. CacheOK'
  BY <1>1, <1>3, CacheGrows
<1> QED BY <1>1, <1>2, <1>3, <1>4 DEF IInv

(* Def::reduce, which only fills the cache, keeps the invariant.              *)
LEMMA ReduceInv ==
    ASSUME IInv, NEW n \in live, NEW a \in live, Reduce(n, a)
    PROVE  IInv'
<1>1. /\ UNCHANGED <<defs, uses, curr_gid, frozen>> /\ live' = live
      /\ cache' = [p \in DOMAIN cache \cup {<<n, a>>} |->
                      IF p = <<n, a>> THEN defs[n].ops ELSE cache[p]]
  BY DEF Reduce, live
<1>2. defs[n].ops \in Seq(Gid \cup {Null})
  BY DEF IInv, DefsOK, Def, live
<1>3. CacheOK'
  <2>1. CacheOK
    BY DEF IInv
  <2> QED BY <1>1, <1>2, <2>1 DEF CacheOK
<1> QED BY <1>1, <1>3 DEF IInv

(* What Def::var hands to World::unify.                                       *)
LEMMA VarMakes ==
    ASSUME IInv, NEW n \in live, Var(n)
    PROVE  /\ "Var" \in Structural /\ VarType(n) \in live
           /\ <<n>> \in [1..Arity["Var"] -> live] /\ defs[<<n>>[1]].nom
           /\ Unify("Var", VarType(n), <<n>>)
<1>1. /\ DefOK(defs, n) /\ defs[n].nom /\ defs[n].node \in {"Lam", "Pi", "Sigma"}
      /\ VarType(n) # Null /\ Unify("Var", VarType(n), <<n>>)
  BY DEF IInv, DefsOK, Var, live
<1>2. "Var" \in Structural /\ Arity["Var"] = 1 /\ n # Univ
  BY <1>1, WorldAssumption DEF DefOK
<1>3. \A x \in live : defs[x].node = "Pi" => 1 \in 1..Len(defs[x].ops)
  <2> SUFFICES ASSUME NEW x \in live, defs[x].node = "Pi" PROVE 1 \in 1..Len(defs[x].ops)
    OBVIOUS
  <2>1. DefOK(defs, x)
    BY DEF IInv, DefsOK, live
  <2>2. "Pi" \in DOMAIN Arity /\ Len(defs[x].ops) = Arity["Pi"]
    BY <2>1 DEF DefOK
  <2>3. Arity["Pi"] \in Nat \ {0}
    BY <2>2, WorldAssumption
  <2> QED BY <2>2, <2>3
<1>4. VarType(n) \in live
  <2>1. CASE defs[n].node = "Lam"
    <3>1. defs[n].type \in live /\ defs[defs[n].type].node = "Pi"
      BY <1>1, <1>2, <2>1 DEF DefOK, live
    <3>2. defs[defs[n].type].ops[1] \in live \cup {Null}
      BY <1>3, <3>1 DEF IInv, DefsOK, DefOK, live
    <3> QED BY <1>1, <2>1, <3>2 DEF VarType
  <2>2. CASE defs[n].node = "Pi"
    BY <1>1, <1>3, <2>2 DEF VarType, DefOK, live
  <2>3. CASE defs[n].node = "Sigma"
    BY <2>3 DEF VarType
  <2> QED BY <1>1, <2>1, <2>2, <2>3
<1>5. <<n>> \in [1..Arity["Var"] -> live] /\ defs[<<n>>[1]].nom
  BY <1>1, <1>2
<1> QED BY <1>1, <1>2, <1>4, <1>5

(* Def::var keeps the invariant.                                              *)
LEMMA VarInv == ASSUME IInv, NEW n \in live, Var(n) PROVE IInv'
BY VarMakes, UnifyInv

(* Every step of World keeps the invariant.                                   *)
LEMMA NextInv == IInv /\ [Next]_vars => IInv'
<1> SUFFICES ASSUME IInv, [Next]_vars PROVE IInv'
  OBVIOUS
<1>1. CASE MakeStructural
  BY <1>1, UnifyInv DEF MakeStructural
<1>2. CASE MakeNominal
  BY <1>2, InsertInv DEF MakeNominal
<1>3. ASSUME NEW n \in live, Var(n) PROVE IInv'
  BY <1>3, VarInv
<1>4. ASSUME NEW n \in live, NEW i \in 1..Len(defs[n].ops), NEW d \in live \cup {Null}, Set(n, i, d)
      PROVE  IInv'
  BY <1>4, SetInv
<1>5. ASSUME NEW n \in live, NEW t \in live, SetType(n, t) PROVE IInv'
  BY <1>5, SetTypeInv
<1>6. ASSUME NEW n \in live, NEW a \in live, Reduce(n, a) PROVE IInv'
  BY <1>6, ReduceInv
<1>7. ASSUME NEW on \in BOOLEAN, Freeze(on) PROVE IInv'
  BY <1>7 DEF Freeze, IInv, CacheOK, live
<1>8. CASE UNCHANGED vars
  BY <1>8 DEF vars, IInv, CacheOK, live
<1> QED BY <1>1, <1>2, <1>3, <1>4, <1>5, <1>6, <1>7, <1>8 DEF Next

-----------------------------------------------------------------------------
(* Whatever defs are made, set and reduced in whatever order, frozen or not,   *)
(* the invariant holds.                                                       *)
THEOREM Invariance == Spec => []IInv
BY InitInv, NextInv, PTL DEF Spec

(* Gids, operands and uses of a World always have their types.                *)
THEOREM Types == Spec => []TypeOK
BY Invariance, InvTypeOK, PTL

(* World::unify never lets two equal structural defs live, although operands   *)
(* and types of nominals change in between: defs may be compared by address.   *)
THEOREM HashConsing == Spec => []HashConsed
BY Invariance, InvHashConsed, PTL

(* Def::finalize, set, unset, set_type and Arr::check keep the uses of every   *)
(* def in step with the operands and types of all others.                      *)
THEOREM UsesAgree == Spec => []UsesExact
BY Invariance, InvUsesExact, PTL

(* Structural defs stay acyclic: every cycle of defs goes through a nominal.   *)
THEOREM Cycles == Spec => []Acyclic
BY Invariance, InvAcyclic, PTL

(* The Var of a nominal is always among its uses, where a frozen Def::var      *)
(* looks for it.                                                              *)
THEOREM VarsFound == Spec => []VarIsFound
BY Invariance, InvVarIsFound, PTL

(* Every non-empty set of naturals has a least member.                        *)
LEMMA Least ==
    ASSUME NEW T \in SUBSET Nat, T # {}
    PROVE  \E x \in T : \A y \in T : x <= y
<1> DEFINE R == {p \in Nat \X Nat : p[1] < p[2]}
<1>1. IsWellFoundedOn(R, Nat)
  BY NatLessThanWellFounded DEF OpToRel
<1>2. PICK x \in T : \A y \in T : ~ (<<y, x>> \in R)
  BY <1>1, WFMin
<1>3. ASSUME NEW y \in T PROVE x <= y
  <2>1. ~ (<<y, x>> \in R)
    BY <1>2
  <2>2. x \in Nat /\ y \in Nat /\ ~(y < x)
    BY <2>1
  <2> QED BY <2>2
<1> QED BY <1>3

(* What is below a def: all that must be in a set that has the def in it, and  *)
(* with every structural def what it is made of.                              *)
ClosedDown(S) == \A x \in S \cap live : ~defs[x].nom => Parts(x) \subseteq S
Closure(d) == {e \in live : \A S \in SUBSET live : d \in S /\ ClosedDown(S) => e \in S}

(* That set of all that must be in it solves the recursion of Below.          *)
LEMMA ClosureEq ==
    ASSUME IInv, NEW d \in live
    PROVE  Closure(d) = {d} \cup IF defs[d].nom THEN {} ELSE UNION {Closure(e) : e \in Parts(d)}
<1> DEFINE T == {d} \cup IF defs[d].nom THEN {} ELSE UNION {Closure(e) : e \in Parts(d)}
<1>1. \A x \in live : ~defs[x].nom => Parts(x) \subseteq live
  BY InvAcyclic DEF Acyclic, Structurals
<1>2. \A e \in live : e \in Closure(e) /\ Closure(e) \subseteq live
  BY DEF Closure
<1>3. \A e \in live : ClosedDown(Closure(e))
  <2> SUFFICES ASSUME NEW e \in live, NEW x \in Closure(e), ~defs[x].nom, NEW p \in Parts(x)
               PROVE  p \in Closure(e)
    BY DEF ClosedDown
  <2>1. x \in live /\ p \in live
    BY <1>1, <1>2
  <2>2. ASSUME NEW S \in SUBSET live, e \in S, ClosedDown(S) PROVE p \in S
    <3>1. x \in S
      BY <2>2 DEF Closure
    <3> QED BY <2>1, <2>2, <3>1 DEF ClosedDown
  <2> QED BY <2>1, <2>2 DEF Closure
<1>4. T \subseteq Closure(d)
  <2> SUFFICES ASSUME ~defs[d].nom, NEW e \in Parts(d), NEW x \in Closure(e) PROVE x \in Closure(d)
    BY <1>2
  <2>1. e \in live /\ x \in live
    BY <1>1, <1>2
  <2>2. ASSUME NEW S \in SUBSET live, d \in S, ClosedDown(S) PROVE x \in S
    <3>1. e \in S
      BY <2>2 DEF ClosedDown
    <3> QED BY <2>2, <3>1 DEF Closure
  <2> QED BY <2>1, <2>2 DEF Closure
<1>5. T \subseteq live /\ d \in T
  BY <1>1, <1>2
<1>6. ClosedDown(T)
  <2> SUFFICES ASSUME NEW x \in T, ~defs[x].nom, NEW p \in Parts(x) PROVE p \in T
    BY <1>5 DEF ClosedDown
  <2>1. CASE x = d
    <3>1. p \in Closure(p)
      BY <1>1, <1>2, <2>1
    <3> QED BY <2>1, <3>1
  <2>2. CASE x # d
    <3>1. PICK e \in Parts(d) : ~defs[d].nom /\ x \in Closure(e)
      BY <2>2
    <3>2. e \in live /\ x \in live
      BY <1>1, <1>2, <3>1
    <3>3. p \in Closure(e)
      BY <1>3, <3>1, <3>2 DEF ClosedDown
    <3> QED BY <3>1, <3>3
  <2> QED BY <2>1, <2>2
<1>7. Closure(d) \subseteq T
  <2> HIDE DEF T
  <2> QED BY <1>5, <1>6 DEF Closure
<1> QED BY <1>4, <1>7

(* The recursion of Below has a solution, so that Below is one.                *)
LEMMA BelowEq ==
    ASSUME IInv, NEW d \in live
    PROVE  Below[d] = {d} \cup IF defs[d].nom THEN {} ELSE UNION {Below[e] : e \in Parts(d)}
<1> DEFINE Solves(f) == f = [x \in live |-> {x} \cup IF defs[x].nom THEN {} ELSE UNION {f[e] : e \in Parts(x)}]
           g == [x \in live |-> Closure(x)]
<1>1. \A x \in live : ~defs[x].nom => Parts(x) \subseteq live
  BY InvAcyclic DEF Acyclic, Structurals
<1>2. Solves(g)
  <2>1. ASSUME NEW x \in live
        PROVE  g[x] = {x} \cup IF defs[x].nom THEN {} ELSE UNION {g[e] : e \in Parts(x)}
    <3>1. Closure(x) = {x} \cup IF defs[x].nom THEN {} ELSE UNION {Closure(e) : e \in Parts(x)}
      BY ClosureEq
    <3>2. ~defs[x].nom => {g[e] : e \in Parts(x)} = {Closure(e) : e \in Parts(x)}
      BY <1>1
    <3> QED BY <3>1, <3>2
  <2> QED BY <2>1
<1>3. Below = CHOOSE f : Solves(f)
  BY DEF Below
<1>4. Solves(Below)
  <2> HIDE DEF Solves, g
  <2> QED BY <1>2, <1>3
<1> QED BY <1>4

(* The flags of a structural def are its own and those of what it is made of.  *)
DepOK(D, d) == D[d].nom \/
    D[d].dep = own_dep(D[d].node) \cup (IF D[d].type = Null THEN {} ELSE D[D[d].type].dep)
                                  \cup UNION {D[D[d].ops[i]].dep : i \in 1..Len(D[d].ops)}
DepInv == \A d \in live : DepOK(defs, d)

(* What no step changes of the defs there are.                                *)
Keeps(D, E) ==
    /\ DOMAIN D \subseteq DOMAIN E
    /\ \A d \in DOMAIN D : /\ E[d].dep = D[d].dep /\ E[d].nom = D[d].nom
                           /\ ~D[d].nom => E[d] = D[d]

(* Flags stay right when the defs there are keep theirs and the new ones are. *)
LEMMA KeepsDep ==
    ASSUME DepInv, DefsOK(defs), Keeps(defs, defs'),
           \A d \in live' \ live : DepOK(defs', d)
    PROVE  DepInv'
<1> SUFFICES ASSUME NEW d \in live, ~defs[d].nom PROVE DepOK(defs', d)
  BY DEF DepInv, DepOK, Keeps, live
<1>1. DefOK(defs, d) /\ DepOK(defs, d) /\ defs'[d] = defs[d]
  BY DEF DefsOK, DepInv, Keeps, live
<1>2. defs[d].type # Null => defs[d].type \in live
  BY <1>1 DEF DefOK, live
<1>3. \A i \in 1..Len(defs[d].ops) : defs[d].ops[i] \in live
  BY <1>1 DEF DefOK, live
<1>4. \A x \in live : defs'[x].dep = defs[x].dep
  BY DEF Keeps, live
<1> QED BY <1>1, <1>2, <1>3, <1>4 DEF DepOK

(* World::unify touches no def there is, and finalizes the flags of a new one.*)
LEMMA UnifyKeeps ==
    ASSUME IInv, NEW node \in Structural, NEW type \in live,
           NEW ops \in [1..Arity[node] -> live], Unify(node, type, ops)
    PROVE  Keeps(defs, defs') /\ \A d \in live' \ live : DepOK(defs', d)
<1>1. CASE UNCHANGED defs
  BY <1>1 DEF Keeps, live
<1>2. CASE defs' # defs
  <2> DEFINE g   == curr_gid + 1
             def == [node |-> node, nom |-> FALSE, type |-> type, ops |-> ops,
                     dep |-> finalize(node, type, ops)]
  <2>1. defs' = Added(g, def)
    BY <1>2 DEF Unify
  <2>2. g \notin live /\ live \subseteq Gid
    BY FreshGid DEF Unify, Fresh, Gid, live, IInv, DefsOK
  <2>3. live' = live \cup {g} /\ defs'[g] = def /\ \A x \in live : defs'[x] = defs[x]
    BY <2>1, <2>2 DEF Added, live
  <2>4. Keeps(defs, defs')
    BY <2>3 DEF Keeps, live
  <2>5. Arity[node] \in Nat
    BY WorldAssumption
  <2>6. ops \in Seq(live) /\ Len(ops) = Arity[node]
    BY <2>5
  <2>7. \A i \in 1..Len(ops) : defs'[ops[i]] = defs[ops[i]]
    BY <2>3, <2>6
  <2>8. type # Null /\ defs'[type] = defs[type]
    BY <2>2, <2>3 DEF Gid, Null
  <2>9. DepOK(defs', g)
    BY <2>3, <2>7, <2>8 DEF DepOK, finalize
  <2> QED BY <2>3, <2>4, <2>9
<1> QED BY <1>1, <1>2

(* Def::set and Def::unset change the operands of a nominal alone, no flags.  *)
LEMMA SetOpKeeps ==
    ASSUME NEW D, DefsOK(D), NEW n \in DOMAIN D, D[n].nom, NEW i, NEW d
    PROVE  Keeps(D, SetOp(D, n, i, d)) /\ DOMAIN SetOp(D, n, i, d) = DOMAIN D
<1>1. D[n] \in Def /\ DOMAIN SetOp(D, n, i, d) = DOMAIN D
  BY DEF DefsOK, SetOp
<1>2. \A x \in DOMAIN D \ {n} : SetOp(D, n, i, d)[x] = D[x]
  BY DEF SetOp
<1>3. PICK ops : ops = [D[n].ops EXCEPT ![i] = d]
  OBVIOUS
<1>4. SetOp(D, n, i, d)[n] = [D[n] EXCEPT !.ops = ops]
  BY <1>3 DEF SetOp
<1>5. SetOp(D, n, i, d)[n].dep = D[n].dep /\ SetOp(D, n, i, d)[n].nom = D[n].nom
  BY <1>1, <1>4 DEF Def
<1> QED BY <1>1, <1>2, <1>5 DEF Keeps

(* Def::set_type changes the type of a nominal alone, no flags.               *)
LEMMA SetTypeKeeps ==
    ASSUME NEW D, NEW n \in DOMAIN D, D[n] \in Def, D[n].nom, NEW t
    PROVE  Keeps(D, [D EXCEPT ![n].type = t]) /\ DOMAIN [D EXCEPT ![n].type = t] = DOMAIN D
<1> DEFINE E == [D EXCEPT ![n].type = t]
<1>1. DOMAIN E = DOMAIN D /\ \A x \in DOMAIN D \ {n} : E[x] = D[x]
  OBVIOUS
<1>2. E[n] = [D[n] EXCEPT !.type = t]
  OBVIOUS
<1>3. E[n].dep = D[n].dep /\ E[n].nom = D[n].nom
  BY <1>2 DEF Def
<1> HIDE DEF E
<1>4. Keeps(D, E)
  BY <1>1, <1>3 DEF Keeps
<1> QED BY <1>1, <1>4 DEF E

(* No step of World changes flags there are or gets those of a new def wrong. *)
LEMMA NextKeeps ==
    ASSUME IInv, Next
    PROVE  Keeps(defs, defs') /\ \A d \in live' \ live : DepOK(defs', d)
<1>1. CASE MakeStructural
  BY <1>1, UnifyKeeps DEF MakeStructural
<1>2. CASE MakeNominal
  <2>1. PICK node \in Nominal, type \in live : Insert(node, type)
    BY <1>2 DEF MakeNominal
  <2>2. PICK g, def : g = curr_gid + 1 /\ def.nom = TRUE /\ defs' = Added(g, def)
    BY <2>1 DEF Insert
  <2>3. g \notin live
    BY <2>1, <2>2, FreshGid DEF Insert, Fresh, live
  <2>4. live' = live \cup {g} /\ defs'[g] = def /\ \A x \in live : defs'[x] = defs[x]
    BY <2>2, <2>3 DEF Added, live
  <2> QED BY <2>2, <2>4 DEF Keeps, DepOK, live
<1>3. ASSUME NEW n \in live, Var(n)
      PROVE  Keeps(defs, defs') /\ \A d \in live' \ live : DepOK(defs', d)
  <2>1. "Var" \in Structural /\ VarType(n) \in live /\ <<n>> \in [1..Arity["Var"] -> live]
    BY <1>3, VarMakes
  <2> QED BY <1>3, <2>1, UnifyKeeps DEF Var
<1>4. ASSUME NEW n \in live, NEW i \in 1..Len(defs[n].ops), NEW d \in live \cup {Null}, Set(n, i, d)
      PROVE  Keeps(defs, defs') /\ live' = live
  <2> DEFINE D == SetOp(defs, n, i, d)
  <2>1. DefsOK(defs) /\ DefsOK(D) /\ defs[n].nom
    BY <1>4, SetOpOK DEF IInv, Set, live
  <2>2. Keeps(defs, D) /\ DOMAIN D = live
    BY <2>1, SetOpKeeps DEF live
  <2>3. CASE ~Infers(n, i, d)
    BY <1>4, <2>2, <2>3 DEF Set, live
  <2>4. CASE Infers(n, i, d)
    <3> DEFINE infer == defs[n].type
               t     == defs[d].type
               E     == SetOp(D, infer, 1, t)
    <3>1. defs' = [E EXCEPT ![n].type = t]
      BY <1>4, <2>4 DEF Set
    <3>2. n # Univ /\ infer \in live /\ defs[infer].node = "Infer"
      BY <2>1, <2>4, WorldAssumption DEF Infers, DefsOK, DefOK, live
    <3>3. defs[infer].nom
      <4>1. DefOK(defs, infer) /\ defs[infer].node \in Node
        BY <2>1, <3>2 DEF DefsOK, Def, live
      <4> QED BY <3>2, <4>1, WorldAssumption DEF DefOK, Node
    <3>4. infer \in DOMAIN D /\ D[infer].nom
      BY <2>2, <3>2, <3>3 DEF Keeps, live
    <3> HIDE DEF D, infer, t
    <3>5. Keeps(D, E) /\ DOMAIN E = live
      BY <2>1, <2>2, <3>4, SetOpKeeps
    <3>6. n # infer /\ D[n] \in Def /\ D[n].nom
      <4>1. defs[n].node = "Arr" /\ defs[n] \in Def
        BY <2>1, <2>4 DEF Infers, DefsOK, live
      <4> QED BY <2>1, <2>2, <3>2, <4>1 DEF DefsOK, Keeps, live
    <3>7. E[n] = D[n]
      BY <2>2, <3>6 DEF SetOp
    <3> HIDE DEF E
    <3>8. Keeps(E, defs') /\ live' = live
      BY <3>1, <3>5, <3>6, <3>7, SetTypeKeeps DEF live
    <3> QED BY <2>2, <3>5, <3>8 DEF Keeps, live
  <2> QED BY <2>3, <2>4
<1>5. ASSUME NEW n \in live, NEW t \in live, SetType(n, t) PROVE Keeps(defs, defs') /\ live' = live
  <2>1. defs[n].nom /\ defs[n] \in Def /\ defs' = [defs EXCEPT ![n].type = t]
    BY <1>5 DEF SetType, IInv, DefsOK, live
  <2> QED BY <2>1, SetTypeKeeps DEF live
<1>6. ASSUME NEW n \in live, NEW a \in live, Reduce(n, a) PROVE UNCHANGED defs
  BY <1>6 DEF Reduce
<1>7. ASSUME NEW on \in BOOLEAN, Freeze(on) PROVE UNCHANGED defs
  BY <1>7 DEF Freeze
<1>8. UNCHANGED defs => Keeps(defs, defs') /\ live' = live
  BY DEF Keeps, live
<1> QED BY <1>1, <1>2, <1>3, <1>4, <1>5, <1>6, <1>7, <1>8 DEF Next

(* What is below a def lives.                                                 *)
LEMMA BelowLive ==
    ASSUME IInv, NEW d \in live, NEW e \in Below[d]
    PROVE  e \in live
<1> DEFINE Bad == {x \in live : ~(Below[x] \subseteq live)}
<1> SUFFICES ASSUME Bad # {} PROVE FALSE
  OBVIOUS
<1>1. Bad \in SUBSET Nat
  BY DEF IInv, DefsOK, live, Gid
<1>2. PICK x \in Bad : \A y \in Bad : x <= y
  <2> HIDE DEF Bad
  <2> QED BY <1>1, Least
<1>3. PICK y \in Below[x] : y \notin live
  OBVIOUS
<1>4. PICK p \in Parts(x) : y \in Below[p] /\ p \in live /\ p < x
  <2>1. Below[x] = {x} \cup IF defs[x].nom THEN {} ELSE UNION {Below[q] : q \in Parts(x)}
    BY BelowEq
  <2>2. ~defs[x].nom => \A q \in Parts(x) : q \in live /\ q < x
    BY InvAcyclic DEF Acyclic, Structurals
  <2> QED BY <1>3, <2>1, <2>2
<1>5. p \in Bad
  BY <1>3, <1>4
<1> QED
  <2>1. x <= p /\ x \in Nat /\ p \in Nat
    BY <1>1, <1>2, <1>5
  <2> QED BY <1>4, <2>1

(* What a structural def is made of is older, and its flags come from there.   *)
LEMMA DepParts ==
    ASSUME IInv, DepInv, NEW d \in live, ~defs[d].nom
    PROVE  /\ \A p \in Parts(d) : p \in live /\ p < d
           /\ \A k : k \in defs[d].dep <=> k \in own_dep(defs[d].node) \/ \E p \in Parts(d) : k \in defs[p].dep
<1>1. \A p \in Parts(d) : p \in live /\ p < d
  BY InvAcyclic DEF Acyclic, Structurals
<1>2. /\ defs[d].dep = own_dep(defs[d].node) \cup (IF defs[d].type = Null THEN {} ELSE defs[defs[d].type].dep)
                          \cup UNION {defs[defs[d].ops[i]].dep : i \in 1..Len(defs[d].ops)}
      /\ DefOK(defs, d)
  BY DEF DepInv, DepOK, IInv, DefsOK, live
<1>3. \A i \in 1..Len(defs[d].ops) : defs[d].ops[i] # Null
  BY <1>2 DEF DefOK, IInv, DefsOK, Gid, Null
<1>4. Parts(d) = (IF defs[d].type = Null THEN {} ELSE {defs[d].type}) \cup {defs[d].ops[i] : i \in 1..Len(defs[d].ops)}
  BY <1>3 DEF Parts
<1>5. \A k : k \in defs[d].dep <=> k \in own_dep(defs[d].node) \/ \E p \in Parts(d) : k \in defs[p].dep
  BY <1>2, <1>4
<1> QED BY <1>1, <1>5

(* What is below a def is the def itself or below something it is made of.    *)
LEMMA BelowCases ==
    ASSUME IInv, NEW d \in live
    PROVE  /\ d \in Below[d]
           /\ \A e \in Below[d] : e = d \/ (~defs[d].nom /\ \E p \in Parts(d) : e \in Below[p])
           /\ ~defs[d].nom => \A p \in Parts(d) : Below[p] \subseteq Below[d]
<1>1. Below[d] = {d} \cup IF defs[d].nom THEN {} ELSE UNION {Below[e] : e \in Parts(d)}
  BY BelowEq
<1> QED BY <1>1

(* A flag of what is below a def is a flag of the def.                         *)
LEMMA DepGrows ==
    ASSUME IInv, DepInv, NEW d \in live, NEW e \in Below[d]
    PROVE  defs[e].dep \subseteq defs[d].dep
<1> DEFINE Bad == {x \in live : \E y \in Below[x] : ~(defs[y].dep \subseteq defs[x].dep)}
<1> SUFFICES ASSUME Bad # {} PROVE FALSE
  OBVIOUS
<1>1. Bad \in SUBSET Nat
  BY DEF IInv, DefsOK, live, Gid
<1>2. PICK x \in Bad : \A y \in Bad : x <= y
  <2> HIDE DEF Bad
  <2> QED BY <1>1, Least
<1>3. PICK y \in Below[x] : ~(defs[y].dep \subseteq defs[x].dep)
  OBVIOUS
<1>4. PICK p \in Parts(x) : y \in Below[p] /\ ~defs[x].nom
  BY <1>3, BelowCases
<1>5. p \in live /\ p < x /\ defs[p].dep \subseteq defs[x].dep
  BY <1>4, DepParts
<1>6. p \in Bad
  BY <1>3, <1>4, <1>5
<1> QED
  <2>1. x <= p /\ x \in Nat /\ p \in Nat
    BY <1>1, <1>2, <1>6
  <2> QED BY <1>5, <2>1

(* A flag of a def is owed to a def below it that has the kind.               *)
LEMMA Shown ==
    ASSUME IInv, DepInv, NEW d \in live, NEW k \in {"Nom", "Var", "Proxy"}, k \in defs[d].dep
    PROVE  \E e \in Below[d] : e \in live /\ IF k = "Nom" THEN defs[e].nom ELSE defs[e].node = k
<1> DEFINE Shows(e) == IF k = "Nom" THEN defs[e].nom ELSE defs[e].node = k
           Bad == {x \in live : k \in defs[x].dep /\ ~\E e \in Below[x] : e \in live /\ Shows(e)}
<1> SUFFICES ASSUME Bad # {} PROVE FALSE
  OBVIOUS
<1>1. Bad \in SUBSET Nat
  BY DEF IInv, DefsOK, live, Gid
<1>2. PICK x \in Bad : \A y \in Bad : x <= y
  <2> HIDE DEF Bad
  <2> QED BY <1>1, Least
<1>3. x \in live /\ k \in defs[x].dep /\ DefOK(defs, x) /\ x \in Below[x]
  BY BelowCases DEF IInv, DefsOK, live
<1>4. CASE defs[x].nom
  <2>1. k = "Nom"
    BY <1>3, <1>4 DEF DefOK
  <2> QED BY <1>3, <1>4, <2>1
<1>5. CASE ~defs[x].nom /\ k \in own_dep(defs[x].node)
  <2>1. k # "Nom" /\ defs[x].node = k
    BY <1>5 DEF own_dep
  <2> QED BY <1>3, <2>1
<1>6. CASE ~defs[x].nom /\ k \notin own_dep(defs[x].node)
  <2>1. PICK p \in Parts(x) : p \in live /\ p < x /\ k \in defs[p].dep
    BY <1>3, <1>6, DepParts
  <2>2. Below[p] \subseteq Below[x]
    BY <1>6, <2>1, BelowCases
  <2>3. p \in Bad
    BY <2>1, <2>2
  <2>4. x <= p /\ x \in Nat /\ p \in Nat
    BY <1>1, <1>2, <2>3
  <2> QED BY <2>1, <2>4
<1> QED BY <1>4, <1>5, <1>6

(* The flags of a structural def say exactly what is below it.                *)
LEMMA InvDepExact == IInv /\ DepInv => DepExact
<1> SUFFICES ASSUME IInv, DepInv, NEW d \in live, ~defs[d].nom
             PROVE  /\ "Nom" \in defs[d].dep <=> \E e \in Below[d] : defs[e].nom
                    /\ \A k \in {"Var", "Proxy"} : k \in defs[d].dep <=> \E e \in Below[d] : defs[e].node = k
  BY DEF DepExact, Structurals
<1>1. ASSUME NEW e \in Below[d] PROVE e \in live
  BY <1>1, BelowLive
<1>2. \A e \in live : defs[e].nom => "Nom" \in defs[e].dep
  BY DEF IInv, DefsOK, DefOK, live
<1>3. ASSUME NEW e \in live, NEW k \in {"Var", "Proxy"}, defs[e].node = k PROVE k \in defs[e].dep
  <2>1. DefOK(defs, e)
    BY DEF IInv, DefsOK, live
  <2>2. ~defs[e].nom
    BY <1>3, <2>1, WorldAssumption DEF DefOK
  <2> QED BY <1>3, <2>2, DepParts DEF own_dep
<1> QED BY <1>1, <1>2, <1>3, DepGrows, Shown

(* Following uses one step further.                                            *)
Further(U) == U \cup {u.user : u \in {w \in uses : w.def \in U}}
Follows(f, t, m) == f = [k \in 0..m |-> IF k = 0 THEN {t} ELSE Further(f[k-1])]

(* The recursion of Up has a solution, so that Up is one.                      *)
LEMMA UpEq ==
    ASSUME NEW t
    PROVE  \E f : Follows(f, t, MaxGid) /\ Up(t) = f[MaxGid]
<1>1. ASSUME NEW m \in 0..MaxGid PROVE \E f : Follows(f, t, m)
  <2> DEFINE Bad == {k \in Nat : ~\E f : Follows(f, t, k)}
  <2> SUFFICES ASSUME Bad # {} PROVE FALSE
    BY <1>1
  <2>1. PICK k \in Bad : \A l \in Bad : k <= l
    <3>1. Bad \in SUBSET Nat
      OBVIOUS
    <3> HIDE DEF Bad
    <3> QED BY <3>1, Least
  <2>2. CASE k = 0
    <3>1. Follows([l \in 0..0 |-> {t}], t, 0)
      BY DEF Follows
    <3> QED BY <2>2, <3>1
  <2>3. CASE k # 0
    <3>1. k \in Nat /\ k - 1 \in Nat /\ k - 1 \notin Bad
      BY <2>1, <2>3
    <3>2. PICK f : Follows(f, t, k - 1)
      BY <3>1
    <3> DEFINE g == [l \in 0..k |-> IF l = k THEN Further(f[k-1]) ELSE f[l]]
    <3>3. f = [l \in 0..k-1 |-> IF l = 0 THEN {t} ELSE Further(f[l-1])]
      BY <3>2 DEF Follows
    <3>4. ASSUME NEW l \in 0..k PROVE g[l] = IF l = 0 THEN {t} ELSE Further(g[l-1])
      <4>1. CASE l = k
        <5>1. g[l] = Further(f[k-1]) /\ k - 1 \in 0..k /\ k - 1 # k
          BY <3>1, <4>1
        <5>2. g[l-1] = f[k-1]
          BY <4>1, <5>1
        <5> QED BY <2>3, <4>1, <5>1, <5>2
      <4>2. CASE l # k
        <5>0. l \in 0..k-1 /\ g[l] = f[l]
          BY <3>1, <4>2
        <5>1. f[l] = IF l = 0 THEN {t} ELSE Further(f[l-1])
          BY <3>3, <5>0
        <5>2. l # 0 => l-1 \in 0..k /\ l-1 # k /\ g[l-1] = f[l-1]
          BY <3>1, <4>2
        <5> QED BY <5>0, <5>1, <5>2
      <4> QED BY <4>1, <4>2
    <3>5. Follows(g, t, k)
      BY <3>4 DEF Follows
    <3> QED BY <3>5
  <2> QED BY <2>2, <2>3
<1>2. MaxGid \in 0..MaxGid
  BY WorldAssumption
<1>3. \E f : Follows(f, t, MaxGid)
  BY <1>1, <1>2
<1> DEFINE up == CHOOSE f : Follows(f, t, MaxGid)
<1>4. Follows(up, t, MaxGid)
  BY <1>3
<1>5. Up(t) = up[MaxGid]
  BY DEF Up, Follows, Further
<1> QED BY <1>4, <1>5

(* A def that is not constant is used by the defs that are made of it.         *)
LEMMA PartUsed ==
    ASSUME IInv, NEW d \in live, NEW p \in Parts(d), ~dep_const(p)
    PROVE  \E u \in uses : u.def = p /\ u.user = d
<1>1. UsesExact /\ DefOK(defs, d)
  BY InvUsesExact DEF IInv, DefsOK, live
<1>2. CASE p = defs[d].type
  <2>1. d # Univ
    BY <1>1, <1>2 DEF DefOK, Parts
  <2>2. Use(p, d, Type) \in uses
    BY <1>1, <1>2, <2>1 DEF UsesExact
  <2> QED BY <2>2 DEF Use
<1>3. CASE \E i \in 1..Len(defs[d].ops) : p = defs[d].ops[i]
  <2>1. PICK i \in 1..Len(defs[d].ops) : p = defs[d].ops[i]
    BY <1>3
  <2>2. p # Null
    BY DEF Parts
  <2>3. Use(p, d, i) \in uses
    BY <1>1, <2>1, <2>2 DEF UsesExact
  <2> QED BY <2>3 DEF Use
<1> QED BY <1>2, <1>3 DEF Parts

(* A def above another is at most one use per gid away from it.               *)
LEMMA InvUsesReachAll == IInv /\ DepInv => UsesReachAll
<1> SUFFICES ASSUME IInv, DepInv, NEW t \in live, ~dep_const(t), NEW d \in live, t \in Below[d]
             PROVE  d \in Up(t)
  BY DEF UsesReachAll
<1>1. PICK f : Follows(f, t, MaxGid) /\ Up(t) = f[MaxGid]
  BY UpEq
<1>2. MaxGid \in Nat \ {0} /\ live \subseteq 1..MaxGid
  BY WorldAssumption DEF IInv, DefsOK, live, Gid
<1>3. \A k \in 0..MaxGid : f[k] = IF k = 0 THEN {t} ELSE Further(f[k-1])
  BY <1>1 DEF Follows
<1>4. ASSUME NEW k \in 0..MaxGid PROVE t \in f[k]
  <2> DEFINE Bad == {l \in 0..MaxGid : t \notin f[l]}
  <2> SUFFICES ASSUME Bad # {} PROVE FALSE
    BY <1>4
  <2>1. PICK l \in Bad : \A m \in Bad : l <= m
    <3>1. Bad \in SUBSET Nat
      OBVIOUS
    <3> HIDE DEF Bad
    <3> QED BY <3>1, Least
  <2>2. l # 0
    BY <1>2, <1>3, <2>1
  <2>3. l - 1 \in 0..MaxGid /\ l - 1 \notin Bad
    BY <1>2, <2>1, <2>2
  <2>4. t \in f[l-1] /\ f[l] = Further(f[l-1])
    BY <1>3, <2>2, <2>3
  <2> QED BY <2>1, <2>4 DEF Further
<1> DEFINE Bad == {x \in live : t \in Below[x] /\ \E k \in 0..MaxGid : x - 1 <= k /\ x \notin f[k]}
<1>5. Bad = {}
  <2> SUFFICES ASSUME Bad # {} PROVE FALSE
    OBVIOUS
  <2>1. Bad \in SUBSET Nat
    <3>1. live \subseteq Nat
      BY <1>2
    <3> QED BY <3>1
  <2>2. PICK x \in Bad : \A y \in Bad : x <= y
    <3> HIDE DEF Bad
    <3> QED BY <2>1, Least
  <2>3. PICK k \in 0..MaxGid : x - 1 <= k /\ x \notin f[k]
    OBVIOUS
  <2>4. x # t
    BY <1>4, <2>3
  <2>5. PICK p \in Parts(x) : t \in Below[p] /\ ~defs[x].nom
    BY <2>4, BelowCases
  <2>6. p \in live /\ p < x
    BY <2>5, DepParts
  <2>7. p \in 1..MaxGid /\ x \in 1..MaxGid /\ p \notin Bad
    <3>1. ~(x <= p)
      BY <1>2, <2>6
    <3> QED BY <1>2, <2>2, <2>6, <3>1
  <2>8. k - 1 \in 0..MaxGid /\ p - 1 <= k - 1 /\ k # 0
    BY <1>2, <2>3, <2>6, <2>7
  <2>9. p \in f[k-1]
    BY <2>5, <2>6, <2>7, <2>8
  <2>10. ~dep_const(p)
    BY <2>5, <2>6, DepGrows DEF dep_const
  <2>11. PICK u \in uses : u.def = p /\ u.user = x
    BY <2>5, <2>10, PartUsed
  <2>12. x \in Further(f[k-1])
    BY <2>9, <2>11 DEF Further
  <2> QED BY <1>3, <2>3, <2>8, <2>12
<1>6. d \notin Bad /\ MaxGid \in 0..MaxGid /\ d - 1 <= MaxGid
  BY <1>2, <1>5
<1> QED BY <1>1, <1>6

-----------------------------------------------------------------------------
(* The flags are right at first, and no step makes them wrong.                *)
LEMMA DepIsInvariant == Spec => []DepInv
<1>1. Init => DepInv
  <2> SUFFICES ASSUME Init PROVE DepInv
    OBVIOUS
  <2>1. live = {1} /\ defs[1] = [node |-> "Univ", nom |-> FALSE, type |-> Null, ops |-> <<>>, dep |-> {}]
    BY DEF Init, live, Univ
  <2>2. own_dep("Univ") = {}
    BY DEF own_dep
  <2>3. \A i \in 1..Len(<<>>) : FALSE
    OBVIOUS
  <2> QED BY <2>1, <2>2, <2>3 DEF DepInv, DepOK
<1>2. IInv /\ DepInv /\ [Next]_vars => DepInv'
  <2> SUFFICES ASSUME IInv, DepInv, [Next]_vars PROVE DepInv'
    OBVIOUS
  <2>1. CASE Next
    BY <2>1, NextKeeps, KeepsDep DEF IInv
  <2>2. CASE UNCHANGED vars
    BY <2>2 DEF vars, DepInv, DepOK, live
  <2> QED BY <2>1, <2>2
<1> QED BY <1>1, <1>2, Invariance, PTL DEF Spec

(* The flags that Def::finalize computes once are right for good, however the  *)
(* nominals below are set, unset or retyped later.                             *)
THEOREM FlagsExact == Spec => []DepExact
BY Invariance, DepIsInvariant, InvDepExact, PTL

(* Following uses from a nominal or a Var finds all that is bound by it.       *)
THEOREM UsesReach == Spec => []UsesReachAll
BY Invariance, DepIsInvariant, InvUsesReachAll, PTL
=============================================================================
