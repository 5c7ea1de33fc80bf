-------------------------------- MODULE World --------------------------------
(***************************************************************************)
(* The sea of nodes of thorin/world.h and thorin/def.{h,cpp}: structural    *)
(* defs are hash-consed, nominal defs have an identity and operands that    *)
(* are set later, and every def knows its uses and what it depends on.      *)
(***************************************************************************)
EXTENDS Integers, Sequences, FiniteSets

CONSTANTS
    Structural, \* the node kinds that World::unify makes; flags are part of the kind
    Nominal,    \* the node kinds that World::insert makes
    Arity,      \* the number of operands of a def of some kind
    MaxGid,     \* bound: the largest gid
    Threshold,  \* Search_In_Uses_Threshold
    ReduceArgs  \* bound: the gids that reduce() substitutes for a Var

Node == Structural \cup Nominal \cup {"Univ"}

ASSUME WorldAssumption ==
    /\ MaxGid \in Nat \ {0} /\ Threshold \in Nat
    /\ Structural \cap Nominal = {} /\ "Univ" \notin Structural \cup Nominal
    /\ {"Var", "Proxy", "Axiom"} \cap Nominal = {} /\ "Infer" \notin Structural
    /\ Arity \in [Structural \cup Nominal -> Nat]
    /\ \A node \in {"Var", "Pi", "Arr", "Infer"} \cap DOMAIN Arity : Arity[node] > 0
    /\ "Var" \in Structural => Arity["Var"] = 1
    /\ {"Lam", "Pi", "Sigma"} \cap Nominal # {} => "Var" \in Structural

VARIABLES
    defs,       \* the set Move::defs, as a function on the gids of its defs
    uses,       \* Use(d, u, i): operand i of def u, or its type when i = Type, is d
    curr_gid,   \* the last gid given out
    frozen,     \* World::is_frozen
    cache       \* Move::cache: the operands of the nominal a reduction was made from

vars == <<defs, uses, curr_gid, frozen, cache>>

-----------------------------------------------------------------------------
Null == 0           \* nullptr
Univ == 1           \* the first def of a World
Type == 0           \* Use::Type, which the code makes the largest size_t

Gid  == 1..MaxGid
live == DOMAIN defs

Deps == {"Nom", "Var", "Proxy", "Axiom"}

Def == [node : Node, nom : BOOLEAN, type : Gid \cup {Null},
        ops : Seq(Gid \cup {Null}), dep : SUBSET Deps]

(* Operand i of def u, or its type when i = Type, is d.                       *)
Use(d, u, i) == [def |-> d, user |-> u, index |-> i]
UseSet(S)    == [def : S, user : S, index : Nat]

dep_const(d) == defs[d].dep \cap {"Nom", "Var"} = {}

Used_nom(t) == defs[t].nom                                   \* mutant of Used
Used_var(t) == "Var" \in defs[t].dep                         \* mutant of Used
Used(t) == ~dep_const(t)                      \* does a new def register a use of t?

(* What a def of a kind depends on by itself.                                *)
own_dep(node) == {node} \cap {"Var", "Proxy", "Axiom"}

equal_dep(d, node, type, ops) ==                             \* mutant of equal
    /\ ~defs[d].nom /\ defs[d].node = node /\ defs[d].type = type /\ defs[d].ops = ops
    /\ defs[d].dep = own_dep(node)

(* Def::equal for two structural defs.                                       *)
equal(d, node, type, ops) ==
    ~defs[d].nom /\ defs[d].node = node /\ defs[d].type = type /\ defs[d].ops = ops

-----------------------------------------------------------------------------
Init ==
    /\ defs = [d \in {Univ} |->
                 [node |-> "Univ", nom |-> FALSE, type |-> Null, ops |-> <<>>, dep |-> {}]]
    /\ uses = {}
    /\ curr_gid = Univ
    /\ frozen = FALSE
    /\ cache = <<>>

Added(d, def) == [x \in live \cup {d} |-> IF x = d THEN def ELSE defs[x]]

finalize_ops(node, type, ops) ==                             \* mutant of finalize
    own_dep(node) \cup UNION {defs[ops[i]].dep : i \in 1..Len(ops)}

(* What Def::finalize makes a new structural def depend on.                   *)
finalize(node, type, ops) ==
    own_dep(node) \cup defs[type].dep \cup UNION {defs[ops[i]].dep : i \in 1..Len(ops)}

(* World::unify: a def equal to an existing one is thrown away, its gid is     *)
(* not given back.  A new def registers itself with those of its operands and *)
(* its type that are not constant.  A frozen World only looks the def up.     *)
Unify(node, type, ops) ==
    /\ ~frozen
    /\ curr_gid < MaxGid
    /\ curr_gid' = curr_gid + 1
    /\ IF \E d \in live : equal(d, node, type, ops)
       THEN UNCHANGED <<defs, uses>>
       ELSE /\ defs' = Added(curr_gid', [node |-> node, nom |-> FALSE, type |-> type, ops |-> ops,
                                         dep |-> finalize(node, type, ops)])
            /\ uses' = uses \cup {Use(ops[i], curr_gid', i) : i \in {j \in 1..Len(ops) : Used(ops[j])}}
                            \cup {Use(t, curr_gid', Type) : t \in {t \in {type} : Used(t)}}
    /\ UNCHANGED <<frozen, cache>>

(* World::insert, which does not ask whether the World is frozen.             *)
Insert(node, type) ==
    /\ curr_gid < MaxGid
    /\ curr_gid' = curr_gid + 1
    /\ defs' = Added(curr_gid', [node |-> node, nom |-> TRUE, type |-> type,
                                 ops |-> [i \in 1..Arity[node] |-> Null], dep |-> {"Nom"}])
    /\ uses' = uses \cup {Use(t, curr_gid', Type) : t \in {t \in {type} : Used(t)}}
    /\ UNCHANGED <<frozen, cache>>

-----------------------------------------------------------------------------
(* Def::var of a Lam, Pi or Sigma (the index type of an Arr or Pack is left   *)
(* out): few uses are searched for the Var, otherwise it is hash-consed.      *)
UsesOf(d) == {u \in uses : u.def = d}

FoundVars(n) == {u.user : u \in {w \in UsesOf(n) : defs[w.user].node = "Var" /\ defs[w.user].ops[1] = n}}

VarType(n) == CASE defs[n].node = "Lam"   -> defs[defs[n].type].ops[1]
                [] defs[n].node = "Pi"    -> defs[n].ops[1]
                [] defs[n].node = "Sigma" -> n

Var(n) ==
    /\ defs[n].nom
    /\ defs[n].node \in {"Lam", "Pi", "Sigma"}
    /\ VarType(n) # Null
    /\ Cardinality(UsesOf(n)) < Threshold => FoundVars(n) = {}
    /\ Unify("Var", VarType(n), <<n>>)

-----------------------------------------------------------------------------
(* Def::set, unset included: the use of the old operand is replaced.          *)
SetOp(D, n, i, d) == [D EXCEPT ![n].ops[i] = d]

SetUses_null(U, n, i, d) == {u \in U : u.user # n \/ u.index # i} \cup {Use(d, n, i)}  \* mutant
SetUses_add(U, n, i, d) == U \cup {Use(t, n, i) : t \in {d} \ {Null}}  \* mutant of SetUses
SetUses(U, n, i, d) ==
    {u \in U : u.user # n \/ u.index # i} \cup {Use(t, n, i) : t \in {d} \ {Null}}

(* Arr::check: the body gives an array whose type is open its type.           *)
Infers(n, i, d) ==
    /\ defs[n].node = "Arr" /\ i = Arity["Arr"] /\ d # Null
    /\ defs[defs[n].type].node = "Infer"

(* Operands are set from left to right, and setting the last one checks the    *)
(* nominal.  The Infer must be open and the body must have a type.            *)
Set(n, i, d) ==
    /\ defs[n].nom
    /\ d # defs[n].ops[i]
    /\ d = Null \/ (\A j \in 1..i-1 : defs[n].ops[j] # Null)
    /\ LET D == SetOp(defs, n, i, d)
           U == SetUses(uses, n, i, d)
       IN  IF Infers(n, i, d)
           THEN LET infer == defs[n].type
                    t     == defs[d].type
                IN  /\ D[infer].ops[1] = Null
                    /\ t # Null
                    /\ defs' = [SetOp(D, infer, 1, t) EXCEPT ![n].type = t]
                    /\ uses' = SetUses(SetUses(U, infer, 1, t), n, Type, t)
           ELSE defs' = D /\ uses' = U
    /\ UNCHANGED <<curr_gid, frozen, cache>>

(* Def::set_type of what the parser has made with a type to be inferred, a Pi or an *)
(* Arr: a debug build ends if the old type does not know of its use, as a constant   *)
(* one would not.                                                             *)
SetType(n, t) ==
    /\ defs[n].nom
    /\ defs[n].node \in {"Pi", "Arr"}
    /\ Use(defs[n].type, n, Type) \in uses
    /\ defs' = [defs EXCEPT ![n].type = t]
    /\ uses' = SetUses(uses, n, Type, t)
    /\ UNCHANGED <<curr_gid, frozen, cache>>

(* World::freeze, and Freezer, which puts the old value back.                 *)
Freeze(on) == frozen' = on /\ UNCHANGED <<defs, uses, curr_gid, cache>>

(* Def::reduce of a nominal: what the cache has for the pair is returned,     *)
(* otherwise the operands are rewritten and the result is cached for good.    *)
(* The defs that the rewriting makes are made by Unify and Insert.            *)
Reduce(n, a) ==
    /\ defs[n].nom
    /\ <<n, a>> \notin DOMAIN cache
    /\ cache' = [p \in DOMAIN cache \cup {<<n, a>>} |->
                    IF p = <<n, a>> THEN defs[n].ops ELSE cache[p]]
    /\ UNCHANGED <<defs, uses, curr_gid, frozen>>

(* What the code hands to the factories: the operand of a Var is a nominal,    *)
(* the type of a Lam a Pi.                                                    *)
MakeStructural == \E node \in Structural, type \in live :
    \E ops \in [1..Arity[node] -> live] :
        /\ node = "Var" => defs[ops[1]].nom
        /\ Unify(node, type, ops)

MakeNominal == \E node \in Nominal, type \in live :
    /\ node = "Lam" => defs[type].node = "Pi"
    /\ Insert(node, type)

Next == \/ MakeStructural \/ MakeNominal
        \/ \E n \in live : \/ Var(n)
                           \/ \E i \in 1..Len(defs[n].ops), d \in live \cup {Null} : Set(n, i, d)
                           \/ \E t \in live : SetType(n, t)
                           \/ \E a \in live \cap ReduceArgs : Reduce(n, a)
        \/ \E on \in BOOLEAN : Freeze(on)

Spec == Init /\ [][Next]_vars

-----------------------------------------------------------------------------
TypeOK ==
    /\ curr_gid \in Gid
    /\ live \subseteq 1..curr_gid
    /\ Univ \in live
    /\ defs \in [live -> Def]
    /\ uses \subseteq UseSet(live)
    /\ frozen \in BOOLEAN
    /\ \A p \in DOMAIN cache : p \in live \X live /\ cache[p] \in Seq(Gid \cup {Null})

-----------------------------------------------------------------------------
Structurals == {d \in live : ~defs[d].nom}

(* The defs a def is made of.                                                *)
Parts(d) == ({defs[d].type} \cup {defs[d].ops[i] : i \in 1..Len(defs[d].ops)}) \ {Null}

(* Hash-consing: no two structural defs are equal, so that the code may        *)
(* compare defs by address.                                                   *)
HashConsed ==
    \A d, e \in Structurals :
        /\ defs[d].node = defs[e].node
        /\ defs[d].type = defs[e].type
        /\ defs[d].ops = defs[e].ops
        => d = e

(* A cycle of defs goes through a nominal: a structural def is made of older   *)
(* defs only, and no set or set_type ever puts it into its own operands.      *)
Acyclic == \A d \in Structurals : Parts(d) \subseteq {e \in live : e < d}

(* The structural defs below a def, and the nominals where they end.          *)
Below == LET b[d \in live] == {d} \cup IF defs[d].nom THEN {} ELSE UNION {b[e] : e \in Parts(d)}
         IN  b

(* The flags Dep::Nom, Dep::Var and Dep::Proxy of a structural def say exactly *)
(* whether a nominal, a Var or a Proxy is below it, although they were         *)
(* computed once and the nominals have changed since.                         *)
DepExact ==
    \A d \in Structurals :
        LET B == Below[d]
        IN  /\ "Nom" \in defs[d].dep <=> \E e \in B : defs[e].nom
            /\ \A k \in {"Var", "Proxy"} : k \in defs[d].dep <=> \E e \in B : defs[e].node = k

(* Uses and operands agree: every use is the operand or type it says, every    *)
(* operand of a nominal is used, and so is what a def is made of unless it is  *)
(* constant.                                                                  *)
UsesExact ==
    /\ \A u \in uses :
           /\ u.index \in 0..Len(defs[u.user].ops)
           /\ u.def = (IF u.index = Type THEN defs[u.user].type ELSE defs[u.user].ops[u.index])
    /\ \A u \in live : \A i \in 1..Len(defs[u].ops) :
           LET d == defs[u].ops[i] IN
           d # Null /\ (defs[u].nom \/ ~dep_const(d)) => Use(d, u, i) \in uses
    /\ \A u \in live \ {Univ} : ~dep_const(defs[u].type) => Use(defs[u].type, u, Type) \in uses

(* Following uses from a nominal or a Var finds every def that is above it:    *)
(* Scope::run computes what is bound in this way.                             *)
Up(t) == LET up[k \in 0..MaxGid] ==
                 IF k = 0 THEN {t}
                 ELSE LET U == up[k-1] IN U \cup {u.user : u \in {w \in uses : w.def \in U}}
         IN  up[MaxGid]

UsesReachAll ==
    \A t \in live : ~dep_const(t) => {d \in live : t \in Below[d]} \subseteq Up(t)

(* The uses of a nominal hold its Var if there is one: this is how a frozen    *)
(* World answers Def::var.                                                    *)
VarIsFound ==
    \A v \in live : defs[v].node = "Var" => v \in FoundVars(defs[v].ops[1])

-----------------------------------------------------------------------------
(* world.h:116: "In frozen state the World does not create any nodes."        *)
FrozenCreatesNothing == [][frozen => DOMAIN defs' = DOMAIN defs]_vars

(* def.h: reduce "Rewrites Def::ops": what it returns for a pair is made from  *)
(* the operands the nominal has.                                              *)
ReducesOps == \A p \in DOMAIN cache : cache[p] = defs[p[1]].ops
-----------------------------------------------------------------------------
(* Small Worlds, for model checking.  That a kind has few operands is a bound, and so *)
(* is what a World holds at the same time: defs as the operands of functions are made  *)
(* of, arrays of a type to be inferred, or functions that are reduced.               *)
OneOperand == [node \in Structural \cup Nominal |-> 1]

Kinds == {defs[d].node : d \in live} \ {"Univ"}

Small ==
    \/ cache = <<>> /\ Kinds \subseteq {"Pi", "Var", "Proxy", "Lam"}
    \/ cache = <<>> /\ Kinds \subseteq {"Pi", "Arr", "Infer"} /\ curr_gid < MaxGid
    \/ Kinds \subseteq {"Pi", "Var", "Lam"} /\ curr_gid < MaxGid
=============================================================================
