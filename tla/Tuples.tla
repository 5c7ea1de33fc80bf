------------------------------- MODULE Tuples -------------------------------
(***************************************************************************)
(* World's factories of sigmas, arrays, tuples, packs, extracts and inserts,   *)
(* and of the ends of the lattice of types (world.cpp), with flatten and        *)
(* unflatten (tuple.cpp).  They normalize: what they answer is a value here, so  *)
(* that equal defs are identical.  Sigmas and arrays are structural.            *)
(***************************************************************************)
EXTENDS Integers, Sequences, FiniteSets
LOCAL INSTANCE SequencesExt

CONSTANTS Terms, Types, Shapes,     \* the variables, literals, types and shapes to start from
          MaxDefs                   \* bound: defs that are made

VARIABLES made,     \* the terms there are
          call      \* the last call of a factory: its name, its arguments and its answer

vars == <<made, call>>

Def(node, n, ops) == [node |-> node, n |-> n, ops |-> ops]

Star      == Def("Type", 0, <<>>)
NatT      == Def("Nat", 0, <<>>)
Idx(size) == Def("Idx", 0, <<size>>)
Nat_(v)   == Def("nat", v, <<>>)                 \* a literal of type Nat
lit_idx(size, v) == Def("lit", v, <<Nat_(size)>>)   \* and one of type Idx size
Var(x, t) == Def("var", x, <<t>>)
Failed    == Def("failed", 0, <<>>)              \* what asserts

isa_lit(d)  == d.node \in {"nat", "lit"}
Equal(ops)  == \A i \in DOMAIN ops : ops[i] = ops[1]
Copies(n, d) == [i \in 1..n |-> d]

RECURSIVE type(_), sigma(_), tuple(_), fill(_, _, _), fills(_, _, _), extract(_, _), elem(_, _)

sigma(ops) ==
    CASE Len(ops) = 1                -> ops[1]
      [] Len(ops) > 1 /\ Equal(ops)  -> fill("arr", Nat_(Len(ops)), ops[1])
      [] OTHER                       -> Def("sigma", 0, ops)

type(d) ==
    CASE d.node = "nat"     -> NatT
      [] d.node = "lit"     -> Idx(d.ops[1])
      [] d.node \in {"var", "top", "bot"} -> d.ops[1]
      [] d.node = "tuple"   -> sigma([i \in DOMAIN d.ops |-> type(d.ops[i])])
      [] d.node = "pack"    -> fill("arr", d.ops[1], type(d.ops[2]))
      [] d.node = "extract" -> elem(type(d.ops[1]), d.ops[2])
      [] d.node = "insert"  -> type(d.ops[1])
      [] OTHER              -> Star
elem(t, index) ==
    CASE t.node = "sigma" /\ isa_lit(index) -> t.ops[index.n + 1]
      [] t.node = "sigma" /\ ~isa_lit(index) -> extract(tuple(t.ops), index)
      [] t.node = "arr"                     -> t.ops[2]
      [] OTHER                              -> t
arity(t) == CASE t.node = "sigma" -> Nat_(Len(t.ops)) [] t.node = "arr" -> t.ops[1] [] OTHER -> Nat_(1)
size(index) == type(index).ops[1]

(* All elements of a tuple, in their order, are that tuple.                       *)
Eta(ops) == IF ops = <<>> \/ ops[1].node # "extract" THEN {}
            ELSE {d \in {ops[1].ops[1]} :
                     /\ \A i \in DOMAIN ops : /\ ops[i].node = "extract" /\ ops[i].ops[1] = d
                                              /\ isa_lit(ops[i].ops[2]) /\ ops[i].ops[2].n = i - 1
                     /\ type(d) = sigma([i \in DOMAIN ops |-> type(ops[i])])}
tuple(ops) ==
    CASE Len(ops) = 1               -> ops[1]
      [] Len(ops) > 1 /\ Equal(ops) -> fill("pack", Nat_(Len(ops)), ops[1])
      [] Len(ops) > 1 /\ ~Equal(ops) /\ Eta(ops) # {} -> ops[1].ops[1]
      [] OTHER                      -> Def("tuple", 0, ops)

(* Array types and packs: «shape; body» and ‹shape; body›.                        *)
fill(node, shape, body) ==
    CASE shape.node = "nat" /\ shape.n = 0 -> IF node = "arr" THEN sigma(<<>>) ELSE tuple(<<>>)
      [] shape.node = "nat" /\ shape.n = 1 -> body
      [] node = "arr" /\ shape.node = "extract" /\ shape.ops[1].node = "tuple" ->
            extract(tuple([i \in DOMAIN shape.ops[1].ops |-> fill(node, shape.ops[1].ops[i], body)]), shape.ops[2])
      [] shape.node = "tuple" -> fill(node, Head(shape.ops), fills(node, Tail(shape.ops), body))
      [] shape.node = "pack" /\ isa_lit(shape.ops[1]) ->
            LET rank == shape.ops[1].n
            IN  fill(node, Nat_(rank), fill(node, fill("pack", Nat_(rank - 1), shape.ops[2]), body))
      [] OTHER -> Def(node, 0, <<shape, body>>)
fills(node, shapes, body) ==
    IF shapes = <<>> THEN body ELSE fills(node, Front(shapes), fill(node, Last(shapes), body))

proj(d, a, i) ==
    CASE a = 1 -> d
      [] a # 1 /\ d.node \in {"tuple", "sigma"} -> d.ops[i + 1]
      [] a # 1 /\ d.node \in {"pack", "arr"}    -> d.ops[2]
      [] OTHER -> extract(d, lit_idx(a, i))

extract(d, index) ==
    CASE index.node = "tuple" -> tuple([i \in DOMAIN index.ops |-> proj(d, Len(index.ops), index.ops[i].n)])
      [] index.node = "pack"  -> tuple(Copies(index.ops[1].n, extract(d, index.ops[2])))
      [] index.node \notin {"tuple", "pack"} /\ size(index) = Nat_(1) -> d
      [] d.node = "pack"      -> d.ops[2]
      [] d.node = "insert" /\ d.ops[2] = index -> d.ops[3]
      [] isa_lit(index) /\ d.node = "tuple"    -> d.ops[index.n + 1]
      [] isa_lit(index) /\ d.node = "insert" /\ d.ops[2] # index /\ isa_lit(d.ops[2]) -> extract(d.ops[1], index)
      [] OTHER -> Def("extract", 0, <<d, index>>)

(* as_lit of an index that is not a literal asserts.                              *)
Refine(ops, index, val) == IF isa_lit(index) THEN tuple([ops EXCEPT ![index.n + 1] = val]) ELSE Failed

insert(d, index, val) ==
    CASE size(index) = Nat_(1) -> val
      [] d.node = "tuple"      -> Refine(d.ops, index, val)
      [] d.node = "pack" /\ isa_lit(d.ops[1]) -> Refine(Copies(d.ops[1].n, d.ops[2]), index, val)
      [] d.node = "insert" /\ d.ops[2] = index -> Def("insert", 0, <<d.ops[1], index, val>>)
      [] OTHER -> Def("insert", 0, <<d, index, val>>)

(* Top (up) and bottom of a type, joins (up) and meets.                            *)
Ends      == {"top", "bot"}
End(up)   == IF up THEN "top" ELSE "bot"
RECURSIVE ext(_, _)
ext(up, t) ==
    CASE t.node = "arr"   -> fill("pack", t.ops[1], ext(up, t.ops[2]))
      [] t.node = "sigma" -> tuple([i \in DOMAIN t.ops |-> ext(up, t.ops[i])])
      [] OTHER            -> Def(End(up), 0, <<t>>)

bound(up, ops) ==
    LET cpy == {ops[i] : i \in {j \in DOMAIN ops : ops[j].node \notin Ends}}
    IN  CASE \E i \in DOMAIN ops : ops[i].node = End(up) -> ext(up, Star)
          [] Cardinality(cpy) = 0 /\ (\A i \in DOMAIN ops : ops[i].node # End(up)) -> ext(~up, Star)
          [] Cardinality(cpy) = 1 /\ (\A i \in DOMAIN ops : ops[i].node # End(up)) -> CHOOSE d \in cpy : TRUE
          [] OTHER -> Def(IF up THEN "join" ELSE "meet", 0, SetToSeq(cpy))      \* sorted by gid

(* Def::rebuild: makes a def again.                                                  *)
rebuild(d) == CASE d.node = "tuple"   -> tuple(d.ops)
                [] d.node = "extract" -> extract(d.ops[1], d.ops[2])
                [] d.node = "insert"  -> insert(d.ops[1], d.ops[2], d.ops[3])
                [] d.node = "pack"    -> fill("pack", arity(type(d)), d.ops[2])
                [] d.node = "arr"     -> fill("arr", d.ops[1], d.ops[2])
                [] d.node = "sigma"   -> sigma(d.ops)
                [] d.node \in Ends    -> ext(d.node = "top", d.ops[1])
                [] d.node \in {"join", "meet"} -> bound(d.node = "join", d.ops)
                [] OTHER              -> d

(* flatten, and unflatten, which takes defs out of a list from j on.               *)
should_flatten(t) == t.node \in {"sigma", "arr"} /\ isa_lit(arity(t)) /\ arity(t).n # 1
RECURSIVE flatten(_), unflatten(_, _, _), unflattens(_, _, _, _)
flatten(d) ==
    IF ~should_flatten(type(d)) THEN <<d>>
    ELSE FlattenSeq([i \in 1..arity(type(d)).n |-> flatten(proj(d, arity(type(d)).n, i - 1))])
unflattens(ds, t, i, j) ==
    IF i = arity(t).n THEN [defs |-> <<>>, j |-> j]
    ELSE LET u == unflatten(ds, proj(t, arity(t).n, i), j)
             v == unflattens(ds, t, i + 1, u.j)
         IN  [defs |-> <<u.def>> \o v.defs, j |-> v.j]
unflatten(ds, t, j) ==
    IF (ds # <<>> /\ type(ds[1]) = t) \/ ~(isa_lit(arity(t)) /\ arity(t).n # 1)
    THEN [def |-> ds[j], j |-> j + 1]
    ELSE LET v == unflattens(ds, t, 0, j) IN [def |-> tuple(v.defs), j |-> v.j]

-----------------------------------------------------------------------------
Call(op, args, def) == [op |-> op, args |-> args, def |-> def]
Init == made = Terms /\ call = Call("none", <<>>, Star)

\* Terms are made of terms; a call on types makes none and is looked at by itself.
OfTypes == {"arr", "join", "meet"} \cup Ends
Room == call.op \notin OfTypes /\ Cardinality(made) < Cardinality(Terms) + MaxDefs
Made(op, args, d) ==
    /\ call' = Call(op, args, d)
    /\ made' = made \cup ({d} \ {Failed})
Asked(op, args, d) == call' = Call(op, args, d) /\ UNCHANGED made

(* Well-typed calls.  An element at an unknown index has the type of all of them.   *)
MakeTuple   == \E a, b \in made : Made("tuple", <<a, b>>, tuple(<<a, b>>))
MakePack    == \E s \in Shapes, a \in made : Made("pack", <<s, a>>, fill("pack", s, a))
MakeArr     == \E s \in Shapes, t \in Types : Asked("arr", <<s, t>>, fill("arr", s, t))
Indices(d)  == {i \in made : type(i) = Idx(arity(type(d)))}
MakeExtract == \E d \in made : \E i \in Indices(d) : Made("extract", <<d, i>>, extract(d, i))
MakeInsert  == \E d \in made : \E i \in Indices(d) : \E v \in {v \in made : type(v) = elem(type(d), i)} :
                   Made("insert", <<d, i, v>>, insert(d, i, v))
MakeExt     == \E up \in BOOLEAN, t \in Types : Asked(End(up), <<t>>, ext(up, t))
MakeBound   == \E up \in BOOLEAN : \E ops \in BoundedSeq(Types \cup {ext(TRUE, Star), ext(FALSE, Star)}, 3) :
                   ops # <<>> /\ Asked(IF up THEN "join" ELSE "meet", ops, bound(up, ops))

Next == \/ Room /\ (MakeTuple \/ MakePack \/ MakeExtract \/ MakeInsert)
        \/ call.op = "none" /\ (MakeArr \/ MakeExt \/ MakeBound)
Spec == Init /\ [][Next]_vars
-----------------------------------------------------------------------------
(* What a term is: the scalar that stands at each place, given what the unknown      *)
(* indices are.  Unknown sizes are Size.                                          *)
Size     == 2
Unknown(d) == d.node = "var" /\ d.ops[1].node = "Idx"
Envs     == [{d.n : d \in {e \in made : Unknown(e)}} -> 0..Size - 1]
val(d, env)   == IF isa_lit(d) THEN d.n ELSE IF d.n \in DOMAIN env THEN env[d.n] ELSE Size

RECURSIVE Places(_, _), At(_, _, _)
Places(t, env) ==
    CASE t.node = "arr"   -> {<<i>> \o p : i \in 0..val(t.ops[1], env) - 1, p \in Places(t.ops[2], env)}
      [] t.node = "sigma" -> UNION {{<<i - 1>> \o p : p \in Places(t.ops[i], env)} : i \in DOMAIN t.ops}
      [] t.node = "extract" -> Places(t.ops[1].ops[val(t.ops[2], env) + 1], env)
      [] OTHER            -> {<<>>}
At(d, p, env) ==
    CASE d.node = "tuple"   -> At(d.ops[Head(p) + 1], Tail(p), env)
      [] d.node = "pack"    -> At(d.ops[2], Tail(p), env)
      [] d.node = "extract" -> At(d.ops[1], <<val(d.ops[2], env)>> \o p, env)
      [] d.node = "insert"  -> IF Head(p) = val(d.ops[2], env) THEN At(d.ops[3], Tail(p), env) ELSE At(d.ops[1], p, env)
      [] OTHER              -> <<d, p>>

(* What was asked for: the dimensions of a shape are those of the array.             *)
Dims(s) == CASE s.node = "tuple" -> s.ops
             [] s.node = "pack" /\ isa_lit(s.ops[1]) -> Copies(s.ops[1].n, s.ops[2])
             [] OTHER -> <<s>>
RECURSIVE Array(_, _)
Array(dims, t) ==
    IF dims = <<>> THEN t
    ELSE LET u == Array(Tail(dims), t)
         IN  CASE Head(dims) = Nat_(0) -> Def("sigma", 0, <<>>) [] Head(dims) = Nat_(1) -> u
               [] Head(dims).node = "extract" ->      \* one of several arrays
                     LET sizes == Head(dims).ops[1].ops
                     IN  extract(tuple([i \in DOMAIN sizes |-> Array(<<sizes[i]>>, u)]), Head(dims).ops[2])
               [] OTHER -> Def("arr", 0, <<Head(dims), u>>)
Expected ==
    LET a == call.args
    IN  CASE call.op = "tuple"   -> sigma(<<type(a[1]), type(a[2])>>)
          [] call.op = "pack"    -> Array(Dims(a[1]), type(a[2]))
          [] call.op = "extract" -> elem(type(a[1]), a[2])
          [] call.op = "insert"  -> type(a[1])
          [] call.op \in Ends    -> a[1]
          [] OTHER               -> Star
Wanted(p, env) ==
    LET a == call.args
        rank == Len(SelectSeq(Dims(a[1]), LAMBDA x : x # Nat_(1)))
    IN  CASE call.op = "tuple"   -> At(a[Head(p) + 1], Tail(p), env)
          [] call.op = "pack"    -> At(a[2], SubSeq(p, rank + 1, Len(p)), env)
          [] call.op = "extract" -> At(a[1], <<val(a[2], env)>> \o p, env)
          [] call.op = "insert"  -> IF Head(p) = val(a[2], env) THEN At(a[3], Tail(p), env) ELSE At(a[1], p, env)

(* A shape of equal dimensions, which is a pack, loses the first of them: the code     *)
(* takes the number of the dimensions for it (world.cpp:310, 331).                  *)
Square == call.op \in {"arr", "pack"} /\ call.args[1].node = "pack" /\ call.args[1].ops[1] # call.args[1].ops[2]

(* Whatever is normalized on the way, the answer has the type that was asked for and   *)
(* holds in each place what was asked for (world.cpp:114-376).  Only an insert at an    *)
(* unknown index of a tuple that is known asserts.                                  *)
RightType == call.def # Failed =>
    CASE call.op = "arr" -> call.def = Array(Dims(call.args[1]), call.args[2])
      [] OTHER           -> type(call.def) = Expected
RightValues ==
    /\ call.op \in {"tuple", "pack", "extract", "insert"} /\ call.def # Failed =>
          \A env \in Envs : \A p \in Places(Expected, env) : At(call.def, p, env) = Wanted(p, env)
    /\ call.op \in Ends => \A p \in Places(Expected, <<>>) : At(call.def, p, <<>>)[1].node = call.op
OnlyUnknown == call.def = Failed <=> /\ call.op = "insert" /\ ~isa_lit(call.args[2])
                                     /\ call.args[1].node \in {"tuple", "pack"} /\ isa_lit(arity(type(call.args[1])))

(* An answer is in normal form: making it again from its operands, as a rewrite does,  *)
(* gives it again.  Not so a pack whose number of elements is selected by an index: its  *)
(* type is an extract, whose arity is 1 (def.cpp:82, 248).                            *)
Normal   == rebuild(call.def) = call.def
Selected == call.def.node = "pack" /\ type(call.def).node = "extract"

(* A join or meet is that of a set: neither order nor repetition counts, the bottom     *)
(* of the types adds nothing to a join, and their top is all of it (world.cpp:374-397). *)
OfSets == call.op \in {"join", "meet"} =>
    LET ops == call.args
        up  == call.op = "join"
        S   == {ops[i] : i \in DOMAIN ops}
    IN  /\ call.def = bound(up, SetToSeq(S)) /\ call.def = bound(up, Append(ops, ext(~up, Star)))
        /\ ext(up, Star) \in S => call.def = ext(up, Star)
        /\ Cardinality(S) = 1 => call.def \in S

(* unflatten takes all that flatten gave and makes a term of the same type with the     *)
(* same scalars of it (tuple.cpp); of an insert it makes the tuple.                 *)
FlatAndBack == \A d \in (IF call.op = "none" THEN made ELSE made \cap {call.def}) :
    LET ds == flatten(d)
        u  == unflatten(ds, type(d), 1)
    IN  /\ u.j = Len(ds) + 1 /\ type(u.def) = type(d)
        /\ \A env \in Envs : \A p \in Places(type(d), env) : At(u.def, p, env) = At(d, p, env)
        /\ \A i \in DOMAIN ds : ~should_flatten(type(ds[i]))
=============================================================================
