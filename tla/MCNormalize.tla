---------------------------- MODULE MCNormalize ----------------------------
(***************************************************************************)
(* The normalizers of the dialects core and math, World's factories of        *)
(* tuples, the traits of types and the instructions that core's axioms        *)
(* become.  Each part runs by itself.  Widths of numbers are 1 (Bool), 2       *)
(* (which C++ promotes to int), 3 and 4 (the width of I64, whose size is 0).   *)
(* Where the code does not do what the axioms say, Computes, Unfit and the     *)
(* exceptions in MeaningKept and FormKept say what it does instead.           *)
(***************************************************************************)
EXTENDS Core, TLC

VARIABLES part, s1, s2

vars == <<part, s1, s2>>
idle == "idle"

X(t) == Var(t, 1)
Y(t) == Var(t, 2)
Four(tag, subs, m, t)   == {<<tag, s, m, t>> : s \in subs}
Setup(leaves, apps, max) == [leaves |-> leaves, apps |-> apps, max |-> max]

Lits(t)  == [v \in 1 .. 2^Width(t) |-> Lit(t, v - 1)]
Asked(t) == UNION {Four("wrap", {"add", "sub", "mul", "shl"}, m, t) : m \in 0..3}
            \cup Four("shr", {"a", "l"}, 0, t) \cup Four("div", {"sdiv", "udiv", "srem", "urem"}, 0, t)
            \cup Four("icmp", 0..31, 0, t) \cup Four("bit2", 0..15, 0, t) \cup Four("bit1", {"f", "t", "id", "neg"}, 0, t)
Every(t) == LET leaves == <<X(t), Y(t), Bot(t)>> \o Lits(t) IN Setup(leaves, Asked(t), Len(leaves))
Nats     == <<X(0), Y(0)>> \o Lits(0)
Sources  == <<X(0), X(1), X(2), X(3), X(4), Bot(2)>> \o Lits(0) \o Lits(1) \o Lits(2) \o Lits(3) \o Lits(4)

CoreSetups == [
    \* Every operation, under every mode, of two variables, bottom and all literals.
    one |-> Every(1), two |-> Every(2), three |-> Every(3), four |-> Every(4),
    nat |-> Setup(Nats, Four("nop", {"add", "mul"}, 0, 0) \cup Four("ncmp", 0..7, 0, 0), Len(Nats)),
    \* Every conversion, and the bitcasts that do not narrow.
    cast |-> Setup(Sources, UNION {Four("conv", {"u2u", "s2s"}, d, s) : d, s \in 1..4}
                            \cup UNION {{<<"bitcast", "", d, s>> : s \in {s \in 0..4 : Width(s) <= Width(d)}} : d \in 0..4}, Len(Sources)),
    \* Several operations on top of each other: arithmetic that wraps around,
    wrap |-> Setup(<<X(3), Y(3), Lit(3, 1), Lit(3, 7)>>, Four("wrap", {"add", "mul"}, 0, 3), 6),
    less |-> Setup(<<X(3), Lit(3, 1), Lit(3, 7)>>, Four("wrap", {"sub", "shl", "add"}, 0, 3), 5),
    narrow |-> Setup(<<X(2), Lit(2, 1), Lit(2, 3)>>, Four("wrap", {"add", "sub", "mul"}, 0, 2), 5),
    \* bitwise operations, and comparisons for them to merge,
    bits |-> Setup(<<X(2), Y(2), Lit(2, 2), Lit(1, 0), Lit(1, 1)>>,
                   Four("bit2", {0, 1, 6, 7, 8, 9, 14, 15}, 0, 1) \cup Four("icmp", {1, 10, 30}, 0, 2), 7),
    merge |-> Setup(<<X(2), Y(2)>>, Four("icmp", {1, 5, 10}, 0, 2) \cup Four("bit2", 0..15, 0, 1), 4),
    impl |-> Setup(<<X(2), Y(2), Y(0), Lit(0, 9)>>,
                   Four("bit2", {2, 3, 4, 5, 8, 10, 11, 12, 13}, 0, 2) \cup Four("nop", {"add", "mul"}, 0, 0)
                   \cup Four("bitcast", {""}, 0, 4) \cup Four("bitcast", {""}, 4, 0), 5),
    \* shifts, divisions and comparisons, and conversions.
    div  |-> Setup(<<X(3), Y(3), Lit(3, 0), Lit(3, 1), Lit(3, 5), Lit(3, 7)>>,
                   Four("shr", {"a", "l"}, 0, 3) \cup Four("div", {"sdiv", "udiv", "srem", "urem"}, 0, 3)
                   \cup Four("icmp", {0, 1, 2, 10, 18, 20, 31}, 0, 3) \cup Four("bit1", {"f", "t", "id", "neg"}, 0, 3), 6),
    conv |-> Setup(<<X(3), Y(4), Lit(4, 9), Lit(2, 1)>>,
                   UNION {Four("conv", {"u2u"}, d, s) : d, s \in 2..4}
                   \cup Four("conv", {"s2s"}, 3, 2) \cup Four("conv", {"s2s"}, 2, 3), 7)]

(* The floats of the dialect math, mode 0, the fast mode and some others.         *)
Fast    == 2^7 - 1
MathNaN == 1000
MathInf == 500
MathNZ  == 999
Operations == Four("arith", {"add", "sub", "mul", "div", "rem"}, 0, 16) \cup Four("arith", {"add", "sub", "mul", "div", "rem"}, Fast, 16)
MathSetups == [
    arith |-> Setup(<<X(16), Y(16), Lit(16, 1)>>,
                    UNION {Four("arith", {"add"}, m, 16) : m \in {64, Fast}} \cup Four("arith", {"sub", "mul"}, Fast, 16), 5),
    special |-> Setup(<<X(16), Lit(16, 0), Lit(16, MathNZ), Lit(16, 1), Lit(16, MathNaN), Lit(16, 2), Lit(16, MathInf)>>,
                      Operations \cup Four("rt", {"sq"}, 0, 16), 8),
    compare |-> Setup(<<X(16), Y(16), Lit(16, MathNaN)>>,
                      Four("cmp", {1, 6}, 0, 16) \cup Four("cmp", {8}, Fast, 16) \cup Four("bit2", {6, 8}, 0, 1), 5),
    extreme |-> Setup(<<X(16), Y(16), Lit(16, MathNaN)>>,
                      Four("extrema", {"fmin", "fmax", "ieee754max"}, 0, 16) \cup Four("extrema", {"ieee754min"}, 5, 16), 4),
    least |-> Setup(<<X(16), Lit(16, MathNaN)>>, Four("extrema", {"ieee754min"}, 4, 16), 2),
    zero  |-> Setup(<<Lit(16, 0), Lit(16, MathNZ)>>, Four("extrema", {"ieee754min"}, 0, 16), 2),
    power |-> Setup(<<X(16), Lit(16, 2), Lit(16, 1)>>, Four("pow", {""}, 0, 16), 3)]

Each(tag, subs, ms, ts) == {<<tag, s, m, t>> : s \in subs, m \in ms, t \in ts}
EmitOps ==
    Each("ncmp", 1..6, {0}, {0}) \cup Each("icmp", {1, 10, 11, 12, 13, 18, 19, 20, 21, 30}, {0}, 1..Full)
    \cup Each("bit1", {"neg"}, {0}, 1..Full) \cup Each("bit2", {1, 6, 7, 8, 9, 14}, {0}, 1..Full)
    \cup Each("shr", {"a", "l"}, {0}, 1..Full) \cup Each("wrap", {"add", "sub", "mul", "shl"}, 0..3, 1..Full)
    \cup Each("div", {"sdiv", "udiv", "srem", "urem"}, {0}, 1..Full)
    \cup Each("conv", {"s2s", "u2u"}, 1..Full, 1..Full)
    \cup {q \in Each("bitcast", {""}, 0..Full, 0..Full) : Width(q[3]) >= Width(q[4])}
    \cup Each("nop", {"add", "mul"}, {0}, {0})
    \cup Each("bit2", {4, 11}, {0}, {2})

(* Terms A, [A, B], «2; A» and «n; A» with n unknown, the indices of a pair, known and *)
(* not, one below n, and an element; types; and shapes.                            *)
N(node, n, ops) == [node |-> node, n |-> n, ops |-> ops]
Number(v)  == N("nat", v, <<>>)
Arr(sh, t) == N("arr", 0, <<sh, t>>)
TypeA == N("A", 0, <<>>)
TypeB == N("B", 0, <<>>)
Pair  == N("sigma", 0, <<TypeA, TypeB>>)
Unknown == N("var", 20, <<N("Nat", 0, <<>>)>>)
Index(v) == N("lit", v, <<Number(2)>>)
OfPair   == N("var", 2, <<Pair>>)
OfTwo    == N("var", 3, <<Arr(Number(2), TypeA)>>)
TupleTerms == {N("var", 1, <<TypeA>>), OfPair, OfTwo, N("var", 4, <<Arr(Unknown, TypeA)>>),
               Index(0), Index(1), N("var", 5, <<N("Idx", 0, <<Number(2)>>)>>), N("var", 6, <<N("Idx", 0, <<Unknown>>)>>),
               N("extract", 0, <<OfTwo, Index(1)>>)}
TupleTypes == {TypeA, Pair, Arr(Unknown, TypeA), N("sigma", 0, <<TypeA, N("sigma", 0, <<TypeB, TypeA>>)>>)}
Shape(dims) == N("tuple", 0, dims)
TupleShapes == {Number(0), Number(1), Number(2), Unknown, Shape(<<Number(2), Number(3)>>),
                Shape(<<Unknown, Number(1), Number(2)>>),
                N("pack", 0, <<Number(2), Number(2)>>), N("pack", 0, <<Number(2), Number(3)>>),
                N("extract", 0, <<Shape(<<Number(2), Number(3)>>), N("var", 5, <<N("Idx", 0, <<Number(2)>>)>>)>>)}

U == INSTANCE Tuples WITH Terms <- TupleTerms, Types <- TupleTypes, Shapes <- TupleShapes, MaxDefs <- 2, made <- s1, call <- s2
M == INSTANCE Math WITH Big <- 40, Floats <- {MathNaN, MathInf, MathNZ, -3}, Setups <- MathSetups, setup <- s1, defs <- s2
T == INSTANCE CoreTrait WITH Widths <- {1, 8, 9, 32, 64}, Shapes <- {-1, 0, 1, 3}, MaxDepth <- 2, ty <- s1, depth <- s2
I == INSTANCE LLInstr WITH Ops <- EmitOps, app <- s1

-----------------------------------------------------------------------------
(* The defs of Core that can be built, oldest first: an index is a gid.  A value is a *)
(* bit vector or Poison; a result may be anything where the application means       *)
(* Poison.  A literal counts by its bits, also where it does not fit (see LitsFit).   *)
RECURSIVE Eval(_, _)
Eval(x, env) ==
    IF is("lit", x) THEN x.v % 2^Width(x.t) ELSE IF is("bot", x) THEN Poison ELSE IF is("var", x) THEN env[x.v] ELSE
    LET u == Eval(x.args[1], env)
        v == Eval(x.args[Len(x.args)], env)
    IN IF u = Poison \/ v = Poison THEN Poison ELSE Meaning(x.k[1], x.k[2], x.m, Width(x.args[1].t), u, v)

RECURSIVE LeavesOf(_)
LeavesOf(x) == IF x.args = <<>> THEN {x} ELSE UNION {LeavesOf(x.args[i]) : i \in DOMAIN x.args}

Envs(L) == {e \in [{x.v : x \in {y \in L : is("var", y)}} -> 0 .. 2^Full - 1] :
               \A x \in L : is("var", x) => e[x.v] < 2^Width(x.t)}
-----------------------------------------------------------------------------
Leaves  == CoreSetups[s1].leaves
Apps    == CoreSetups[s1].apps
MaxDefs == CoreSetups[s1].max

CoreInit == s1 \in DOMAIN CoreSetups /\ s2 = Leaves

Operands(t) == {i \in DOMAIN s2 : s2[i].t = t}
Unary(p)    == p[1] \in {"bit1", "conv", "bitcast"}
Result(p, i, j) == App(s2, p[1], p[2], p[3], s2[i], s2[j])

Fits(x) == \A l \in LeavesOf(x) : is("lit", l) => l.v < 2^Width(l.t)

(* World::lit refuses a literal that does not fit: no program goes on with it.     *)
Apply(p, i, j) ==
    LET r == Result(p, i, j) IN
    /\ Len(s2) < MaxDefs
    /\ Fits(r)
    /\ \A k \in DOMAIN s2 : s2[k] # r
    /\ s2' = Append(s2, r)
    /\ UNCHANGED s1

Asks(p, i, j) == (Unary(p) => i = j) /\ ~(p[1] = "div" /\ Traps(p[2], s2[i], s2[j]))

CoreNext == \E p \in Apps : \E i, j \in Operands(p[4]) : Asks(p, i, j) /\ Apply(p, i, j)
-----------------------------------------------------------------------------
(* Every application that can be built now and could not be built before.       *)
Fresh(P(_, _, _)) ==
    \A p \in Apps : \A i, j \in Operands(p[4]) :
        Asks(p, i, j) /\ (Len(s2) = Len(Leaves) \/ Len(s2) \in {i, j}) => P(p, s2[i], s2[j])

RECURSIVE WellTyped(_)
WellTyped(x) == \/ x.args = <<>> /\ (is("lit", x) \/ is("bot", x) \/ is("var", x))
                \/ /\ x.t = Codomain(x.k[1], x.m, x.args[1])
                   /\ \A i \in DOMAIN x.args : x.args[i].t = x.args[1].t /\ WellTyped(x.args[i])

(* core.thorin: each application has the codomain of its axiom as its type, and     *)
(* the operands have one type.                                                   *)
CoreTyped == \A i \in DOMAIN s2 : WellTyped(s2[i])

(* What the code takes p of a and b for, at the values u and v, where that is not     *)
(* its Meaning.  The table of a bitwise operation is read with its axes swapped       *)
(* (core.h:144) when comparisons are merged and when one operand is 0 or -1; a         *)
(* conversion to I64 is never signed (normalizers.cpp:515), nor that of a literal of   *)
(* Bool (types.h:58); no I64 is shifted by a literal (:443); the difference from a     *)
(* literal is a sum under the same mode (:442), and a sum of equals is twice the one   *)
(* (:449), which differs in two bits only, where 2 is negative.                      *)
Swapped(id)  == IF Has(id, 1) = Has(id, 2) THEN id ELSE IF Has(id, 1) THEN id + 2 ELSE id - 2
Merged(a, b) == is("icmp", a) /\ is("icmp", b) /\ a.args = b.args
Extreme(x)   == is("lit", x) /\ x.v \in {0, Ones(x.t)}
Half(a, b)   == is("lit", a) # is("lit", b) /\ (Extreme(a) \/ Extreme(b))
Computes(p, a, b, u, v) ==
    LET w == Width(a.t)
    IN CASE p[1] = "bit2" /\ (Merged(a, b) \/ (Half(a, b) /\ p[2] \in {2, 4, 11, 13})) -> Bitwise2(Swapped(p[2]), w, u, v)
         [] p[1] = "conv" /\ p[2] = "s2s" /\ (p[3] = Full \/ (a.t = 1 /\ is("lit", a))) -> u
         [] p[1] = "wrap" /\ p[2] = "shl" /\ is("lit", b) /\ w = Full /\ b.v > 0 /\ ~is("lit", a) -> Poison
         [] p[1] = "wrap" /\ p[2] = "sub" /\ is("lit", b) /\ ~is("lit", a) -> Meaning("wrap", "add", p[3], w, u, -v % 2^w)
         [] p[1] = "wrap" /\ p[2] = "add" /\ a = b /\ ~is("lit", a) -> Meaning("wrap", "mul", p[3], w, 2 % 2^w, u)
         [] OTHER -> Meaning(p[1], p[2], p[3], w, u, v)

(* normalizers.cpp: what a normalizer answers has, for all values of the variables,   *)
(* the value the application has.                                                 *)
KeepsMeaning ==
    Fresh(LAMBDA p, a, b :
        LET r == App(s2, p[1], p[2], p[3], a, b) IN
        \A env \in Envs(LeavesOf(a) \cup LeavesOf(b)) :
            LET u == Eval(a, env)
                v == Eval(b, env)
                z == IF u = Poison \/ v = Poison THEN Poison ELSE Computes(p, a, b, u, v)
            IN z = Poison \/ Eval(r, env) = z)

(* core.thorin: the result has the codomain of the axiom as its type; only the        *)
(* comparison of two literals of Nat is a Nat (normalizers.cpp:210).                 *)
KeepsType ==
    Fresh(LAMBDA p, a, b :
        (App(s2, p[1], p[2], p[3], a, b).t # Codomain(p[1], p[3], a))
            <=> (p[1] = "ncmp" /\ p[2] \in 1..6 /\ is("lit", a) /\ is("lit", b)))

(* The applications whose answer has a literal that does not fit its type: the sum,   *)
(* difference, arithmetic shift, quotient and remainder of literals that C++ promotes, *)
(* which come out too large or negative (normalizers.cpp:47,52,76,82,84), sums that     *)
(* meet when they are reassociated included; the signed conversion of a negative        *)
(* literal to a wider type but I64 (:530); and x + x of Bool, which is 2 * x (:449).   *)
Offset(x) == IF is("lit", x) THEN {x.v}
             ELSE IF x.k = <<"wrap", "add">> /\ is("lit", x.args[1]) THEN {x.args[1].v} ELSE {}
Unfit(p, a, b) ==
    LET w == Width(a.t)
        literals == is("lit", a) /\ is("lit", b)
        s == Sgn(a.v, w)
        t == Sgn(b.v, w)
    IN \/ p[1] = "wrap" /\ p[2] = "add" /\ w < IntBits /\ (a # b \/ literals)
          /\ \E c \in Offset(a), d \in Offset(b) : c + d >= 2^w
       \/ p[1] = "wrap" /\ p[2] = "add" /\ w = 1 /\ a = b /\ is("var", a)
       \/ p[1] = "wrap" /\ p[2] = "sub" /\ w < IntBits /\ literals /\ a.v < b.v
       \/ p[1] = "wrap" /\ p[2] = "sub" /\ w < IntBits /\ ~is("lit", a) /\ is("lit", b) /\ b.v # 0
          /\ \E c \in Offset(a) : c >= b.v
       \/ p[1] = "shr" /\ p[2] = "a" /\ 1 < w /\ w < IntBits /\ literals /\ s < 0 /\ b.v < w
       \/ p[1] = "div" /\ 1 < w /\ w < IntBits /\ literals /\ t # 0
          /\ \/ p[2] = "sdiv" /\ TruncDiv(s, t) < 0
             \/ p[2] = "srem" /\ s - t * TruncDiv(s, t) < 0
       \/ p[1] = "conv" /\ p[2] = "s2s" /\ 1 < w /\ w < p[3] /\ p[3] < Full /\ is("lit", a) /\ s < 0

(* world.cpp:352: a normalizer makes a literal that is out of the range of its type,   *)
(* which World::lit reports as an error of the program, for those and for no others.    *)
LitsFit == Fresh(LAMBDA p, a, b : Fits(App(s2, p[1], p[2], p[3], a, b)) <=> ~Unfit(p, a, b))

(* A result is in normal form: rewriting, which builds it again from its own        *)
(* operands, gets the same def.                                                  *)
Stable ==
    Fresh(LAMBDA p, a, b :
        LET r == App(s2, p[1], p[2], p[3], a, b) IN
        Len(r.args) > 0 => App(s2, r.k[1], r.k[2], r.m, r.args[1], r.args[Len(r.args)]) = r)

-----------------------------------------------------------------------------
Init ==
    \/ part = "core" /\ CoreInit
    \/ part = "math" /\ M!Init
    \/ part = "tuple" /\ U!Init
    \/ part = "trait" /\ T!Init
    \/ part = "instr" /\ I!Init /\ s2 = idle

Step(p, A) == part = p /\ A /\ part' = p
Next ==
    \/ Step("core", CoreNext)
    \/ Step("math", M!Next)
    \/ Step("tuple", U!Next)
    \/ Step("trait", T!Next)
    \/ Step("instr", I!Next /\ UNCHANGED s2)
Spec == Init /\ [][Next]_vars
-----------------------------------------------------------------------------
In(p, names) == part = p /\ s1 \in names

(* normalizers.cpp, ll.cpp: a normalizer answers with something that has, for all    *)
(* values of the variables, the value of the application, up to the freedoms of its   *)
(* mode, or what Computes says instead; and so do the instructions an axiom is         *)
(* emitted as.  Not so the folding of a minimum of NaN or of two zeros and of a power   *)
(* of two, and each of the two implications, 4 and 11, is emitted as another (11 and    *)
(* 2).  A factory of tuples answers with what was asked for, unless the shape is given  *)
(* as a pack, and flattening loses nothing.                                         *)
MeaningKept ==
    /\ part = "core" => KeepsMeaning
    /\ part = "math" => IF s1 \in {"least", "zero", "power"}
                        THEN s2 = M!Leaves => ~M!KeepsMeaning
                        ELSE M!KeepsMeaning
    /\ part = "tuple" => (U!Square \/ U!RightValues) /\ U!FlatAndBack
    /\ part = "instr" =>
          /\ I!IndexKept /\ I!FloatTables /\ I!TriFunctions
          /\ CASE I!p[1] = "nop" -> I!SmallNats
               [] I!p[1] = "bit2" /\ I!p[2] \in {4, 11} ->
                     I!Emitted = Meaning("bit2", IF I!p[2] = 4 THEN 11 ELSE 2, 0, 2, I!a, I!b)
               [] OTHER -> I!MeansTheSame

(* The Join of an array of three numbers of 32 bits and of one of 64.              *)
Uneven == T!Type("join", 0, <<T!Type("idx", 64, <<>>), T!Type("arr", 3, <<T!Type("idx", 32, <<>>)>>)>>)

(* world.cpp:352, core.thorin: what a normalizer answers has the type of the          *)
(* application, literals that fit their type but for those of Unfit, and is in normal   *)
(* form, so that building it again gives it again; a type has room for its fields or     *)
(* its cases.  Only a comparison of Nats is folded to a                               *)
(* Nat, the assertion of core.cpp:36 on the cases of a Join fails for Uneven, and an   *)
(* array whose shape is a pack has not the dimensions of the shape (world.cpp:310),   *)
(* and a pack of a selected size is not made again (def.cpp:82).                    *)
FormKept ==
    /\ part = "core" => CoreTyped /\ Stable /\ LitsFit /\ KeepsType
    /\ part = "math" => M!TypeOK /\ M!Stable
    /\ part = "tuple" => (U!Square <=> ~U!RightType) /\ U!OnlyUnknown /\ (U!Selected <=> ~U!Normal) /\ U!OfSets
    /\ part = "trait" => T!FieldsFit /\ T!PayloadHolds /\ (s1 = Uneven => ~T!CasesDivide)
=============================================================================
