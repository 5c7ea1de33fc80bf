------------------------------ MODULE LLInstr ------------------------------
(* The instructions that Emitter::emit_bb of ll.cpp picks for the axioms of    *)
(* the dialects core and math. An instruction is a term: its opcode, its       *)
(* flags, the width of its operands, the width of its result, its operands;    *)
(* <<"a">> and <<"b">> are the emitted operands of the axiom. Run gives the    *)
(* instructions the meaning that LLVM's reference gives them.                  *)
EXTENDS Core, TLC

Ins(op, flags, w, d, args) == <<op, flags, w, d, args>>
A == <<"a">>
B == <<"b">>
AllOnes == <<"-1">>

-----------------------------------------------------------------------------
Ncmp == [k \in 0..7 |-> CASE k = 1 -> "eq" [] k = 2 -> "ult" [] k = 3 -> "ule" [] k = 4 -> "ugt"
                          [] k = 5 -> "uge" [] k = 6 -> "ne" [] OTHER -> "none"]
\* The ten of the comparisons XYGLE that have a predicate.
Icmp == [k \in 0..31 |-> CASE k = 1 -> "eq" [] k = 30 -> "ne" [] k = 20 -> "sgt" [] k = 21 -> "sge"
                          [] k = 10 -> "slt" [] k = 11 -> "sle" [] k = 12 -> "ugt" [] k = 13 -> "uge"
                          [] k = 18 -> "ult" [] k = 19 -> "ule" [] OTHER -> "none"]
neg(w, x) == Ins("xor", {}, w, w, <<AllOnes, x>>)
nop(sub) == Ins(sub, {"nuw", "nsw"}, Full, Full, <<A, B>>)
bit2(id, w) ==
    LET i(op) == Ins(op, {}, w, w, <<A, B>>) IN
    CASE id = 8  -> i("and")
      [] id = 14 -> i("or")
      [] id = 6  -> i("xor")
      [] id = 7  -> neg(w, i("and"))
      [] id = 1  -> neg(w, i("or"))
      [] id = 9  -> neg(w, i("xor"))
      [] id = 11 -> Ins("and", {}, w, w, <<neg(w, A), B>>)
      [] id = 4  -> Ins("or", {}, w, w, <<neg(w, A), B>>)
Flags(m) == {f \in {"nuw", "nsw"} : IF f = "nuw" THEN m \div 2 = 1 ELSE m % 2 = 1}
Extend(sub, s, d) == IF s >= d THEN "trunc" ELSE IF sub = "s2s" THEN "sext" ELSE "zext"

\* An axiom that is not of the core dialect has no sub that these tables know.
emit_bb(tag, sub, m, t) ==
    LET w == Width(t)
        d == Width(m)
        i(op, flags) == Ins(op, flags, w, w, <<A, B>>)
    IN CASE tag = "nop"  -> nop(sub)
         [] tag = "ncmp" -> Ins(Ncmp[sub], {}, w, 1, <<A, B>>)
         [] tag = "icmp" -> Ins(Icmp[sub], {}, w, 1, <<A, B>>)
         [] tag = "bit1" -> neg(w, A)
         [] tag = "bit2" -> bit2(sub, w)
         [] tag = "shr"  -> i(IF sub = "a" THEN "ashr" ELSE "lshr", {})
         [] tag = "wrap" -> i(sub, Flags(m))
         [] tag = "div"  -> i(sub, {})
         [] tag \in {"conv", "bitcast"} -> IF w = d THEN A ELSE Ins(Extend(sub, w, d), {}, w, d, <<A>>)

\* An index of less than 64 bits gets one more, as getelementptr takes it for signed.
gep_index(w) == IF w < Full THEN <<Ins("zext", {}, w, w + 1, <<A>>), w + 1>> ELSE <<A, w>>

-----------------------------------------------------------------------------
\* Floating point: the predicate of a comparison UGLE, the function of tri, of extrema, of conv.
Fcmp == [k \in 1..14 |-> <<"oeq", "olt", "ole", "ogt", "oge", "one", "ord",
                           "uno", "ueq", "ult", "ule", "ugt", "uge", "une">>[k]]
\* The letters of a sub AHFF: what is put in front of and behind the base.
Tri(sub) == <<Has(sub, 3), <<"sin", "cos", "tan", "none">>[(sub % 4) + 1], Has(sub, 2)>>
Extrema == <<"minnum", "maxnum", "minimum", "maximum">>
Fconv(sub, s, d) ==
    CASE sub = "f2f" -> IF s < d THEN "fpext" ELSE "fptrunc"
      [] sub = "s2f" -> "sitofp" [] sub = "u2f" -> "uitofp"
      [] sub = "f2s" -> "fptosi" [] sub = "f2u" -> "fptoui"

-----------------------------------------------------------------------------
\* LLVM (external). -1 is poison.
Arithmetic(flags, w, exact, signed) ==
    IF ("nuw" \in flags /\ exact \notin 0 .. 2^w - 1) \/ ("nsw" \in flags /\ ~InSgn(signed, w)) THEN -1 ELSE exact % 2^w
LLVM(op, flags, w, d, x, y) ==
    LET s == Sgn(x, w)
        t == Sgn(y, w)
    IN CASE op = "add" -> Arithmetic(flags, w, x + y, s + t)
         [] op = "sub" -> Arithmetic(flags, w, x - y, s - t)
         [] op = "mul" -> Arithmetic(flags, w, x * y, s * t)
         [] op = "shl" -> IF y >= w THEN -1 ELSE Arithmetic(flags, w, x * 2^y, s * 2^y)
         [] op = "and" -> x & y
         [] op = "or"  -> x | y
         [] op = "xor" -> x ^^ y
         [] op = "lshr" -> IF y >= w THEN -1 ELSE x \div 2^y
         [] op = "ashr" -> IF y >= w THEN -1 ELSE (s \div 2^y) % 2^w
         [] op \in {"udiv", "urem"} -> IF y = 0 THEN -1 ELSE IF op = "udiv" THEN x \div y ELSE x % y
         [] op \in {"sdiv", "srem"} -> IF y = 0 \/ ~InSgn(TruncDiv(s, t), w) THEN -1
                                       ELSE IF op = "sdiv" THEN TruncDiv(s, t) % 2^w ELSE (s - t * TruncDiv(s, t)) % 2^w
         [] op = "eq"  -> Bit(x = y) [] op = "ne" -> Bit(x # y)
         [] op = "ult" -> Bit(x < y) [] op = "ule" -> Bit(x <= y) [] op = "ugt" -> Bit(x > y) [] op = "uge" -> Bit(x >= y)
         [] op = "slt" -> Bit(s < t) [] op = "sle" -> Bit(s <= t) [] op = "sgt" -> Bit(s > t) [] op = "sge" -> Bit(s >= t)
         [] op \in {"trunc", "zext"} -> x % 2^d
         [] op = "sext" -> s % 2^d
RECURSIVE Run(_, _, _, _)
\* The value of the instruction i when a and b have the values x and y; w is the width for -1.
Run(i, w, x, y) ==
    CASE i = A -> x [] i = B -> y [] i = AllOnes -> 2^w - 1
      [] OTHER -> LET u == Run(i[5][1], i[3], x, y)
                      v == Run(i[5][Len(i[5])], i[3], x, y)
                  IN IF u = -1 \/ v = -1 THEN -1 ELSE LLVM(i[1], i[2], i[3], i[4], u, v)
-----------------------------------------------------------------------------
CONSTANT Ops    \* the axioms: <<tag, sub, curried argument, type of the operands>>

VARIABLE app    \* an axiom and its two operands

p == app[1]
a == app[2]
b == app[3]

Init == \E q \in Ops : app = <<q, 0, 0>>
Next == \E x, y \in 0 .. 2^Width(p[4]) - 1 : app' = <<p, x, y>>
Spec == Init /\ [][Next]_app

Wanted == Meaning(p[1], p[2], p[3], Width(p[4]), a, b)
Emitted == Run(emit_bb(p[1], p[2], p[3], p[4]), Width(p[4]), a, b)
\* The emitted instructions compute what the axiom means, wherever it means something.
MeansTheSame == Wanted # Poison => Emitted = Wanted
\* The same for additions and multiplications of Nats that fit a signed number of 64 bits.
SmallNats == (IF p[2] = "add" THEN a + b ELSE a * b) < 2^(Full - 1) /\ a < 2^(Full - 1) /\ b < 2^(Full - 1) => Emitted = Wanted

\* An index is the number getelementptr understands, which reads it as signed; one of 64 bits is so
\* only below the half.
IndexKept ==
    LET w == Width(p[4])
        g == gep_index(w)
    IN (w < Full \/ a < 2^(Full - 1)) => Sgn(Run(g[1], w, a, 0), g[2]) = a

\* What the predicates of LLVM say of equal, less, greater and unordered operands; a comparison of
\* math has these relations as the bits of its sub, and its predicate says the same. A minimum or
\* maximum has the letters IM of its sub: whether a NaN wins and which one it is; a conversion
\* whether it reads or makes a float, and the signs. The operand a serves as the sub.
Says == [oeq |-> {0}, olt |-> {1}, ole |-> {0, 1}, ogt |-> {2}, oge |-> {0, 2}, one |-> {1, 2}, ord |-> {0, 1, 2},
         uno |-> {3}, ueq |-> {0, 3}, ult |-> {1, 3}, ule |-> {0, 1, 3}, ugt |-> {2, 3}, uge |-> {0, 2, 3}, une |-> {1, 2, 3}]
Picks == [minnum |-> {}, maxnum |-> {0}, minimum |-> {1}, maximum |-> {0, 1}]
Converts == [fpext |-> <<"f", "f">>, fptrunc |-> <<"f", "f">>, sitofp |-> <<"s", "f">>, uitofp |-> <<"u", "f">>,
             fptosi |-> <<"f", "s">>, fptoui |-> <<"f", "u">>]
FloatTables ==
    /\ a \in 1..14 => Says[Fcmp[a]] = {r \in 0..3 : Has(a, r)}
    /\ a \in 0..3 => Picks[Extrema[a + 1]] = {r \in 0..1 : Has(a, r)}
    /\ Converts[Fconv("s2f", 8, 32)] = <<"s", "f">> /\ Converts[Fconv("u2f", 8, 32)] = <<"u", "f">>
    /\ Converts[Fconv("f2s", 32, 8)] = <<"f", "s">> /\ Converts[Fconv("f2u", 32, 8)] = <<"f", "u">>
    /\ Fconv("f2f", 16, 32) = "fpext" /\ Fconv("f2f", 64, 32) = "fptrunc"

\* The function of each sub of math.tri is the one that its normalizer folds with
\* (normalizers.cpp:41-52): <<arcus or area, function, hyperbolic>>; a is the sub.
Folds == (0 :> <<FALSE, "sin", FALSE>>) @@ (1 :> <<FALSE, "cos", FALSE>>) @@ (2 :> <<FALSE, "tan", FALSE>>)
      @@ (4 :> <<FALSE, "sin", TRUE>>) @@ (5 :> <<FALSE, "cos", TRUE>>) @@ (6 :> <<FALSE, "tan", TRUE>>)
      @@ (8 :> <<TRUE, "sin", FALSE>>) @@ (9 :> <<TRUE, "cos", FALSE>>) @@ (10 :> <<TRUE, "tan", FALSE>>)
      @@ (12 :> <<TRUE, "sin", TRUE>>) @@ (13 :> <<TRUE, "cos", TRUE>>) @@ (14 :> <<TRUE, "tan", TRUE>>)
TriFunctions == a \in DOMAIN Folds => Tri(a) = Folds[a]
=============================================================================
