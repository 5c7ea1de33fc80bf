-------------------------------- MODULE Math --------------------------------
(***************************************************************************)
(* The normalizers of the dialect math (dialects/math/normalizers.cpp).      *)
(* Floats are integers up to Big with two zeros, two infinities and NaN;      *)
(* results are rounded towards zero and overflow.  The mode in front of the   *)
(* operands is the number of thorin::math::Mode.                              *)
(***************************************************************************)
EXTENDS Terms

CONSTANTS Big,      \* the greatest finite float, at most 99
          Floats,   \* the values of the variables
          Setups    \* a function from names to [leaves, apps, max], as in MCNormalize

VARIABLES setup,    \* the name of the setup
          defs      \* the defs, oldest first: an index is a gid

vars == <<setup, defs>>

NaN  == 1000
Inf  == 500
MInf == -500
NZ   == 999     \* minus zero

(* The bits of a mode (math.h).                                                  *)
Nnan(m)    == Has(m, 0)
Ninf(m)    == Has(m, 1)
Nsz(m)     == Has(m, 2)
Reassoc(m) == Has(m, 6)
Fast       == 2^7 - 1

IsZero(x)  == x \in {0, NZ}
IsInf(x)   == x \in {Inf, MInf}
Val(x)     == IF x = NZ THEN 0 ELSE x
Minus(x)   == x = NZ \/ x < 0
Zero(neg)  == IF neg THEN NZ ELSE 0
Signed(neg, x) == IF neg THEN -x ELSE x
Abs(x)     == IF x < 0 THEN -x ELSE x
Round(z, big) == IF z > big THEN Inf ELSE IF z < -big THEN MInf ELSE z

(* IEEE-754 arithmetic of finite floats up to big, of zeros, infinities and NaN.   *)
Fadd(x, y, big) ==
    CASE NaN \in {x, y} \/ {x, y} = {Inf, MInf} -> NaN
      [] IsInf(x)             -> x
      [] IsInf(y)             -> y
      [] x = NZ /\ y = NZ     -> NZ
      [] OTHER                -> Round(Val(x) + Val(y), big)
Fneg(x) == IF x = NaN THEN NaN ELSE IF IsZero(x) THEN Zero(x = 0) ELSE -x
Fmul(x, y, big) ==
    LET neg == Minus(x) # Minus(y) IN
    CASE NaN \in {x, y} \/ (IsInf(x) /\ IsZero(y)) \/ (IsZero(x) /\ IsInf(y)) -> NaN
      [] IsInf(x) \/ IsInf(y)   -> Signed(neg, Inf)
      [] IsZero(x) \/ IsZero(y) -> Zero(neg)
      [] OTHER                  -> Round(x * y, big)
Fdiv(x, y) ==
    LET neg == Minus(x) # Minus(y)
        q   == Abs(x) \div Abs(y)
    IN CASE NaN \in {x, y} \/ (IsInf(x) /\ IsInf(y)) \/ (IsZero(x) /\ IsZero(y)) -> NaN
         [] IsInf(x) \/ IsZero(y) -> Signed(neg, Inf)
         [] IsZero(x) \/ IsInf(y) -> Zero(neg)
         [] OTHER                 -> IF q = 0 THEN Zero(neg) ELSE Signed(neg, q)
Frem(x, y) ==
    CASE NaN \in {x, y} \/ IsInf(x) \/ IsZero(y) -> NaN
      [] IsInf(y) \/ IsZero(x) -> x
      [] OTHER -> LET r == Abs(x) % Abs(y) IN IF r = 0 THEN Zero(Minus(x)) ELSE Signed(Minus(x), r)
arith(sub, x, y, big) ==
    CASE sub = "add" -> Fadd(x, y, big)
      [] sub = "sub" -> Fadd(x, Fneg(y), big)
      [] sub = "mul" -> Fmul(x, y, big)
      [] sub = "div" -> Fdiv(x, y)
      [] sub = "rem" -> Frem(x, y)

LeastNum(x, y) == IF x = NaN THEN y ELSE IF y = NaN THEN x ELSE IF Val(y) < Val(x) THEN y ELSE x
MostNum(x, y)  == IF x = NaN THEN y ELSE IF y = NaN THEN x ELSE IF Val(x) < Val(y) THEN y ELSE x

IsMin(sub) == sub \in {"fmin", "ieee754min"}
fold_extrema(sub, x, y) ==
    CASE IsZero(x) /\ IsZero(y) -> IF IsMin(sub) THEN x ELSE y      \* == does not tell the zeros apart
      [] ~(IsZero(x) /\ IsZero(y)) /\ sub \in {"ieee754min", "ieee754max"} /\ x = NaN -> x
      [] ~(IsZero(x) /\ IsZero(y)) /\ sub \in {"ieee754min", "ieee754max"} /\ x # NaN /\ y = NaN -> y
      [] OTHER -> IF IsMin(sub) THEN LeastNum(x, y) ELSE MostNum(x, y)

fold_cmp(id, x, y) ==
    LET un == NaN \in {x, y} IN
    Bit(\/ Has(id, 3) /\ un
        \/ Has(id, 2) /\ ~un /\ Val(x) > Val(y)
        \/ Has(id, 1) /\ ~un /\ Val(x) < Val(y)
        \/ Has(id, 0) /\ ~un /\ Val(x) = Val(y))

(* pow of the two bit patterns, taken for integers: 0 for +0, huge otherwise.       *)
fold_pow(x, y) == IF y = 0 THEN 1 ELSE IF x = 0 THEN 0 ELSE Inf

Root(x) == IF x = NaN \/ x < 0 THEN NaN ELSE IF IsZero(x) \/ x = Inf THEN x ELSE CHOOSE r \in 0..x : r * r <= x /\ (r + 1) * (r + 1) > x

Folded(tag, sub, x, y) ==
    CASE tag = "arith"   -> arith(sub, x, y, Big)
      [] tag = "extrema" -> fold_extrema(sub, x, y)
      [] tag = "cmp"     -> fold_cmp(sub, x, y)
      [] tag = "pow"     -> fold_pow(x, y)
      [] tag = "rt"      -> Root(x)

fold(tag, sub, t, a, b) ==
       When(is("bot", a) \/ is("bot", b), Bot(t))
    ?? When(is("lit", a) /\ is("lit", b), Lit(t, Folded(tag, sub, a.v, b.v)))
-----------------------------------------------------------------------------
is_commutative(tag, sub) == tag = "extrema" \/ (tag = "arith" /\ sub \in {"add", "mul"}) \/ (tag = "cmp" /\ sub \in {1, 6})
commute_any(g, tag, sub, a, b) == IF is_commutative(tag, sub) /\ ~is("lit", a) THEN <<b, a>> ELSE <<a, b>>
commute(g, tag, sub, a, b) ==
    IF is_commutative(tag, sub) /\ (is("lit", b) \/ (Gid(g, a) > Gid(g, b) /\ ~is("lit", a)))
    THEN <<b, a>> ELSE <<a, b>>

RECURSIVE App(_, _, _, _, _, _)
Type(tag, a) == IF tag = "cmp" THEN 1 ELSE a.t
raw_app_same(tag, sub, m, args) == Def(<<tag, sub>>, args[1].t, 0, m, args)
raw_app(tag, sub, m, args) == Def(<<tag, sub>>, Type(tag, args[1]), 0, m, args)

(* The mode of what is built anew: what all of the applications allow.             *)
Both(ms, m) ==
    LET bits[i \in 0..7] == IF i = 7 THEN 0 ELSE Bit(\A n \in ms \cup {m} : Has(n, i)) * 2^i + bits[i + 1] IN bits[0]

reassociate(g, tag, sub, m, a, b) ==
    LET same(x)  == x.k = <<tag, sub>>
        lx       == same(a) /\ is("lit", a.args[1])
        lz       == same(b) /\ is("lit", b.args[1])
        mode     == Both((IF lx THEN {a.m} ELSE {}) \cup (IF lz THEN {b.m} ELSE {}), m)
        op(x, y) == App(g, tag, sub, mode, x, y)
    IN When(is_commutative(tag, sub) /\ Reassoc(mode),
            When(is("lit", a) /\ lz, op(op(a, b.args[1]), b.args[2]))
         ?? When(lx /\ lz, op(op(a.args[1], b.args[1]), op(a.args[2], b.args[2])))
         ?? When(lz, op(b.args[1], op(a, b.args[2])))
         ?? When(lx, op(a.args[1], op(a.args[2], b))))

FastRules(g, sub, m, a, b) ==
       When(is_lit(a, 0) /\ sub = "add", b)
    ?? When(is_lit(a, 0) /\ sub \in {"mul", "div", "rem"}, a)
    ?? When(is_lit(a, 1) /\ sub = "mul", b)
    ?? When(is_lit(b, 0) /\ sub = "sub", a)
    ?? When(a = b /\ sub = "add", App(g, "arith", "mul", m, Lit(a.t, 2), a))
    ?? When(a = b /\ sub = "sub", Lit(a.t, 0))
    ?? When(a = b /\ sub = "div", Lit(a.t, 1))

normalize_arith(g, sub, m, x, y) ==
    LET a == commute(g, "arith", sub, x, y)[1]
        b == commute(g, "arith", sub, x, y)[2]
    IN fold("arith", sub, a.t, x, y)
    ?? When(m = Fast, FastRules(g, sub, m, a, b))
    ?? reassociate(g, "arith", sub, m, a, b)
    ?? raw_app("arith", sub, m, <<a, b>>)

ToNum(sub) == IF sub = "ieee754min" THEN "fmin" ELSE "fmax"
normalize_extrema(g, sub, m, x, y) ==
    LET a == commute(g, "extrema", sub, x, y)[1]
        b == commute(g, "extrema", sub, x, y)[2]
    IN fold("extrema", sub, a.t, x, y)
    ?? When((Nnan(m) \/ Nsz(m)) /\ sub \in {"ieee754min", "ieee754max"}, App(g, "extrema", ToNum(sub), m, a, b))
    ?? raw_app("extrema", sub, m, <<x, y>>)

normalize_pow(g, m, a, b)      == fold("pow", "", a.t, a, b) ?? raw_app("pow", "", m, <<a, b>>)
normalize_unary(tag, sub, m, a) == fold(tag, sub, a.t, a, a) ?? raw_app(tag, sub, m, <<a>>)

normalize_cmp(g, sub, m, x, y) ==
    LET ab == commute(g, "cmp", sub, x, y) IN
       fold("cmp", sub, 1, x, y)
    ?? When(sub = 0, Lit(1, 0))
    ?? When(sub = 15, Lit(1, 1))
    ?? raw_app("cmp", sub, m, ab)

(* core::normalize_bit2 merges two comparisons of the same operands.               *)
Table(sub, p, q) == Has(sub, IF p # q THEN 2 ELSE IF p THEN 3 ELSE 0)   \* for a symmetric table
merge_cmps(g, sub, a, b) ==
    LET res[i \in 0..4] == IF i = 4 THEN 0 ELSE Bit(Table(sub, Has(a.k[2], i), Has(b.k[2], i))) * 2^i + res[i + 1]
    IN When(is("cmp", a) /\ is("cmp", b) /\ a.args = b.args, App(g, "cmp", res[0], a.m, a.args[1], a.args[2]))

App(g, tag, sub, m, a, b) ==
    CASE tag = "arith"   -> normalize_arith(g, sub, m, a, b)
      [] tag = "extrema" -> normalize_extrema(g, sub, m, a, b)
      [] tag = "pow"     -> normalize_pow(g, m, a, b)
      [] tag = "rt"      -> normalize_unary(tag, sub, m, a)
      [] tag = "cmp"     -> normalize_cmp(g, sub, m, a, b)
      [] tag = "bit2"    -> merge_cmps(g, sub, a, b) ?? raw_app("bit2", sub, m, <<a, b>>)
-----------------------------------------------------------------------------
(* What the applications mean, by the words of math.thorin and of the enum Mode.   *)
(* A result may be anything where a mode has been told that it does not occur.     *)
Poison == 2000

Least(x, y)  == IF x = NZ \/ y = NZ THEN (IF Val(x) < 0 THEN x ELSE IF Val(y) < 0 THEN y ELSE NZ) ELSE LeastNum(x, y)
Most(x, y)   == IF IsZero(x) /\ IsZero(y) THEN Zero(x = NZ /\ y = NZ) ELSE MostNum(x, y)
Extreme(sub, x, y) ==
    CASE NaN \in {x, y} /\ sub \in {"ieee754min", "ieee754max"} -> NaN
      [] NaN \in {x, y} /\ sub \in {"fmin", "fmax"}             -> IF x = NaN THEN y ELSE x
      [] NaN \notin {x, y} -> IF IsMin(sub) THEN Least(x, y) ELSE Most(x, y)

Power(x, y) == IF y = 0 THEN 1 ELSE IF y > 0 /\ y <= Big /\ x \in 0..Big THEN Round(x^y, Big) ELSE Poison

(* The value of an application; big is Big, or has no limit where the mode allows  *)
(* reassociation, which may avoid an overflow.                                   *)
Value(tag, sub, u, v, big) ==
    CASE tag = "arith"   -> arith(sub, u, v, big)
      [] tag = "extrema" -> Extreme(sub, u, v)
      [] tag = "pow"     -> Power(u, v)
      [] tag = "rt"      -> Root(u)
      [] tag = "cmp"     -> Bit(Has(sub, IF NaN \in {u, v} THEN 3 ELSE IF Val(u) > Val(v) THEN 2 ELSE IF Val(u) < Val(v) THEN 1 ELSE 0))
      [] tag = "bit2"    -> Bit(Table(sub, u = 1, v = 1))

Meaning(tag, sub, m, u, v, big) ==
    LET r == Value(tag, sub, u, v, big) IN
    IF (Nnan(m) /\ NaN \in {u, v, r}) \/ (Ninf(m) /\ {u, v, r} \cap {Inf, MInf} # {}) THEN Poison ELSE r

RECURSIVE Eval(_, _, _)
Eval(x, env, big) ==
    IF is("lit", x) THEN x.v ELSE IF is("bot", x) THEN Poison ELSE IF is("var", x) THEN env[x.v] ELSE
    LET u == Eval(x.args[1], env, big)
        v == Eval(x.args[Len(x.args)], env, big)
    IN IF Poison \in {u, v} THEN Poison ELSE Meaning(x.k[1], x.k[2], x.m, u, v, big)

(* Equal, but for the sign of a zero where it does not matter.                     *)
Same(tag, sub, m, x, y) == x = y \/ ((Nsz(m) \/ (tag = "extrema" /\ sub \in {"fmin", "fmax"})) /\ IsZero(x) /\ IsZero(y))
-----------------------------------------------------------------------------
Leaves  == Setups[setup].leaves
Apps    == Setups[setup].apps
MaxDefs == Setups[setup].max

Init == setup \in DOMAIN Setups /\ defs = Leaves

Operands(t) == {i \in DOMAIN defs : defs[i].t = t}
Apply(p, i, j) ==
    LET r == App(defs, p[1], p[2], p[3], defs[i], defs[j]) IN
    /\ Len(defs) < MaxDefs
    /\ \A k \in DOMAIN defs : defs[k] # r
    /\ defs' = Append(defs, r)
    /\ UNCHANGED setup
Next == \E p \in Apps : \E i, j \in Operands(p[4]) : Apply(p, i, j)
Spec == Init /\ [][Next]_vars
-----------------------------------------------------------------------------
Fresh(P(_, _, _)) ==
    \A p \in Apps : \A i, j \in Operands(p[4]) :
        Len(defs) = Len(Leaves) \/ Len(defs) \in {i, j} => P(p, defs[i], defs[j])

(* math.thorin: an application has the codomain of its axiom as its type.           *)
TypeOK == \A i \in DOMAIN defs : defs[i].args # <<>> => defs[i].t = IF is("cmp", defs[i]) \/ is("bit2", defs[i]) THEN 1 ELSE 16

(* math.h:11: what a normalizer answers means what the application means, up to the *)
(* freedoms of its mode.                                                         *)
KeepsMeaning ==
    Fresh(LAMBDA p, a, b :
        LET r   == App(defs, p[1], p[2], p[3], a, b)
            big == IF Reassoc(p[3]) THEN 99 ELSE Big
        IN \A env \in [{Leaves[k].v : k \in {n \in DOMAIN Leaves : is("var", Leaves[n])}} -> Floats] :
               LET u == Eval(a, env, big)
                   v == Eval(b, env, big)
                   z == IF Poison \in {u, v} THEN Poison ELSE Meaning(p[1], p[2], p[3], u, v, big)
               IN z = Poison \/ Same(p[1], p[2], p[3], Eval(r, env, big), z))

(* A result is in normal form: rewriting builds it again from its own operands.    *)
Stable ==
    Fresh(LAMBDA p, a, b :
        LET r == App(defs, p[1], p[2], p[3], a, b) IN
        Len(r.args) > 0 => App(defs, r.k[1], r.k[2], r.m, r.args[1], r.args[Len(r.args)]) = r)
=============================================================================
