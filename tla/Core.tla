-------------------------------- MODULE Core --------------------------------
(***************************************************************************)
(* The normalizers of the dialect core (dialects/core/normalizers.cpp).      *)
(* An application of one of its axioms is built from defs that are there;     *)
(* the normalizer answers with a literal, an operand, other applications     *)
(* (normalized in turn), or the application itself.  A type is the width of  *)
(* an Idx, 0 for Nat; the widest, Full, has the size 0 (.Idx 0 is I64).      *)
(* Widths below IntBits are promoted to int by C++.                          *)
(***************************************************************************)
EXTENDS Terms, Bitwise

CONSTANTS Full,      \* the bits of u64
          IntBits    \* the bits of an int

ASSUME CoreAssumption == Full \in Nat /\ IntBits \in 1 .. Full
-----------------------------------------------------------------------------
Width(t)   == IF t = 0 THEN Full ELSE t
Size(t)    == IF t = Full THEN 0 ELSE 2^t
U64(v)     == v % 2^Full
Signed(v, w) == IF w > 1 /\ v >= 2^(w - 1) THEN v - 2^w ELSE v
Arith(w)   == IF w < IntBits THEN IntBits ELSE w

lit_idx_mod(t, v) == Lit(t, IF Size(t) = 0 THEN U64(v) ELSE U64(v) % Size(t))
Ones(t)           == U64(Size(t) - 1)

make_truth_table(id) == [x \in 0..1 |-> [y \in 0..1 |-> Has(id, x + 2 * y)]]

is_commutative(tag, sub) ==
    \/ tag = "nop"
    \/ tag = "wrap" /\ sub \in {"add", "mul"}
    \/ tag = "ncmp" /\ sub \in {1, 6}
    \/ tag = "icmp" /\ sub \in {1, 30}
    \/ tag = "bit2" /\ make_truth_table(sub)[0][1] = make_truth_table(sub)[1][0]

is_associative(tag, sub) ==
    IF tag = "bit2" THEN sub \in {0, 6, 8, 9, 10, 12, 14, 15} ELSE is_commutative(tag, sub)

commute_any(g, tag, sub, a, b) == IF is_commutative(tag, sub) /\ ~is("lit", a) THEN <<b, a>> ELSE <<a, b>>
commute(g, tag, sub, a, b) ==
    IF is_commutative(tag, sub) /\ (is("lit", b) \/ (Gid(g, a) > Gid(g, b) /\ ~is("lit", a)))
    THEN <<b, a>> ELSE <<a, b>>
-----------------------------------------------------------------------------
(* fold: what C++ computes for two literals of width w; -1 is no result.        *)
Quot(s, t) == LET abs(z) == IF z < 0 THEN -z ELSE z
              IN IF (s < 0) = (t < 0) THEN abs(s) \div abs(t) ELSE -(abs(s) \div abs(t))

fold_shl(w, u, v, b, nsw, nuw) ==
    LET res == (u * 2^v) % 2^w IN
    IF b >= w \/ (nuw /\ res < u) \/ (nsw /\ Has(u, w - 1) # Has(res, w - 1)) THEN -1 ELSE res

fold_wrap(sub, w, u, v, b, nsw, nuw) ==
    CASE sub = "add" -> LET res == (u + v) % 2^Arith(w) IN IF nuw /\ res < u THEN -1 ELSE res
      [] sub = "sub" -> (u - v) % 2^Arith(w)
      [] sub = "mul" -> (u * v) % 2^w
      [] sub = "shl" -> fold_shl(w, u, v, b, nsw, nuw)

fold_shr(sub, w, u, v, b) ==
    IF b >= w THEN -1 ELSE IF sub = "a" THEN (Signed(u, w) \div 2^v) % 2^Arith(w) ELSE u \div 2^v

fold_div(sub, w, u, v, b) ==
    LET s == Signed(u, w)
        t == Signed(v, w)
    IN CASE b = 0        -> -1
         [] sub = "sdiv" -> Quot(s, t) % 2^Arith(w)
         [] sub = "udiv" -> u \div v
         [] sub = "srem" -> (s - t * Quot(s, t)) % 2^Arith(w)
         [] sub = "urem" -> u % v

(* The least number divided by -1: undefined from an int on, and the compiler stops.  *)
Traps(sub, a, b) ==
    /\ sub \in {"sdiv", "srem"} /\ is("lit", a) /\ is("lit", b) /\ Width(a.t) >= IntBits
    /\ a.v = 2^(Width(a.t) - 1) /\ b.v = 2^Width(a.t) - 1

fold_icmp(id, w, u, v) ==
    LET pm == ~Has(u, w - 1) /\ Has(v, w - 1)
        mp == Has(u, w - 1) /\ ~Has(v, w - 1)
    IN Bit(\/ Has(id, 4) /\ pm
           \/ Has(id, 3) /\ mp
           \/ Has(id, 2) /\ u > v /\ ~mp
           \/ Has(id, 1) /\ u < v /\ ~pm
           \/ Has(id, 0) /\ u = v)

Folded(tag, sub, m, w, a, b) ==
    LET u == a % 2^w
        v == b % 2^w
    IN CASE tag = "wrap" -> fold_wrap(sub, w, u, v, b, m % 2 = 1, m \div 2 = 1)
         [] tag = "shr"  -> fold_shr(sub, w, u, v, b)
         [] tag = "div"  -> fold_div(sub, w, u, v, b)
         [] tag = "icmp" -> fold_icmp(sub, w, u, v)

fold(tag, sub, m, t, a, b) ==
         When(is("bot", a) \/ is("bot", b), Bot(t))
      ?? When(is("lit", a) /\ is("lit", b),
              LET res == Folded(tag, sub, m, Width(a.t), a.v, b.v)
              IN IF res = -1 THEN Bot(t) ELSE Lit(t, res))
-----------------------------------------------------------------------------
(* App(g, tag, sub, m, a, b) is core::op: the application, normalized.         *)
RECURSIVE App(_, _, _, _, _, _)

Codomain(tag, m, a) == IF tag \in {"icmp", "ncmp"} THEN 1 ELSE IF tag \in {"conv", "bitcast"} THEN m ELSE a.t
raw_app_same(tag, sub, m, args) == Def(<<tag, sub>>, args[1].t, 0, m, args)
raw_app(tag, sub, m, args) == Def(<<tag, sub>>, Codomain(tag, m, args[1]), 0, m, args)

op_negate_one(g, a) == App(g, "bit2", 6, 0, Lit(a.t, 1), a)
op_negate(g, a) == App(g, "bit2", 6, 0, Lit(a.t, Ones(a.t)), a)

reassociate(g, tag, sub, a, b) ==
    LET op(x, y) == App(g, tag, sub, 0, x, y)
        same(x)  == x.k = <<tag, sub>>
        lx       == same(a) /\ is("lit", a.args[1])
        lz       == same(b) /\ is("lit", b.args[1])
    IN When(is_associative(tag, sub),
            When(is("lit", a) /\ lz, op(op(a, b.args[1]), b.args[2]))
         ?? When(lx /\ lz, op(op(a.args[1], b.args[1]), op(a.args[2], b.args[2])))
         ?? When(lz, op(b.args[1], op(a, b.args[2])))
         ?? When(lx, op(a.args[1], op(a.args[2], b))))
normalize_nop(g, sub, a, b) ==
    LET ab == commute(g, "nop", sub, a, b) IN
       When(is("lit", ab[1]) /\ is("lit", ab[2]), Lit(0, U64(IF sub = "add" THEN a.v + b.v ELSE a.v * b.v)))
    ?? raw_app("nop", sub, 0, <<a, b>>)

normalize_ncmp(g, sub, a, b) ==
       When(sub = 7, Lit(1, 1))
    ?? When(sub = 0, Lit(1, 0))
    ?? When(is("lit", a) /\ is("lit", b),
            Lit(0, Bit((Has(sub, 2) /\ a.v > b.v) \/ (Has(sub, 1) /\ a.v < b.v) \/ (Has(sub, 0) /\ a.v = b.v))))
    ?? raw_app("ncmp", sub, 0, <<a, b>>)

normalize_icmp(g, sub, x, y) ==
    LET a == commute(g, "icmp", sub, x, y)[1]
        b == commute(g, "icmp", sub, x, y)[2]
    IN fold("icmp", sub, 0, 1, x, y)
    ?? When(sub = 0, Lit(1, 0))
    ?? When(sub = 31, Lit(1, 1))
    ?? When(a = b /\ sub = 1, Lit(1, 1))
    ?? When(a = b /\ sub = 30, Lit(1, 0))
    ?? raw_app("icmp", sub, 0, <<a, b>>)

normalize_bit1(g, sub, a) ==
       When(sub = "f", Lit(a.t, 0))
    ?? When(sub = "t", Lit(a.t, Ones(a.t)))
    ?? When(sub = "id", a)
    ?? When(is("lit", a), lit_idx_mod(a.t, 2^Full - 1 - a.v))
    ?? raw_app("bit1", sub, 0, <<a>>)

merge_cmps(g, tab, a, b) ==
    When(is("icmp", a) /\ is("icmp", b) /\ a.args = b.args,
         LET res[i \in 0..5] == IF i = 5 THEN 0
                                ELSE Bit(tab[Bit(Has(a.k[2], i))][Bit(Has(b.k[2], i))]) * 2^i + res[i + 1]
         IN App(g, "icmp", res[0], 0, a.args[1], a.args[2]))
BitFold(sub, t, a, b) ==
    LET not(v) == 2^Full - 1 - v IN
    CASE sub = 8  -> Lit(t, a & b)
      [] sub = 14 -> Lit(t, a | b)
      [] sub = 6  -> Lit(t, a ^^ b)
      [] sub = 7  -> lit_idx_mod(t, not(a & b))
      [] sub = 1  -> lit_idx_mod(t, not(a | b))
      [] sub = 9  -> lit_idx_mod(t, not(a ^^ b))
      [] sub = 11 -> lit_idx_mod(t, not(a) | b)
      [] sub = 4  -> Lit(t, a & not(b))

unary(g, sub, x, y, a) ==
       When(~x /\ ~y, Lit(a.t, 0))
    ?? When(x /\ y, Lit(a.t, Ones(a.t)))
    ?? When(~x /\ y, a)
    ?? When(x /\ ~y /\ sub # 6, op_negate(g, a))

Unaries(g, sub, tab, a, b) ==
       When(is_commutative("bit2", sub) /\ a = b, unary(g, sub, tab[0][0], tab[1][1], a))
    ?? When(is_lit(a, 0), unary(g, sub, tab[0][0], tab[0][1], b))
    ?? When(is("lit", a) /\ a.v # 0 /\ a.v = Ones(a.t), unary(g, sub, tab[1][0], tab[1][1], b))
    ?? When(is_lit(b, 0), unary(g, sub, tab[0][0], tab[1][0], a))
    ?? When(is("lit", b) /\ b.v # 0 /\ b.v = Ones(b.t), unary(g, sub, tab[0][1], tab[1][1], a))

normalize_bit2(g, sub, x, y) ==
    LET a   == commute(g, "bit2", sub, x, y)[1]
        b   == commute(g, "bit2", sub, x, y)[2]
        tab == make_truth_table(sub)
    IN merge_cmps(g, tab, a, b)
    ?? When(sub = 0, Lit(a.t, 0))
    ?? When(sub = 15, Lit(a.t, Ones(a.t)))
    ?? When(sub = 12, a)
    ?? When(sub = 10, b)
    ?? When(sub = 3, op_negate(g, a))
    ?? When(sub = 5, op_negate(g, b))
    ?? When(sub = 13, App(g, "bit2", 11, 0, b, a))
    ?? When(sub = 2, App(g, "bit2", 4, 0, b, a))
    ?? When(is("lit", a) /\ is("lit", b), BitFold(sub, a.t, a.v, b.v))
    ?? Unaries(g, sub, tab, a, b)
    ?? reassociate(g, "bit2", sub, a, b)
    ?? raw_app("bit2", sub, 0, <<a, b>>)

normalize_shr(g, sub, a, b) ==
       fold("shr", sub, 0, a.t, a, b)
    ?? When(is_lit(a, 0), a)
    ?? When(is_lit(b, 0), a)
    ?? raw_app("shr", sub, 0, <<a, b>>)

minus_lit(g, m, a, b) == App(g, "wrap", "add", m, a, lit_idx_mod(a.t, 2^Full - 1 - b.v + 1))
shl_too_far(a, b) == b.v > Size(a.t)

normalize_wrap(g, sub, m, x, y) ==
    LET a == commute(g, "wrap", sub, x, y)[1]
        b == commute(g, "wrap", sub, x, y)[2]
    IN fold("wrap", sub, m, a.t, x, y)
    ?? When(is_lit(a, 0) /\ sub = "add", b)
    ?? When(is_lit(a, 0) /\ sub \in {"mul", "shl"}, a)
    ?? When(is_lit(a, 1) /\ sub = "mul", b)
    ?? When(is_lit(b, 0) /\ sub \in {"sub", "shl"}, a)
    ?? When(is("lit", b) /\ sub = "sub", minus_lit(g, m, a, b))
    ?? When(is("lit", b) /\ sub = "shl" /\ shl_too_far(a, b), Bot(a.t))
    ?? When(a = b /\ sub = "add", App(g, "wrap", "mul", m, Lit(a.t, 2), a))
    ?? When(a = b /\ sub = "sub", Lit(a.t, 0))
    ?? reassociate(g, "wrap", sub, a, b)
    ?? raw_app("wrap", sub, m, <<a, b>>)

normalize_div(g, sub, a, b) ==
       fold("div", sub, 0, a.t, a, b)
    ?? When(is_lit(a, 0), a)
    ?? When(is_lit(b, 0), Bot(a.t))
    ?? When(is_lit(b, 1) /\ sub \in {"sdiv", "udiv"}, a)
    ?? When(is_lit(b, 1), Lit(a.t, 0))
    ?? When(a = b, Lit(a.t, IF sub \in {"sdiv", "udiv"} THEN 1 ELSE 0))
    ?? raw_app("div", sub, 0, <<a, b>>)

ConvLit(sub, s, d, v) ==
       When(sub = "u2u", Lit(d, IF Size(d) = 0 THEN v ELSE v % Size(d)))
    ?? When(s < d, Lit(d, U64(Signed(v, s))))

normalize_conv(g, sub, d, x) ==
       When(x.t = d, x)
    ?? When(is("bot", x), Bot(d))
    ?? When(sub = "s2s" /\ Size(d) < Size(x.t), App(g, "conv", "u2u", d, x, x))
    ?? When(is("lit", x), ConvLit(sub, x.t, d, x.v))
    ?? raw_app("conv", sub, d, <<x>>)

normalize_bitcast(g, d, x) ==
       When(is("bot", x), Bot(d))
    ?? When(x.t = d, x)
    ?? When(is("bitcast", x), IF x.args[1].t = d THEN x.args[1] ELSE App(g, "bitcast", "", d, x.args[1], x.args[1]))
    ?? When(is("lit", x), Lit(d, x.v))
    ?? raw_app("bitcast", "", d, <<x>>)

App(g, tag, sub, m, a, b) ==
    CASE tag = "nop"     -> normalize_nop(g, sub, a, b)
      [] tag = "ncmp"    -> normalize_ncmp(g, sub, a, b)
      [] tag = "icmp"    -> normalize_icmp(g, sub, a, b)
      [] tag = "bit1"    -> normalize_bit1(g, sub, a)
      [] tag = "bit2"    -> normalize_bit2(g, sub, a, b)
      [] tag = "shr"     -> normalize_shr(g, sub, a, b)
      [] tag = "wrap"    -> normalize_wrap(g, sub, m, a, b)
      [] tag = "div"     -> normalize_div(g, sub, a, b)
      [] tag = "conv"    -> normalize_conv(g, sub, m, a)
      [] tag = "bitcast" -> normalize_bitcast(g, m, a)
-----------------------------------------------------------------------------
(* What an application means, told by the tables and the words of core.thorin    *)
(* and by the LLVM instructions it is emitted as; Poison is any value.           *)
Poison == -1
Sgn(v, w)    == IF v >= 2^(w - 1) THEN v - 2^w ELSE v
InSgn(z, w)  == z \in -(2^(w - 1)) .. 2^(w - 1) - 1
Abs(z)       == IF z < 0 THEN -z ELSE z
TruncDiv(s, t) == IF (s < 0) = (t < 0) THEN Abs(s) \div Abs(t) ELSE -(Abs(s) \div Abs(t))

(* An exact result z of unsigned, y of signed operands, under the mode m.         *)
Wrapped(w, m, z, y) ==
    IF (m \div 2 = 1 /\ z \notin 0 .. 2^w - 1) \/ (m % 2 = 1 /\ ~InSgn(y, w)) THEN Poison ELSE z % 2^w

Bitwise2(id, w, u, v) ==
    LET bits[i \in 0..w] == IF i = w THEN 0
                            ELSE Bit(Has(id, 2 * Bit(Has(u, i)) + Bit(Has(v, i)))) * 2^i + bits[i + 1]
    IN bits[0]

(* The relation of u to v: the bit of its letter in XYGLE.                       *)
Relation5(w, u, v) ==
    CASE u = v                                -> 0
      [] Sgn(u, w) >= 0 /\ Sgn(v, w) < 0        -> 4
      [] Sgn(u, w) < 0 /\ Sgn(v, w) >= 0        -> 3
      [] (Sgn(u, w) < 0) = (Sgn(v, w) < 0)      -> IF u > v THEN 2 ELSE 1

Meaning(tag, sub, m, w, u, v) ==
    LET s == Sgn(u, w)
        t == Sgn(v, w)
    IN CASE tag = "nop"  -> (IF sub = "add" THEN u + v ELSE u * v) % 2^Full
         [] tag = "ncmp" -> Bit(Has(sub, IF u = v THEN 0 ELSE IF u < v THEN 1 ELSE 2))
         [] tag = "icmp" -> Bit(Has(sub, Relation5(w, u, v)))
         [] tag = "bit1" -> (CASE sub = "f" -> 0 [] sub = "t" -> 2^w - 1 [] sub = "id" -> u [] sub = "neg" -> 2^w - 1 - u)
         [] tag = "bit2" -> Bitwise2(sub, w, u, v)
         [] tag = "shr"  -> IF v >= w THEN Poison ELSE (IF sub = "l" THEN u ELSE s) \div 2^v % 2^w
         [] tag = "wrap" -> (CASE sub = "add" -> Wrapped(w, m, u + v, s + t)
                               [] sub = "sub" -> Wrapped(w, m, u - v, s - t)
                               [] sub = "mul" -> Wrapped(w, m, u * v, s * t)
                               [] sub = "shl" -> IF v >= w THEN Poison ELSE Wrapped(w, m, u * 2^v, s * 2^v))
         [] tag = "div"  -> (CASE v = 0        -> Poison
                               [] sub = "udiv" -> u \div v
                               [] sub = "urem" -> u % v
                               [] ~InSgn(TruncDiv(s, t), w) -> Poison
                               [] sub = "sdiv" -> TruncDiv(s, t) % 2^w
                               [] sub = "srem" -> (s - t * TruncDiv(s, t)) % 2^w)
         [] tag = "conv" -> (IF sub = "s2s" THEN s ELSE u) % 2^Width(m)
         [] tag = "bitcast" -> u
=============================================================================
