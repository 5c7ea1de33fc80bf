------------------------------ MODULE CoreTrait ------------------------------
(***************************************************************************)
(* The size and the alignment of a type, in bytes, as %core.trait computes    *)
(* them (normalizers.cpp), and the Sigma a Join is converted to (core.cpp).   *)
(* Types grow: what there is becomes the element of an array, a field of a    *)
(* sigma or a case of a join.  Unknown is a trait that is not folded.         *)
(***************************************************************************)
EXTENDS Integers, Sequences, SequencesExt

CONSTANTS Widths,    \* the widths of Idx and of floats
          Shapes,    \* the lengths of arrays; -1 is one that is not known
          MaxDepth   \* bound: types within types

VARIABLES ty,        \* the type
          depth

vars == <<ty, depth>>

Unknown == -1
Type(k, n, ops) == [k |-> k, n |-> n, ops |-> ops]
Scalars == {Type("ptr", 0, <<>>), Type("pi", 0, <<>>), Type("var", 0, <<>>)} \cup {Type("idx", w, <<>>) : w \in Widths}
             \cup {Type("f", w, <<>>) : w \in Widths \cap {16, 32, 64}}

MaxOf(a, b) == IF a > b THEN a ELSE b
bit_ceil(w) == CHOOSE c \in {2^i : i \in 0..7} : c >= w /\ (c \div 2 < w \/ c = 1)

pad(offset, align) == IF offset % align # 0 THEN offset + (align - (offset % align)) ELSE offset

(* One field more: the offset behind it and the alignment so far.                 *)
Field(acc, t, a, s) ==
    [align |-> MaxOf(acc.align, a), offset |-> pad(acc.offset, a) + s, at |-> Append(acc.at, pad(acc.offset, a))]

RECURSIVE Trait(_, _)
Align(t)  == Trait("align", t)
SizeOf(t) == Trait("size", t)

Known(ops)  == \A i \in DOMAIN ops : Align(ops[i]) # Unknown /\ SizeOf(ops[i]) # Unknown
Fields(ops) == FoldLeft(LAMBDA acc, t : Field(acc, t, Align(t), SizeOf(t)), [align |-> 1, offset |-> 0, at |-> <<>>], ops)

Sigma(id, ops) ==
    LET f == Fields(ops) IN
    IF id = "align" THEN f.align ELSE MaxOf(1, pad(f.offset, f.align))

(* .Idx n for the number of the case; its width is the least w with 2^w >= n.      *)
Tag(ops) == Type("idx", CHOOSE w \in 0..8 : 2^w >= Len(ops) /\ \A u \in 0 .. w - 1 : 2^u < Len(ops), <<>>)

Greatest(f(_), ops) == FoldLeft(LAMBDA m, t : MaxOf(m, f(t)), 0, ops)
convert(ops) ==
    LET align == Greatest(Align, ops)
        size  == Greatest(SizeOf, ops)
    IN Type("sigma", 0, <<Tag(ops), Type("arr", size \div align, <<Type("idx", align * 8, <<>>)>>)>>)

Trait(id, t) ==
    CASE t.k \in {"ptr", "pi"} -> 8
      [] t.k = "idx"   -> MaxOf(1, bit_ceil(t.n) \div 8)
      [] t.k = "f"     -> t.n \div 8
      [] t.k = "sigma" -> IF Known(t.ops) THEN Sigma(id, t.ops) ELSE Unknown
      [] t.k = "arr"   -> (IF id = "align" THEN Align(t.ops[1])
                           ELSE IF SizeOf(t.ops[1]) # Unknown /\ t.n # Unknown THEN t.n * SizeOf(t.ops[1]) ELSE Unknown)
      [] t.k = "join"  -> IF Known(t.ops) THEN Trait(id, convert(t.ops)) ELSE Unknown
      [] t.k = "var"   -> Unknown
-----------------------------------------------------------------------------
Init == ty \in Scalars /\ depth = 0

Grow(t) == ty' = t /\ depth < MaxDepth /\ depth' = depth + 1
Next == \/ \E n \in Shapes : Grow(Type("arr", n, <<ty>>))
        \/ \E s \in Scalars : Grow(Type("sigma", 0, <<s, ty>>)) \/ Grow(Type("sigma", 0, <<ty, s>>))
        \/ \E s \in Scalars : ty.k # "join" /\ s # ty /\ Grow(Type("join", 0, <<s, ty>>))
Spec == Init /\ [][Next]_vars
-----------------------------------------------------------------------------
(* normalizers.cpp:598: every field lies at a multiple of its alignment, behind the *)
(* field before it, and within the sigma; so does it in the next of an array.       *)
FieldsFit ==
    ty.k = "sigma" /\ Known(ty.ops) =>
        LET at == Fields(ty.ops).at IN
        /\ SizeOf(ty) % Align(ty) = 0
        /\ \A i \in DOMAIN at :
              /\ at[i] % Align(ty.ops[i]) = 0 /\ Align(ty) % Align(ty.ops[i]) = 0
              /\ at[i] + SizeOf(ty.ops[i]) <= IF i < Len(at) THEN at[i + 1] ELSE SizeOf(ty)

Cases == IF ty.k = "join" /\ Known(ty.ops) THEN {ty.ops[i] : i \in DOMAIN ty.ops} ELSE {}

(* core.cpp:36, the assertion of convert: the size of the largest case is a multiple *)
(* of the largest alignment.                                                     *)
CasesDivide == Cases # {} => Greatest(SizeOf, ty.ops) % Greatest(Align, ty.ops) = 0

(* core.cpp:38: the Sigma that stands for a Join has a payload that holds each case *)
(* and is aligned for it, if the assertion holds.                                *)
PayloadHolds ==
    \A c \in Cases : CasesDivide =>
        LET payload == convert(ty.ops).ops[2] IN SizeOf(payload) >= SizeOf(c) /\ Align(payload) % Align(c) = 0
=============================================================================
