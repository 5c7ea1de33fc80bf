------------------------------- MODULE Lexer -------------------------------
(***************************************************************************)
(* The lexer (thorin/fe/lexer.cpp) on top of a look-ahead of three characters *)
(* (utf8::Lexer).  A character is a string; "nl" is the end of a line, "sub1" *)
(* and "sub2" are subscripts, "lm" and "lq" stand for the other characters    *)
(* that are tokens on their own, "bad" is an erroneous UTF-8 character.       *)
(***************************************************************************)
EXTENDS Integers, Sequences, FiniteSets

CONSTANTS Inputs,     \* the files: sequences of characters
          MdInputs    \* those that are read with a Markdown output

VARIABLES file,       \* the file that is read
          lexer,      \* the state of the Lexer
          toks        \* the tokens so far

vars == <<file, lexer, toks>>

Space == {" ", "nl"}
Digit == {"0", "1", "2"}
Alpha == {"a", "b", "e", "o", "p", "x"}
Sub   == {"sub1", "sub2"}
Signs == {"+", "-"}
Singles  == {"(", ")", "lq", "rq", "la", "ra", "lm", "arrow", "@", "=", ",", "#", ";", "*"}
Keywords == {<<".", "a">>, <<".", "a", "b">>}
Digits(base) == CASE base = 2 -> {"0", "1"} [] base = 8 -> Digit [] base = 10 -> Digit [] base = 16 -> Digit \cup {"a", "b", "e"}
ExpChar(base) == IF base = 10 THEN "e" ELSE "p"
Numeral(c) == CASE c = "0" -> 0 [] c \in {"1", "sub1"} -> 1 [] c \in {"2", "sub2"} -> 2 [] c = "a" -> 10 [] c = "b" -> 11 [] c = "e" -> 14

-----------------------------------------------------------------------------
(* The three characters ahead with their positions.                              *)
After(pos, c) == IF c = "nl" THEN <<pos[1] + 1, 0>> ELSE IF c = "eof" THEN pos ELSE <<pos[1], pos[2] + 1>>

Pull(s) ==
    LET c   == IF s.rest = <<>> THEN "eof" ELSE Head(s.rest)
        pos == After(s.ahead[3].pos, c)
    IN [s EXCEPT !.ahead = <<s.ahead[2], s.ahead[3], [c |-> c, pos |-> pos]>>,
                 !.rest  = IF @ = <<>> THEN @ ELSE Tail(@)]

ahead(s, i) == s.ahead[i + 1].c

(* What next writes into the Markdown output.                                    *)
Echo(s) ==
    LET c == ahead(s, 0) IN
    IF ~s.md_ \/ ~s.out \/ c = "bad" THEN s
    ELSE IF c = "eof" THEN [s EXCEPT !.md = @ \o <<"nl", "fence">>, !.out = FALSE]
    ELSE [s EXCEPT !.md = Append(@, c)]
next(s) == CHOOSE t \in {[Pull(Echo(s)) EXCEPT !.finis = s.ahead[1].pos]} : TRUE    \* evaluated once

accept(s, cs, append) == IF ahead(s, 0) \in cs THEN next(IF append THEN [s EXCEPT !.str = Append(@, ahead(s, 0))] ELSE s) ELSE s
Accepts(s, cs) == ahead(s, 0) \in cs

RECURSIVE Many(_, _), Skip(_, _), eat_comments(_), emit_md(_)
Many(s, cs) == IF Accepts(s, cs) THEN Many(accept(s, cs, TRUE), cs) ELSE s
Skip(s, cs) == IF Accepts(s, cs) THEN s ELSE Skip(next(s), cs)

Tok(s, tag, v) == [tag |-> tag, v |-> v, begin |-> s.begin, finis |-> s.finis]
Result(s, tag, v) == [s EXCEPT !.tok = Tok(s, tag, v)]
Err(s)         == Result(s, "error", 0)

-----------------------------------------------------------------------------
(* strtoull and strtod: a float is its sign, digits and exponent.                 *)
Strtoull(w, base) ==
    LET v[i \in 0..Len(w)] == IF i = 0 THEN 0 ELSE v[i - 1] * base + Numeral(w[i]) IN v[Len(w)]
At(w, c) == IF \E i \in DOMAIN w : w[i] = c THEN CHOOSE i \in DOMAIN w : w[i] = c /\ \A j \in 1..(i - 1) : w[j] # c ELSE Len(w) + 1
RECURSIVE Float(_, _, _, _)
Float(neg, m, e, base) == IF m = 0 THEN <<neg, 0, 0>> ELSE IF m % base = 0 THEN Float(neg, m \div base, e + 1, base) ELSE <<neg, m, e>>
Strtod(neg, w, base) ==
    LET x    == At(w, ExpChar(base))
        d    == At(SubSeq(w, 1, x - 1), ".")
        mant == SubSeq(w, 1, d - 1) \o SubSeq(w, d + 1, x - 1)
        sgn  == x < Len(w) /\ w[x + 1] \in Signs
        exp  == Strtoull(SubSeq(w, IF sgn THEN x + 2 ELSE x + 1, Len(w)), 10)
        frac == (IF d < x THEN x - 1 - d ELSE 0) * (IF base = 16 THEN 4 ELSE 1)
    IN Float(neg, Strtoull(mant, base), (IF sgn /\ w[x + 1] = "-" THEN -exp ELSE exp) - frac, IF base = 16 THEN 2 ELSE 10)

-----------------------------------------------------------------------------
lex_id(s) == IF Accepts(s, Alpha \cup {"_"}) THEN Many(s, Alpha \cup Digit \cup {"_", "."}) ELSE s

parse_digits(s, base) == Many(s, Digits(base))
HasExp(s, base) == Accepts(s, {ExpChar(base)})
parse_exp(s, base) ==
    LET t == accept(accept(s, {ExpChar(base)}, TRUE), Signs, TRUE) IN
    IF HasExp(s, base) THEN (IF Accepts(t, Digit) THEN parse_digits(t, 10) ELSE Err(t))
    ELSE IF base = 16 THEN Err(s) ELSE s

(* The index literals, of a number i that has been read.                         *)
parse_idx(s, i) ==
    LET sub   == Many([s EXCEPT !.str = <<>>], Sub)
        under == [next(s) EXCEPT !.str = <<>>]
        mod   == parse_digits(under, 10)
    IN IF Accepts(s, Sub) THEN Result(sub, "M_i", <<i, Strtoull(sub.str, 10)>>)
       ELSE IF Accepts(under, Digit) THEN Result(mod, "M_i", <<i, Strtoull(mod.str, 10)>>)
       ELSE Err(under)

parse_zero(s) == accept(s, {"0"}, FALSE)
parse_lit(s) ==
    LET signed == Accepts(s, Signs)
        neg    == Accepts(s, {"-"})
        s1     == accept(s, Signs, FALSE)
        zero   == Accepts(s1, {"0"})
        s2     == parse_zero(s1)
        base   == IF ~zero THEN 10 ELSE IF Accepts(s2, {"b"}) THEN 2 ELSE IF Accepts(s2, {"o"}) THEN 8 ELSE IF Accepts(s2, {"x"}) THEN 16 ELSE 10
        s3     == parse_digits(IF base = 10 THEN s2 ELSE next(s2), base)
        dot    == base \in {10, 16} /\ Accepts(s3, {"."})
        s4     == IF dot THEN parse_digits(accept(s3, {"."}, TRUE), base) ELSE s3
        float  == dot \/ (base \in {10, 16} /\ HasExp(s4, base))
        s5     == IF base \in {10, 16} THEN parse_exp(s4, base) ELSE s4
    IN IF neg /\ Accepts(s1, {">"}) THEN Result(next(s1), "arrow", 0)
       ELSE IF ~signed /\ base = 10 /\ Accepts(s3, Sub \cup {"_"}) THEN parse_idx(s3, Strtoull(s3.str, 10))
       ELSE IF s5.tok.tag = "error" \/ (signed /\ s5.str = <<>>) THEN Err(s5)
       ELSE IF float THEN Result(s5, "L_r", Strtod(neg, s5.str, base))
       ELSE Result(s5, "L_u", IF neg THEN -Strtoull(s5.str, base) ELSE Strtoull(s5.str, base))

-----------------------------------------------------------------------------
Closing(t) == Accepts(next(t), {"/"})
eat_comments(s) ==
    LET t == Skip(s, {"eof", "*"}) IN
    IF Accepts(t, {"eof"}) THEN Err(next(t))
    ELSE IF Closing(t) THEN next(next(t)) ELSE eat_comments(next(t))

start_md(s) == \A i \in 0..2 : ahead(s, i) = "/"
Silent(s)   == [s EXCEPT !.out = FALSE]
Loud(s)     == [s EXCEPT !.out = TRUE]
md_fence(s) == IF s.md_ THEN [s EXCEPT !.md = Append(@, "fence")] ELSE s
MdEnd(t)    == IF Accepts(t, {"eof"}) THEN Silent(t) ELSE md_fence(t)
emit_md(s) ==
    LET text == Loud(accept(next(next(next(Silent(s)))), {" "}, FALSE))
        t    == accept(Skip(text, {"eof", "nl"}), {"nl"}, FALSE)
    IN IF start_md(t) THEN emit_md(t) ELSE MdEnd(t)

-----------------------------------------------------------------------------
Axiom(t) == IF t.str # <<"%">> THEN Result(t, "M_ax", t.str) ELSE Err(t)
Dot(s) ==
    LET id    == lex_id(s)
        float == parse_exp(parse_digits(s, 10), 10)
    IN IF id.str # s.str THEN (IF id.str \in Keywords THEN Result(id, "K", id.str) ELSE Err(id))
       ELSE IF ~Accepts(s, Digit) THEN Result(s, "dot", 0)
       ELSE IF float.tok.tag = "error" THEN float ELSE Result(float, "L_r", Strtod(FALSE, float.str, 10))
Pipe(s) == IF Accepts(s, {"~"}) /\ Accepts(next(s), {"|"}) THEN Result(next(next(s)), "Pi", 0) ELSE Err(s)
Double_first(s, c, two, one) == Result(s, one, 0)
Double(s, c, two, one) == IF Accepts(s, {c}) THEN Result(next(s), two, 0) ELSE Result(s, one, 0)

(* One round of the loop in lex after white space: a token, or nothing but a       *)
(* comment, in which case tok stays "none".                                      *)
Round(s) ==
    LET c == ahead(s, 0)
        t == accept(s, {c}, TRUE)
    IN CASE c = "bad" -> Err(t)
         [] c = "eof" -> Result(t, "M_eof", 0)
         [] c \in Singles -> Result(t, c, 0)
         [] c = "<" -> Double(t, "<", "lq", "la")
         [] c = ">" -> Double(t, ">", "rq", "ra")
         [] c = ":" -> Double(t, ":", "::", ":")
         [] c = "|" -> Pipe(t)
         [] c = "%" -> Axiom(lex_id(t))
         [] c = "." -> Dot(t)
         [] c \in Alpha \cup {"_"} -> Result(lex_id(s), "M_id", lex_id(s).str)
         [] c \in Digit \cup Signs -> parse_lit(s)
         [] c = "/" /\ start_md(s) -> emit_md(md_fence(s))
         [] c = "/" /\ ~start_md(s) /\ ahead(s, 1) = "*" -> eat_comments(next(t))
         [] c = "/" /\ ~start_md(s) /\ ahead(s, 1) = "/" -> Skip(next(t), {"eof", "nl"})
         [] OTHER -> Err(s)

RECURSIVE lex(_)
lex(s0) ==
    LET s == [s0 EXCEPT !.begin = s0.ahead[1].pos, !.str = <<>>]
        r == IF Accepts(s, Space) THEN accept(s, Space, TRUE) ELSE Round(s)
    IN IF r.tok.tag = "none" THEN lex(r) ELSE r

-----------------------------------------------------------------------------
None == [tag |-> "none", v |-> 0, begin |-> <<0, 0>>, finis |-> <<0, 0>>]
Blank(w, md) == [ahead |-> [i \in 1..3 |-> [c |-> "", pos |-> <<1, 0>>]], rest |-> w, begin |-> <<0, 0>>, finis |-> <<0, 0>>,
             str |-> <<>>, md_ |-> md, md |-> <<>>, out |-> TRUE, tok |-> None]
Started(w, md) ==
    LET s == Pull(Pull(Pull(Blank(w, md))))
        t == IF Accepts(s, {"BOM"}) THEN Pull(s) ELSE s
    IN IF start_md(t) THEN emit_md(t) ELSE md_fence(t)

Init ==
    /\ \/ file \in Inputs /\ lexer = Started(file, FALSE)
       \/ file \in MdInputs /\ lexer = Started(file, TRUE)
    /\ toks = <<>>

Done == toks # <<>> /\ toks[Len(toks)].tag \in {"M_eof", "error"}
Lex == ~Done /\ lexer' = lex([lexer EXCEPT !.tok = None]) /\ toks' = Append(toks, lexer'.tok) /\ UNCHANGED file
Next == Lex
Spec == Init /\ [][Next]_vars
-----------------------------------------------------------------------------
(* What docs/langref.md says of the tokens of a file.                              *)

All(w, cs) == \A i \in DOMAIN w : w[i] \in cs
Cut(w, i, j) == SubSeq(w, i, IF j > Len(w) THEN Len(w) ELSE j)
IsSym(w) == w # <<>> /\ w[1] \in Alpha \cup {"_"} /\ All(w, Alpha \cup Digit \cup {"_", "."})

(* The literals of the table: the kind and the value of those that w spells.       *)
Number(w, base) ==
    LET v[i \in 0..Len(w)] == IF i = 0 THEN 0 ELSE v[i - 1] * base + Numeral(w[i]) IN v[Len(w)]
Prefixed(w) == IF Len(w) > 1 /\ w[1] = "0" /\ w[2] \in {"b", "o", "x"}
               THEN <<CASE w[2] = "b" -> 2 [] w[2] = "o" -> 8 [] w[2] = "x" -> 16, Cut(w, 3, Len(w))>> ELSE <<10, w>>
Ints(neg, signed, w) ==
    LET b == Prefixed(w)[1]
        d == Prefixed(w)[2]
    IN IF d # <<>> /\ All(d, Digits(b)) THEN {<<IF signed THEN "L_s" ELSE "L_u", IF neg THEN -Number(d, b) ELSE Number(d, b)>>} ELSE {}
Exps(w, base) ==    \* the values of an exponent
    IF w = <<>> /\ base = 10 THEN {0}
    ELSE IF w = <<>> \/ w[1] # ExpChar(base) THEN {}
    ELSE {IF k = 2 /\ w[2] = "-" THEN -Number(Cut(w, k + 1, Len(w)), 10) ELSE Number(Cut(w, k + 1, Len(w)), 10) :
          k \in {j \in 1..2 : j < Len(w) /\ (j = 2 => w[2] \in Signs) /\ All(Cut(w, j + 1, Len(w)), Digit)}}
Floats(neg, w) ==
    LET b == Prefixed(w)[1]
        d == Prefixed(w)[2]
    IN IF b \notin {10, 16} THEN {} ELSE
       UNION {{<<"L_r", Float(neg, Number(Cut(d, 1, i) \o Cut(d, i + 2, j), b), e - (IF b = 16 THEN 4 ELSE 1) * (j - i - 1), IF b = 16 THEN 2 ELSE 10)>> :
                  e \in Exps(Cut(d, j + 1, Len(d)), b)} :
              <<i, j>> \in {p \in (0..Len(d)) \X (1..Len(d)) :
                  /\ p[1] < p[2] /\ d[p[1] + 1] = "." /\ p[2] > 1
                  /\ All(Cut(d, 1, p[1]) \o Cut(d, p[1] + 2, p[2]), Digits(b))}}
       \cup UNION {{<<"L_r", Float(neg, Number(Cut(d, 1, j), b), e, IF b = 16 THEN 2 ELSE 10)>> : e \in Exps(Cut(d, j + 1, Len(d)), b)} :
                   j \in {k \in 1..(Len(d) - 1) : All(Cut(d, 1, k), Digits(b))}}
Idxs(w) ==
    {<<"M_i", <<Number(Cut(w, 1, i), 10), Number(Cut(w, j, Len(w)), 10)>>>> :
        <<i, j>> \in {p \in (1..Len(w)) \X (2..Len(w)) :
            /\ All(Cut(w, 1, p[1]), Digit)
            /\ \/ p[2] = p[1] + 1 /\ All(Cut(w, p[2], Len(w)), Sub)
               \/ p[2] = p[1] + 2 /\ w[p[1] + 1] = "_" /\ All(Cut(w, p[2], Len(w)), Digit)}}
Literals(w) ==
    IF w = <<>> THEN {} ELSE
    LET signed == w[1] \in Signs
        u      == IF signed THEN Tail(w) ELSE w
    IN Ints(w[1] = "-", signed, u) \cup Floats(w[1] = "-", u) \cup Idxs(w)

Spellings ==    \* the other tokens
    [la |-> {<<"la">>, <<"<">>}, ra |-> {<<"ra">>, <<">">>}, lq |-> {<<"lq">>, <<"<", "<">>}, rq |-> {<<"rq">>, <<">", ">">>},
     arrow |-> {<<"arrow">>, <<"-", ">">>}, Pi |-> {<<"|", "~", "|">>}, dot |-> {<<".">>}]
Others(w) == {t \in DOMAIN Spellings : w \in Spellings[t]}
             \cup (IF Len(w) = 1 /\ w[1] \in Singles \cup {":"} THEN {w[1]} ELSE {})
             \cup (IF w = <<":", ":">> THEN {"::"} ELSE {})
             \cup (IF IsSym(w) THEN {"M_id"} ELSE {}) \cup (IF w \in Keywords THEN {"K"} ELSE {})
             \cup (IF Len(w) > 1 /\ w[1] = "%" /\ IsSym(Tail(w)) THEN {"M_ax"} ELSE {})
Blunt(w) == LET d == IF w[1] \in Signs THEN Tail(w) ELSE w    \* without a digit in front of the exponent
                b == IF Prefixed(d \o <<"1">>)[1] # 10 THEN Cut(d, 3, Len(d)) ELSE d
                x == At(b, IF b = d THEN "e" ELSE "p")
            IN ~\E i \in 1..(x - 1) : b[i] \in (Digits(16) \ {"e"})
Spells(w, t) == t.tag \in Others(w) \/ {<<k, t.v>> : k \in {t.tag} \cup (IF t.tag = "L_u" THEN {"L_s"} ELSE {})} \cap Literals(w) # {}
IsToken(w)   == Others(w) # {} \/ Literals(w) # {}

(* The positions of the characters, and those that a token covers.                 *)
Lines(i) == {k \in 1..i : file[k] = "nl"}
Pos(i) == <<1 + Cardinality(Lines(i)), i - (IF Lines(i) = {} THEN 0 ELSE CHOOSE k \in Lines(i) : \A j \in Lines(i) : j <= k)>>
LessEq(p, q) == p[1] < q[1] \/ (p[1] = q[1] /\ p[2] <= q[2])
Covered(t) == {i \in DOMAIN file : LessEq(t.begin, Pos(i)) /\ LessEq(Pos(i), t.finis)}
Text(t)    == LET c == Covered(t) IN IF c = {} THEN <<>> ELSE Cut(file, CHOOSE i \in c : \A j \in c : i <= j, CHOOSE i \in c : \A j \in c : j <= i)
LastOf(t)  == LET c == Covered(t) IN CHOOSE i \in c : \A j \in c : j <= i
Real == {i \in DOMAIN toks : toks[i].tag \notin {"M_eof", "error"}}

(* langref.md, "Terminals", and gtest/lexer.cpp, "Loc": what stands from the begin  *)
(* to the end of a token spells that token, and has its value.                    *)
SpelledAll == \A i \in Real : Spells(Text(toks[i]), toks[i])
(* ... but for literals without digits.                                            *)
Spelled == \A i \in Real : Spells(Text(toks[i]), toks[i]) \/ (toks[i].tag \in {"L_u", "L_r"} /\ Blunt(Text(toks[i])))

(* langref.md: maximal munch.                                                     *)
Munch == \A i \in Real : LET n == LastOf(toks[i]) + 1 IN n <= Len(file) => ~IsToken(Append(Text(toks[i]), file[n]))

(* White space and comments.                                                      *)
RECURSIVE Skippable(_)
Skippable(w) ==
    \/ w = <<>>
    \/ \E n \in 1..Len(w) :
          /\ \/ n = 1 /\ w[1] \in Space
             \/ n > 1 /\ w[1] = "/" /\ w[2] = "/" /\ n = (IF At(w, "nl") > Len(w) THEN Len(w) ELSE At(w, "nl"))
             \/ /\ n > 3 /\ w[1] = "/" /\ w[2] = "*" /\ w[n - 1] = "*" /\ w[n] = "/"
                /\ \A m \in 4..(n - 1) : ~(w[m - 1] = "*" /\ w[m] = "/")
          /\ \E v \in {Cut(w, n + 1, Len(w))} : Skippable(v)

(* langref.md, "Comments": nothing but white space and comments is skipped, in      *)
(* front of a token and in front of the end.                                      *)
Skipped ==
    \A i \in DOMAIN toks :
        toks[i].tag # "error" =>
            LET from == IF i = 1 THEN 1 ELSE LastOf(toks[i - 1]) + 1
                to   == IF toks[i].tag = "M_eof" THEN Len(file)
                        ELSE (CHOOSE k \in Covered(toks[i]) : \A j \in Covered(toks[i]) : k <= j) - 1
            IN \E w \in {Cut(file, from, to)} : Skippable(w)

(* langref.md, "Regular Expressions": a file that is a literal is one token.        *)
Kinds == {"L_u", "L_s", "L_r", "M_i"}
WholeLiteral(kinds, skip) ==
    \A l \in Literals(file) :
        l[1] \in kinds /\ ~skip /\ toks # <<>> => toks[1].tag = l[1] /\ toks[1].v = l[2]
Hex == Cut(file, 1, IF file # <<>> /\ file[1] \in Signs THEN 3 ELSE 2)
IsHex == \E i \in 1..2 : i < Len(Hex) /\ Hex[i] = "0" /\ Hex[i + 1] = "x"
IsZero == \E l \in Literals(file) : l[1] = "L_s" /\ l[2] = 0

(* ... unsigned, floating-point and index literals, but for hexadecimal integers ... *)
Accepted == WholeLiteral({"L_u", "M_i"}, IsHex) /\ WholeLiteral({"L_r"}, FALSE)
(* ... the hexadecimal ones ...                                                    *)
AcceptedHex == WholeLiteral({"L_u"}, FALSE)
(* ... zeros with a sign ...                                                      *)
AcceptedZero == IsZero /\ toks # <<>> => toks[1].tag # "error"
(* ... and a signed literal is a signed one.                                       *)
AcceptedSigned == WholeLiteral({"L_s"}, IsHex \/ IsZero)

(* langref.md, "Comments": the Markdown output is the file without the marks of the *)
(* comments that go into it, ...                                                  *)
NotFence(c) == c # "fence"
LineEnd(w) == IF At(w, "nl") > Len(w) THEN Len(w) ELSE At(w, "nl")
Text3(w)   == Cut(w, IF Len(w) > 3 /\ w[4] = " " THEN 5 ELSE 4, LineEnd(w))
RECURSIVE Plain(_)
Plain(w) ==
    IF w = <<>> THEN <<>>
    ELSE IF Len(w) > 1 /\ w[1] = "/" /\ w[2] = "/"
         THEN (IF Len(w) > 2 /\ w[3] = "/" THEN Text3(w) ELSE Cut(w, 1, LineEnd(w))) \o Plain(Cut(w, LineEnd(w) + 1, Len(w)))
    ELSE <<w[1]>> \o Plain(Tail(w))
Ended == toks # <<>> /\ toks[Len(toks)].tag = "M_eof"
MdVerbatim == lexer.md_ /\ Ended => SelectSeq(lexer.md, NotFence) \in {Plain(file), Append(Plain(file), "nl")}

(* ... with the code in fenced blocks: every block is closed in the end, ...         *)
MdClosed == lexer.md_ /\ Ended => Len(SelectSeq(lexer.md, LAMBDA c : c = "fence")) % 2 = 0
(* ... and a fence starts a line.                                                 *)
MdFences == \A i \in DOMAIN lexer.md : lexer.md[i] = "fence" /\ i > 1 => lexer.md[i - 1] \in {"nl", "fence"}
=============================================================================
