------------------------------- MODULE Parser -------------------------------
(* The parser of fe/parser.cpp with its scopes (fe/scopes.cpp) and patterns   *)
(* (fe/ast.cpp), on a list of tokens: expressions by precedence climbing,     *)
(* patterns, declarations and the nominals they build. A state of the parser  *)
(* is a record: p the tokens consumed, sc the stack of scopes, nm the         *)
(* nominals created so far, ok whether no error was raised, r the result of   *)
(* the last step. A definition is a tuple that begins with its kind; <<"nom", *)
(* g>> is the g-th nominal and <<"var", g>> its variable. Folding other than  *)
(* that of extracts and of one-element tuples is left out, as are types that  *)
(* no scope depends on, axioms (Axioms) and imports (Imports).                *)
EXTENDS Integers, Sequences, SequencesExt, TLC

CONSTANTS Programs,   \* the declarations of modules that are parsed
          Terms       \* the terms that are displayed and parsed

VARIABLES toks,       \* the tokens
          out,        \* the state at the end, once the module is parsed
          prog        \* what is parsed: whether program or term, and its tree

None == <<"none">>

Bot == 0
Nil == 1
Arrow == 2
LamP == 3
PiP == 4
App == 5
Extract == 6
LitP == 7

\* The precedence an operator demands of its left and of its right operand.
PrecL == [p \in Bot..LitP |-> IF p \in {App, Extract} THEN p ELSE IF p = Arrow THEN LamP ELSE Nil]
PrecR == [p \in Bot..LitP |-> CASE p = Arrow -> Arrow [] p = LamP -> PiP [] p = PiP -> App
                                [] p = App -> Extract [] p >= Extract -> LitP [] OTHER -> Nil]

Ahead(s, i) == IF s.p + i < Len(toks) THEN toks[s.p + i + 1].t ELSE "eof"
Is(s, t) == Ahead(s, 0) = t
Sym(s) == toks[s.p + 1].v
lex(s) == [s EXCEPT !.p = @ + 1]

\* err throws: nothing is parsed any more.
Fail(s) == [s EXCEPT !.ok = FALSE, !.p = Len(toks), !.r = None]
expect(s, t) == IF Is(s, t) THEN lex(s) ELSE Fail(s)
Yield(s, d) == [s EXCEPT !.r = d]

(* Scopes *)
push(s) == [s EXCEPT !.sc = Append(@, <<>>)]
pop(s) == [s EXCEPT !.sc = SubSeq(@, 1, Len(@) - 1)]

find_outer(s, x) ==
    LET at == {i \in DOMAIN s.sc : x \in DOMAIN s.sc[i]}
    IN IF x = "_" \/ at = {} THEN Fail(s) ELSE Yield(s, s.sc[Min(at)][x])
find(s, x) ==
    LET at == {i \in DOMAIN s.sc : x \in DOMAIN s.sc[i]}
    IN IF x = "_" \/ at = {} THEN Fail(s) ELSE Yield(s, s.sc[Max(at)][x])

bindIn(s, i, x, d) ==
    IF x = "_" THEN s
    ELSE IF x \in DOMAIN s.sc[i] THEN Fail(s)
    ELSE [s EXCEPT !.sc[i] = @ @@ (x :> d)]
bind(s, x, d) == IF s.ok THEN bindIn(s, Len(s.sc), x, d) ELSE s

(* The graph *)
New(s, kind, ops, fields) ==
    [s EXCEPT !.nm = Append(@, [k |-> kind, ops |-> ops, fields |-> fields]), !.r = <<"nom", Len(s.nm) + 1>>]
set(s, d, i, op) == [s EXCEPT !.nm[d[2]].ops[i] = op]

RECURSIVE Dissolve(_, _)
\* A hole that was filled stands for what it was filled with.
Dissolve(nm, d) ==
    IF d[1] = "nom" /\ nm[d[2]].k = "Infer" /\ nm[d[2]].ops[1] # None THEN Dissolve(nm, nm[d[2]].ops[1]) ELSE d

IsNomSigma(nm, d) == d[1] = "nom" /\ nm[d[2]].k = "Sigma"

RECURSIVE TypeOf(_, _)
\* The type of what can be projected, None where no scope needs it.
TypeOf(nm, d) ==
    CASE d[1] = "var" /\ nm[d[2]].k = "Sigma" -> <<"nom", d[2]>>
      [] d[1] = "var" /\ nm[d[2]].k = "Pi" -> nm[d[2]].ops[1]
      [] d[1] = "var" /\ nm[d[2]].k = "Lam" -> nm[nm[d[2]].ops[1][2]].ops[1]
      [] d[1] = "nom" /\ nm[d[2]].k = "Infer" -> nm[d[2]].ops[2]
      [] d[1] = "ext" /\ d[3][1] = "lit" ->
            LET t == TypeOf(nm, d[2])
            IN CASE IsNomSigma(nm, t) -> nm[t[2]].ops[d[3][2] + 1]
                 [] t[1] = "sigma" -> t[2][d[3][2] + 1]
                 [] OTHER -> None
      [] OTHER -> None

extract(d, i) == IF d[1] = "tuple" /\ i[1] = "lit" THEN d[2][i[2] + 1] ELSE <<"ext", d, i>>
tuple(ops) == IF Len(ops) = 1 THEN ops[1] ELSE <<"tuple", ops>>
sigma(ops) == IF Len(ops) = 1 THEN ops[1] ELSE <<"sigma", ops>>

\* The projection of one of one out of a nominal sigma is a real extract, and out of range.
BadProj(nm, d, n) == n = 1 /\ (IsNomSigma(nm, d) \/ IsNomSigma(nm, TypeOf(nm, d)))
proj(nm, d, n, i) ==
    CASE n = 1 -> d
      [] d[1] = "sigma" -> d[2][i]
      [] IsNomSigma(nm, d) -> nm[d[2]].ops[i]
      [] OTHER -> extract(d, <<"lit", i - 1>>)

RECURSIVE Occurs(_, _, _, _)
\* d mentions the variable of the nominal g, through holes that are filled and nominals not yet seen.
Occurs(nm, g, d, seen) ==
    CASE d[1] = "var" -> d[2] = g
      [] d[1] = "nom" -> d[2] \notin seen /\ \E o \in DOMAIN nm[d[2]].ops :
                                                Occurs(nm, g, nm[d[2]].ops[o], seen \cup {d[2]})
      [] d[1] \in {"tuple", "sigma"} -> \E o \in DOMAIN d[2] : Occurs(nm, g, d[2][o], seen)
      [] d[1] \in {"app", "ext", "pi", "arr", "pack"} -> Occurs(nm, g, d[2], seen) \/ Occurs(nm, g, d[3], seen)
      [] d[1] = "tlit" -> Occurs(nm, g, d[3], seen)
      [] OTHER -> FALSE

restructure(nm, d) ==
    IF \E i \in DOMAIN nm[d[2]].ops : Occurs(nm, d[2], nm[d[2]].ops[i], {d[2]}) THEN d ELSE sigma(nm[d[2]].ops)

(* Patterns: a name with a type, or a tuple of patterns with a hole for each of them. *)
IdPtrn(x, type) == [k |-> "id", sym |-> x, type |-> type, ps |-> <<>>, infers |-> <<>>]
TuplePtrn(x, ps, infers) == [k |-> "tuple", sym |-> x, type |-> None, ps |-> ps, infers |-> infers]

RECURSIVE bindPtrn(_, _, _), bindAll(_, _, _, _)
bindPtrn(s, q, d) ==
    IF ~s.ok THEN s
    ELSE IF q.k = "id" THEN bind(s, q.sym, d)
    ELSE bindAll(bind(s, q.sym, d), q, d, 1)
bindAll(s, q, d, i) ==
    IF i > Len(q.ps) \/ ~s.ok THEN s
    ELSE IF BadProj(s.nm, d, Len(q.ps)) THEN Fail(s)
    ELSE bindAll(bindPtrn(s, q.ps[i], proj(s.nm, d, Len(q.ps), i)), q, d, i + 1)

RECURSIVE FillInfers(_, _, _, _)
FillInfers(s, infers, sg, i) ==
    IF i >= Len(infers) THEN s
    ELSE FillInfers(set(s, infers[i], 1, proj(s.nm, <<"var", sg[2]>>, Len(infers), i)), infers, sg, i + 1)

\* The type of a pattern, remembered in it; the elements of a tuple pattern have theirs.
type(s, q) ==
    IF q.type # None THEN Yield(s, q)
    ELSE IF q.k = "id"
    THEN LET n == New(s, "Infer", <<None, None>>, <<>>) IN Yield(n, [q EXCEPT !.type = n.r])
    ELSE LET ops == [i \in DOMAIN q.ps |-> q.ps[i].type]
         IN IF \A i \in DOMAIN q.ps : q.ps[i].sym = "_" THEN Yield(s, [q EXCEPT !.type = sigma(ops)])
            ELSE LET n == New(s, "Sigma", ops, [i \in DOMAIN q.ps |-> q.ps[i].sym])
                     f == FillInfers(n, q.infers, n.r, 1)
                 IN Yield(f, [q EXCEPT !.type = restructure(f.nm, n.r)])

Index == [x \in {"0", "1", "2", "3"} |-> CASE x = "0" -> 0 [] x = "1" -> 1 [] x = "2" -> 2 [] x = "3" -> 3]
Delim == ("(" :> ")") @@ ("[" :> "]") @@ ("{" :> "}")
Atoms == {".Nat", "*", ".tt"}

RECURSIVE Call(_, _, _), parse_syms(_, _)
\* The functions of the grammar call each other: expr is a call of parse_expr, and so on.
expr(s, p, must)     == Call("expr", s, <<p, must>>)
infix_expr(s, p)     == Call("infix_expr", s, <<p>>)
ptrn(s, delim, prec) == Call("ptrn", s, <<delim, prec>>)
ptrns(s, delim, q)   == Call("ptrns", s, <<delim, q>>)
exprs(s, os)         == Call("exprs", s, <<os>>)
decls(s, body)       == Call("decls", s, <<body>>)
lams(s, decl, name)  == Call("lams", s, <<decl, name>>)
operands(s, d, i)    == Call("operands", s, <<d, i>>)
dom(s, w)            == Call("dom", s, <<w>>)
doms(s, w)           == Call("doms", s, <<w>>)

\* The closing delimiter of a list ends it, after a trailing comma as well.
More(s, delim) == Is(s, ",") /\ Ahead(s, 1) # delim
Closed(s, delim) == LET t == IF Is(s, ",") THEN lex(s) ELSE s IN IF s.ok THEN expect(t, delim) ELSE s

(* Expressions *)
parse_lit(s) ==
    LET i == <<"lit", Index[Sym(s)]>>    l == lex(s)
    IN IF ~Is(l, ":") THEN Yield(l, i)
       ELSE LET e == expr(lex(l), PrecR[LitP], TRUE) IN Yield(e, <<"tlit", i[2], e.r>>)

parse_tuple(s) ==
    LET l == lex(s)    e == IF Is(l, ")") THEN Yield(l, <<>>) ELSE exprs(l, <<>>)
    IN Yield(Closed(e, ")"), tuple(e.r))
parse_ops(s, ops) ==
    LET e == expr(s, Bot, TRUE)
    IN IF More(e, ")") THEN exprs(lex(e), Append(ops, e.r)) ELSE Yield(e, Append(ops, e.r))

parse_sigma(s) == LET b == ptrn(s, "[", Bot)    t == type(b, b.r) IN IF b.ok THEN Yield(t, t.r.type) ELSE b

parse_Cn(s) == LET b == ptrn(lex(s), "[", Bot)    t == type(b, b.r)
               IN IF b.ok THEN Yield(t, <<"pi", t.r.type, <<"bot">>>>) ELSE b

parse_var(s) ==
    LET f == find(lex(lex(s)), toks[s.p + 2].v)
    IN IF Ahead(s, 1) # "id" \/ ~f.ok \/ f.r[1] # "nom" THEN Fail(s) ELSE Yield(f, <<"var", f.r[2]>>)

parse_pi(s) ==
    LET b == ptrn(push(lex(s)), "[", App)
        t == type(b, b.r)
        n == New(t, "Pi", <<t.r.type, None>>, <<>>)
        v == bindPtrn(n, t.r, <<"var", n.r[2]>>)
        e == expr(expect(v, "->"), Arrow, TRUE)
    IN IF b.ok /\ e.ok THEN Yield(pop(set(e, n.r, 2, e.r)), n.r) ELSE Fail(s)

\* The variable of a nominal array is its index; that of a pack is a hole that is never filled.
parse_seq(s, kind, close) ==
    LET named == Ahead(s, 1) = "id" /\ Ahead(s, 2) = ":"
        x == toks[s.p + 2].v
        h == expr(IF named THEN lex(lex(lex(push(s)))) ELSE lex(push(s)), Bot, TRUE)
        n == IF kind = "arr" THEN New(h, "Arr", <<h.r, None>>, <<>>) ELSE New(h, "Infer", <<None, None>>, <<>>)
        b == expr(expect(IF ~named THEN h
                               ELSE bind(n, x, IF kind = "arr" THEN <<"var", n.r[2]>> ELSE n.r), ";"), Bot, TRUE)
        c == pop(expect(b, close))
    IN IF ~h.ok \/ ~c.ok THEN Fail(s)
       ELSE IF named /\ kind = "arr" THEN Yield(set(c, n.r, 2, b.r), n.r)
       ELSE Yield(c, <<kind, h.r, b.r>>)

parse_block(s) == pop(expect(decls(push(lex(s)), TRUE), "}"))

\* must: there has to be an expression; otherwise None says that there is none.
parse_primary_expr(s, must) ==
    CASE Ahead(s, 0) \in Atoms -> Yield(lex(s), <<"atom", Ahead(s, 0)>>)
      [] Is(s, "id") -> find(lex(s), Sym(s))
      [] Is(s, "lit") -> parse_lit(s)
      [] Is(s, "(") -> parse_tuple(s)
      [] Is(s, "[") -> parse_sigma(s)
      [] Is(s, "{") -> parse_block(s)
      [] Is(s, "Pi") -> parse_pi(s)
      [] Is(s, ".Cn") -> parse_Cn(s)
      [] Is(s, "<<") -> parse_seq(s, "arr", ">>")
      [] Is(s, "<") -> parse_seq(s, "pack", ">")
      [] Is(s, "@") -> parse_var(s)
      [] Ahead(s, 0) \in {".cn", ".lm"} -> lams(s, FALSE, "_")
      [] OTHER -> IF must THEN Fail(s) ELSE Yield(s, None)

parse_expr(s, p, must) ==
    LET l == parse_primary_expr(s, must) IN IF l.ok /\ l.r # None THEN infix_expr(l, p) ELSE l

\* The name behind # is a field if the type of the tuple is a nominal sigma with names.
parse_extract(s) ==
    LET l == lex(s)    t == Dissolve(s.nm, TypeOf(s.nm, s.r))
        hit == {i \in DOMAIN s.nm[t[2]].fields : s.nm[t[2]].fields[i] = Sym(l)}
    IN IF Is(l, "id") /\ IsNomSigma(s.nm, t)
       THEN IF Sym(l) = "_" \/ hit = {} THEN Fail(s) ELSE Yield(lex(l), extract(s.r, <<"lit", Min(hit) - 1>>))
       ELSE LET e == expr(l, PrecR[Extract], TRUE) IN IF e.ok THEN Yield(e, extract(s.r, e.r)) ELSE e

\* s.r is the left operand; an operator that binds it less than p is left to the caller.
parse_infix_expr(s, p) ==
    IF ~s.ok THEN s
    ELSE IF Is(s, "#")
    THEN IF PrecL[Extract] < p THEN s ELSE infix_expr(parse_extract(s), p)
    ELSE IF Is(s, "->")
    THEN IF PrecL[Arrow] < p THEN s
         ELSE LET e == expr(lex(s), PrecR[Arrow], TRUE) IN infix_expr(Yield(e, <<"pi", s.r, e.r>>), p)
    ELSE IF PrecL[App] < p THEN s
    ELSE LET e == expr(s, PrecR[App], FALSE)
         IN IF ~e.ok THEN e ELSE IF e.r = None THEN s ELSE infix_expr(Yield(e, <<"app", s.r, e.r>>), p)

(* Patterns *)
Typed(s, x, prec) == LET e == expr(s, prec, TRUE) IN Yield(e, IdPtrn(x, e.r))

parse_tuple_ptrn(s, x) ==
    LET delim == Ahead(s, 0)
        l == push(lex(s))
        e == IF Is(l, Delim[delim]) THEN Yield(l, TuplePtrn(x, <<>>, <<>>))
             ELSE ptrns(l, delim, TuplePtrn(x, <<>>, <<>>))
    IN IF ~e.ok THEN e ELSE Yield(pop(Closed(e, Delim[delim])), e.r)

\* ptrn(s, "(" or "[", prec): a pattern, or a binder whose name may be missing.
parse_ptrn(s, delim, prec) ==
    IF Is(s, "[") \/ (Is(s, "(") /\ delim = "(") THEN parse_tuple_ptrn(s, "_")
    ELSE IF Is(s, "id") /\ Ahead(s, 1) = "::"
    THEN IF (delim = "[" /\ Ahead(s, 2) = "(") \/ Ahead(s, 2) \notin {"(", "["} THEN Fail(s)
         ELSE parse_tuple_ptrn(lex(lex(s)), Sym(s))
    ELSE IF Is(s, "id") /\ Ahead(s, 1) = ":" THEN Typed(lex(lex(s)), Sym(s), prec)
    ELSE IF delim = "[" THEN Typed(s, "_", prec)
    ELSE IF Is(s, "id") THEN Yield(lex(s), IdPtrn(Sym(s), None))
    ELSE Fail(s)

\* The names of a group share a type.
parse_syms(s, xs) == IF Is(s, "id") THEN parse_syms(lex(s), Append(xs, Sym(s))) ELSE Yield(s, xs)

\* A hole of its type and the pattern itself join the tuple pattern q.
Join(s, q, e) ==
    LET n == New(s, "Infer", <<None, e.type>>, <<>>)
    IN Yield(n, [q EXCEPT !.ps = Append(@, e), !.infers = Append(@, n.r)])
RECURSIVE JoinAll(_, _, _, _)
JoinAll(s, q, xs, t) ==
    IF xs = <<>> THEN Yield(s, q) ELSE LET j == Join(s, q, IdPtrn(Head(xs), t)) IN JoinAll(j, j.r, Tail(xs), t)

\* The last pattern joined so far becomes visible to the one that is parsed now.
Visible(s, q) == IF q.ps = <<>> THEN s ELSE bindPtrn(s, q.ps[Len(q.ps)], q.infers[Len(q.ps)])

parse_group(s, q) ==
    LET g == parse_syms(s, <<>>)    e == expr(expect(g, ":"), Bot, TRUE)
    IN IF e.ok THEN JoinAll(e, q, g.r, e.r) ELSE e

parse_element(s, delim, q) ==
    LET b == ptrn(s, delim, Bot)
        t == type(b, b.r)
        more == infix_expr(Yield(t, t.r.type), Bot)
    IN IF ~b.ok THEN b
       ELSE IF delim = "[" /\ ~more.ok THEN more
       ELSE IF delim = "[" /\ more.r # t.r.type THEN Join(more, q, IdPtrn("_", more.r))
       ELSE Join(t, q, t.r)

parse_ptrns(s, delim, q) ==
    LET v == Visible(s, q)
        e == IF delim = "(" /\ Is(v, "id") /\ Ahead(v, 1) = "id" THEN parse_group(v, q) ELSE parse_element(v, delim, q)
    IN IF ~e.ok THEN e ELSE IF More(e, Delim[delim]) THEN ptrns(lex(e), delim, e.r) ELSE e

(* Declarations *)
parse_let(s) ==
    LET b == ptrn(lex(s), "(", Bot)
        e == expr(expect(b, "="), Bot, TRUE)
    IN IF b.ok /\ e.ok THEN expect(bindPtrn(e, b.r, e.r), ";") ELSE Fail(s)

\* Exchanges the innermost scope, kept in .other: the one of the types and the one of the bodies.
swap(s, other) == [s EXCEPT !.sc[Len(s.sc)] = other]
curr(s) == s.sc[Len(s.sc)]

parse_filter(s) ==
    IF ~Is(s, "@") THEN Yield(s, <<"ff">>)
    ELSE IF Ahead(s, 1) = "@" THEN Yield(lex(lex(s)), <<"tt">>)
    ELSE LET e == expr(expect(lex(s), "("), Bot, TRUE) IN Yield(expect(e, ")"), e.r)

\* One domain of a lambda: a Pi and a Lam, each with the names bound to its variable in its scope.
\* w: [lams, pis, other, cn]
parse_dom(s, w) ==
    LET b == ptrn(s, "(", IF w.cn THEN Bot ELSE PiP)
        t == type(b, b.r)
        n == New(t, "Pi", <<t.r.type, None>>, <<>>)
        v == bindPtrn(n, t.r, <<"var", n.r[2]>>)
        l == New(swap(v, w.other), "Lam", <<n.r, None, None>>, <<>>)
        u == bindPtrn(l, t.r, <<"var", l.r[2]>>)
        f == parse_filter(u)
        c == set(swap(f, curr(v)), l.r, 2, f.r)
        k == Len(w.pis)
    IN IF ~b.ok \/ ~v.ok \/ ~f.ok THEN Fail(s)
       ELSE Yield(IF k = 0 THEN c ELSE set(set(c, w.pis[k], 2, n.r), w.lams[k], 3, l.r),
                  [w EXCEPT !.pis = Append(@, n.r), !.lams = Append(@, l.r), !.other = curr(f)])

parse_doms(s, w) ==
    LET d == dom(s, w)
    IN IF ~d.ok THEN Fail(s) ELSE IF Ahead(d, 0) \in {"->", "=", ";"} THEN d ELSE doms(d, d.r)

parse_lams(s, decl, name) ==
    LET cn == Ahead(s, 0) \in {".cn", ".con"}
        outer == Len(s.sc)
        d == doms(push(IF decl THEN lex(lex(s)) ELSE lex(s)), [lams |-> <<>>, pis |-> <<>>, other |-> <<>>, cn |-> cn])
        w == d.r
        c == IF cn THEN Yield(d, <<"bot">>) ELSE IF Is(d, "->") THEN expr(lex(d), Arrow, TRUE)
             ELSE LET n == New(d, "Infer", <<None, None>>, <<>>) IN n
        t == set(c, w.pis[Len(w.pis)], 2, c.r)
        o == swap(bindIn(t, outer, name, w.lams[1]), w.other)
        b == IF Is(o, "=") THEN LET e == decls(lex(o), TRUE) IN set(e, w.lams[Len(w.lams)], 3, e.r)
             ELSE IF decl THEN set(o, w.lams[Len(w.lams)], 2, None) ELSE Fail(o)
        e == pop(IF decl THEN expect(b, ";") ELSE b)
    IN IF ~d.ok \/ ~c.ok \/ ~o.ok \/ ~e.ok THEN Fail(s) ELSE Yield(e, w.lams[1])

\* The operands of a nominal: one, or a list of as many as there are still to set.
parse_operands(s, d, i) ==
    LET e == decls(s, TRUE)    o == set(e, d, i, e.r)
    IN IF ~s.ok \/ i > Len(s.nm[d[2]].ops) THEN Fail(s)
       ELSE IF ~e.ok THEN e
       ELSE IF More(e, "}") THEN operands(lex(o), d, i + 1) ELSE o
FirstOp(n) == IF n.k \in {"Pi", "Arr"} THEN 2 ELSE 1
parse_def(s, x) ==
    LET f == find(s, x)    d == f.r    i == FirstOp(f.nm[d[2]])    a == expect(f, "=")
        b == IF Is(a, "{")
             THEN pop(Closed(IF Ahead(a, 1) = "}" THEN push(lex(a)) ELSE operands(push(lex(a)), d, i), "}"))
             ELSE IF Len(a.nm[d[2]].ops) = i THEN operands(a, d, i) ELSE Fail(a)
    IN IF ~f.ok \/ d[1] # "nom" \/ ~a.ok THEN Fail(s) ELSE expect(b, ";")

parse_nom(s) ==
    LET x == toks[s.p + 2].v
        c == expect(lex(lex(s)), ",")
        a == IF Is(s, ".Sigma")
             THEN New(expect(c, "lit"), "Sigma", [i \in 1..Index[Sym(c)] |-> None], <<>>)
             ELSE LET e == expr(c, Bot, TRUE) IN New(e, IF Is(s, ".Arr") THEN "Arr" ELSE "Pi", <<e.r, None>>, <<>>)
        n == push(push(bind(a, x, a.r)))
    IN IF Ahead(s, 1) # "id" \/ ~c.ok \/ ~n.ok THEN Fail(s)
       ELSE pop(pop(IF Is(n, "=") THEN parse_def(n, x) ELSE expect(n, ";")))

\* body: the declarations are followed by an expression.
parse_decls(s, body) ==
    CASE Is(s, ";") -> decls(lex(s), body)
      [] Is(s, ".let") -> decls(parse_let(s), body)
      [] Ahead(s, 0) \in {".Sigma", ".Arr", ".Pi"} -> decls(parse_nom(s), body)
      [] Ahead(s, 0) \in {".con", ".lam"} ->
            IF Ahead(s, 1) = "id" THEN decls(lams(s, TRUE, toks[s.p + 2].v), body) ELSE Fail(s)
      [] Is(s, ".def") -> IF Ahead(s, 1) = "id" THEN decls(parse_def(lex(lex(s)), toks[s.p + 2].v), body) ELSE Fail(s)
      [] OTHER -> IF body THEN expr(s, Bot, TRUE) ELSE s

Call(f, s, a) ==
    CASE f = "expr" -> parse_expr(s, a[1], a[2]) [] f = "infix_expr" -> parse_infix_expr(s, a[1])
      [] f = "ptrn" -> parse_ptrn(s, a[1], a[2]) [] f = "ptrns" -> parse_ptrns(s, a[1], a[2])
      [] f = "exprs" -> parse_ops(s, a[1])       [] f = "decls" -> parse_decls(s, a[1])
      [] f = "lams" -> parse_lams(s, a[1], a[2]) [] f = "operands" -> parse_operands(s, a[1], a[2])
      [] f = "dom" -> parse_dom(s, a[1])         [] f = "doms" -> parse_doms(s, a[1])

\* A module, after its imports, as the value of its last name, if it has one.
Start == [p |-> 0, sc |-> <<<<>>>>, nm |-> <<>>, ok |-> TRUE, r |-> None]
parse_module == LET d == decls(Start, FALSE) IN expect(d, "eof")

Parse == out = <<>> /\ \E s \in {parse_module} : out' = <<s>>
         /\ UNCHANGED <<toks, prog>>

-----------------------------------------------------------------------------
(***************************************************************************)
(* What docs/langref.md says of the modules that are parsed.  A program is a  *)
(* syntax tree, printed with the parentheses that the precedence table asks   *)
(* for; its meaning is the term that the scoping rules give each of its       *)
(* names, whose variables are the levels of their binders.  Or it is a term    *)
(* that dump.cpp displays inline, put into a .let and read back.              *)
(***************************************************************************)

(* Printing. A tree of a lower level than its place demands is parenthesised. *)
Tk(t) == <<[t |-> t, v |-> ""]>>
Id(x) == <<[t |-> "id", v |-> x]>>
Level(e) == CASE e[1] \in {"arrow", "pi", "lm"} -> 1 [] e[1] = "app" -> 2 [] e[1] = "ext" -> 3 [] OTHER -> 4

RECURSIVE PE(_, _), PP(_, _), PSeq(_, _), PDecls(_)
PE(e, l) ==
    LET p == CASE e[1] = "atom" -> Tk(e[2])
               [] e[1] = "id" -> Id(e[2])
               [] e[1] = "lit" -> <<[t |-> "lit", v |-> e[2]]>>
               [] e[1] = "tlit" -> <<[t |-> "lit", v |-> e[2]]>> \o Tk(":") \o PE(e[3], 4)
               [] e[1] = "at" -> Tk("@") \o Id(e[2])
               [] e[1] = "Cn" -> Tk(".Cn") \o PP(e[2], 1)
               [] e[1] = "pack" -> Tk("<") \o PE(e[2], 1) \o Tk(";") \o PE(e[3], 1) \o Tk(">")
               [] e[1] = "par" -> Tk("(") \o PE(e[2], 1) \o Tk(")")
               [] e[1] = "app" -> PE(e[2], 2) \o PE(e[3], 3)
               [] e[1] = "ext" -> PE(e[2], 3) \o Tk("#") \o PE(e[3], 4)
               [] e[1] = "arrow" -> PE(e[2], 2) \o Tk("->") \o PE(e[3], 1)
               [] e[1] = "pi" -> Tk("Pi") \o PP(e[2], 2) \o Tk("->") \o PE(e[3], 1)
               [] e[1] = "sig" -> Tk("[") \o PSeq(e[2], TRUE) \o Tk("]")
               [] e[1] = "tup" -> Tk("(") \o PSeq(e[2], FALSE) \o Tk(")")
               [] e[1] = "arr" -> Tk("<<") \o Id(e[2]) \o Tk(":") \o PE(e[3], 1) \o Tk(";") \o PE(e[4], 1) \o Tk(">>")
               [] e[1] = "lm" -> Tk(".lm") \o FlattenSeq([i \in DOMAIN e[2] |-> PP(e[2][i], 2)])
                                 \o Tk("->") \o PE(e[3], 1) \o Tk("=") \o PE(e[4], 1)
               [] e[1] = "block" -> Tk("{") \o PDecls(e[2]) \o PE(e[3], 1) \o Tk("}")
    IN IF Level(e) < l THEN Tk("(") \o p \o Tk(")") ELSE p
PP(p, l) ==
    CASE p[1] = "x" -> Id(p[2]) \o Tk(":") \o PE(p[3], l)
      [] p[1] = "e" -> PE(p[2], l)
      [] p[1] = "n" -> Id(p[2])
      [] p[1] = "g" -> FlattenSeq([i \in DOMAIN p[2] |-> Id(p[2][i])]) \o Tk(":") \o PE(p[3], 1)
      [] p[1] = "t" -> (IF p[2] = "_" THEN <<>> ELSE Id(p[2]) \o Tk("::"))
                       \o Tk(p[3]) \o PSeq(p[4], TRUE) \o Tk(Delim[p[3]])
PSeq(es, named) ==
    FlattenSeq([i \in DOMAIN es |-> (IF i = 1 THEN <<>> ELSE Tk(",")) \o (IF named THEN PP(es[i], 1) ELSE PE(es[i], 1))])
PDecls(ds) ==
    FlattenSeq([i \in DOMAIN ds |->
        LET d == ds[i]
        IN CASE d[1] = "let" -> Tk(".let") \o PP(d[2], 1) \o Tk("=") \o PE(d[3], 1) \o Tk(";")
             [] d[1] = "lam" -> Tk(".lam") \o Id(d[2]) \o FlattenSeq([j \in DOMAIN d[3] |-> PP(d[3][j], 2)])
                                \o Tk("->") \o PE(d[4], 1) \o Tk("=") \o PE(d[5], 1) \o Tk(";")
             [] d[1] = "nom" ->
                    LET sg == d[2] = "Sigma"
                        ops == IF sg THEN Tk("{") \o PE(d[4], 1) \o Tk(",") \o PE(d[5], 1) \o Tk("}") ELSE PE(d[5], 1)
                    IN Tk("." \o d[2]) \o Id(d[3]) \o Tk(",") \o (IF sg THEN <<[t |-> "lit", v |-> "2"]>> ELSE PE(d[4], 1))
                       \o (IF d[6] THEN Tk(";") \o Tk(".def") \o Id(d[3]) ELSE <<>>) \o Tk("=") \o ops \o Tk(";")])

(* Meaning. env gives each visible name a term (d), with the names of the     *)
(* fields of its type, or the tree it abbreviates and where that is (c).      *)
Bad == <<"bad">>
Mk(k, a, b) == IF a = Bad \/ b = Bad THEN Bad ELSE <<k, a, b>>
MkSeq(k, ts) == IF \E i \in DOMAIN ts : ts[i] = Bad THEN Bad ELSE IF Len(ts) = 1 THEN ts[1] ELSE <<k, ts>>
Proj(t, n, i) == IF n = 1 THEN t ELSE extract(t, <<"lit", i - 1>>)
Bound(t, fs) == [k |-> "d", d |-> t, f |-> fs, env |-> <<>>]
Abbrev(e, env) == [k |-> "c", d |-> e, f |-> <<>>, env |-> env]

\* A group is as many named patterns.
Ungrouped(ps) == FlattenSeq([i \in DOMAIN ps |-> IF ps[i][1] # "g" THEN <<ps[i]>>
                                                 ELSE [j \in DOMAIN ps[i][2] |-> <<"x", ps[i][2][j], ps[i][3]>>]])
NameOf(p) == IF p[1] = "e" THEN "_" ELSE p[2]
Fields(e) == IF e[1] = "sig" /\ Len(e[2]) > 1 THEN [i \in DOMAIN e[2] |-> NameOf(e[2][i])] ELSE <<>>

RECURSIVE BoundNames(_), Binds(_, _)
\* The names a pattern binds, in order; what they are when the pattern is bound to the term t.
BoundNames(p) == (IF NameOf(p) = "_" THEN <<>> ELSE <<NameOf(p)>>)
                 \o (IF p[1] = "t" THEN LET q == Ungrouped(p[4]) IN FlattenSeq([i \in DOMAIN q |-> BoundNames(q[i])]) ELSE <<>>)
Binds(p, t) ==
    LET q == Ungrouped(p[4])
        here == IF NameOf(p) = "_" THEN <<>> ELSE NameOf(p) :> Bound(t, IF p[1] = "x" THEN Fields(p[3]) ELSE <<>>)
        sub == [i \in DOMAIN q |-> Binds(q[i], Proj(t, Len(q), i))]
    IN IF p[1] # "t" THEN here ELSE FoldLeft(LAMBDA f, g : g @@ f, here, sub)
Twice(p) == Len(BoundNames(p)) # Cardinality({BoundNames(p)[i] : i \in DOMAIN BoundNames(p)})

RECURSIVE Denote(_, _, _, _)
\* What follows calls itself through Denote: TermOf is a call of Den, and so on.
TermOf(e, env, n)     == Denote("term", e, env, n)
TypeOfPtrn(p, env, n) == Denote("ptrn", p, env, n)
NomOf(d, env, n)      == Denote("nom", d, env, n)
PiOf(ps, c, env, n)   == Denote("pi", <<ps, c>>, env, n)
LamOf(ps, c, b, env, n, f) == Denote("lam", <<ps, c, b, f>>, env, n)
EnvOf(ds, env, own, n)     == Denote("decls", <<ds, own>>, env, n)
Lookup(env, x, n) ==
    IF x \notin DOMAIN env THEN Bad
    ELSE IF env[x].k = "d" THEN env[x].d
    ELSE IF env[x].d[1] = "nom" THEN NomOf(env[x].d, env[x].env, n)
    ELSE IF env[x].d[1] = "lamdecl" THEN LamOf(env[x].d[3], env[x].d[4], env[x].d[5], env[x].env, n, env[x].d[2])
    ELSE TermOf(env[x].d, env[x].env, n)
Den(e, env, n) ==
    CASE e[1] = "atom" -> e
      [] e[1] = "id" -> Lookup(env, e[2], n)
      [] e[1] = "lit" -> <<"lit", Index[e[2]]>>
      [] e[1] = "tlit" -> LET t == TermOf(e[3], env, n) IN IF t = Bad THEN Bad ELSE <<"tlit", Index[e[2]], t>>
      [] e[1] = "at" -> LET t == Lookup(env, e[2], n) IN IF t[1] = "rec" THEN <<"var", t[2]>> ELSE Bad
      [] e[1] = "Cn" -> Mk("pi", TypeOfPtrn(e[2], env, n), <<"bot">>)
      [] e[1] = "pack" -> Mk("pack", TermOf(e[2], env, n), TermOf(e[3], env, n + 1))
      [] e[1] = "par" -> TermOf(e[2], env, n)
      [] e[1] = "app" -> Mk("app", TermOf(e[2], env, n), TermOf(e[3], env, n))
      [] e[1] = "arrow" -> Mk("pi", TermOf(e[2], env, n), TermOf(e[3], env, n + 1))
      [] e[1] = "ext" ->
            LET fs == IF e[2][1] = "id" /\ e[2][2] \in DOMAIN env THEN env[e[2][2]].f ELSE <<>>
                at == {i \in DOMAIN fs : e[3][1] = "id" /\ fs[i] = e[3][2]}
                t == TermOf(e[2], env, n)    i == TermOf(e[3], env, n)
            IN IF e[3][1] = "id" /\ fs # <<>>
               THEN IF at = {} THEN Bad ELSE extract(t, <<"lit", Min(at) - 1>>)
               ELSE IF t = Bad \/ i = Bad THEN Bad ELSE extract(t, i)
      [] e[1] = "tup" -> MkSeq("tuple", [i \in DOMAIN e[2] |-> TermOf(e[2][i], env, n)])
      [] e[1] = "sig" -> TypeOfPtrn(<<"t", "_", "[", e[2]>>, env, n)
      [] e[1] = "arr" -> Mk("arr", TermOf(e[3], env, n), TermOf(e[4], (e[2] :> Bound(<<"var", n + 1>>, <<>>)) @@ env, n + 1))
      [] e[1] = "pi" -> IF Twice(e[2]) THEN Bad
                        ELSE Mk("pi", TypeOfPtrn(e[2], env, n), TermOf(e[3], Binds(e[2], <<"var", n + 1>>) @@ env, n + 1))
      [] e[1] = "lm" -> LamOf(e[2], e[3], e[4], env, n, "_")
      [] e[1] = "block" -> LET r == EnvOf(e[2], env, {}, n) IN IF r = Bad THEN Bad ELSE TermOf(e[3], r[2], n)
\* The type of what a pattern binds: of a tuple a sigma, in which each element sees those before it.
DenP(p, env, n) ==
    IF p[1] = "x" THEN TermOf(p[3], env, n)
    ELSE IF p[1] = "e" THEN TermOf(p[2], env, n)
    ELSE LET q == Ungrouped(p[4])
             sees(i) == FoldLeft(LAMBDA f, j : Binds(q[j], Proj(<<"var", n + 1>>, Len(q), j)) @@ f, env,
                                 [j \in 1..(i - 1) |-> j])
         IN IF Len(q) = 1 THEN TypeOfPtrn(q[1], env, n)
            ELSE MkSeq("sigma", [i \in DOMAIN q |-> TypeOfPtrn(q[i], sees(i), n + 1)])
\* A nominal may refer to itself, but in the operand that its declaration needs.
DenNom(d, env, n) ==
    LET self == (d[3] :> Bound(<<"rec", n + 1>>, <<>>)) @@ env
    IN IF d[2] = "Sigma" THEN LET t == MkSeq("sigma", <<TermOf(d[4], self, n + 1), TermOf(d[5], self, n + 1)>>)
                              IN IF t = Bad THEN Bad ELSE <<"Sigma", t>>
       ELSE Mk(IF d[2] = "Pi" THEN "pi" ELSE "arr", TermOf(d[4], env, n), TermOf(d[5], self, n + 1))
\* The type of a curried lambda, and the lambda itself; f is its name, for recursion.
DenPi(ps, c, env, n) ==
    IF ps = <<>> THEN TermOf(c, env, n)
    ELSE Mk("pi", TypeOfPtrn(ps[1], env, n), PiOf(Tail(ps), c, Binds(ps[1], <<"var", n + 1>>) @@ env, n + 1))
DenLam(ps, c, b, env, n, f) ==
    LET inner == Binds(ps[1], <<"var", n + 1>>) @@ (IF f = "_" THEN <<>> ELSE f :> Bound(<<"rec", n + 1>>, <<>>)) @@ env
        names == FlattenSeq([i \in DOMAIN ps |-> BoundNames(ps[i])])
    IN IF Len(names) # Cardinality({names[i] : i \in DOMAIN names}) THEN Bad
       ELSE Mk("lam", PiOf(ps, c, env, n),
               IF Len(ps) = 1 THEN TermOf(b, inner, n + 1) ELSE LamOf(Tail(ps), c, b, inner, n + 1, "_"))
\* <<"env", e>> for the names that are visible behind the declarations; own are those of this scope.
DenDecls(ds, env, own, n) ==
    IF ds = <<>> THEN <<"env", env>>
    ELSE LET d == Head(ds)
             names == CASE d[1] = "let" -> BoundNames(d[2]) [] d[1] = "lam" -> <<d[2]>> [] d[1] = "nom" -> <<d[3]>>
             t == CASE d[1] = "let" -> TermOf(d[3], env, n)
                    [] d[1] = "lam" -> LamOf(d[3], d[4], d[5], env, n, d[2])
                    [] d[1] = "nom" -> NomOf(d, env, n)
             new == CASE d[1] = "let" /\ d[2][1] = "n" -> d[2][2] :> Abbrev(d[3], env)
                      [] d[1] = "let" /\ d[2][1] # "n" ->
                            FoldLeft(LAMBDA f, i : (NameOf(d[2][4][i]) :> Abbrev(<<"ext", <<"par", d[3]>>, <<"lit", ToString(i - 1)>>>>, env)) @@ f,
                                     <<>>, [i \in DOMAIN d[2][4] |-> i])
                      [] d[1] = "lam" -> d[2] :> Abbrev(<<"lamdecl", d[2], d[3], d[4], d[5]>>, env)
                      [] d[1] = "nom" -> d[3] :> Abbrev(d, env)
         IN IF t = Bad \/ (\E i \in DOMAIN names : names[i] \in own)
               \/ Len(names) # Cardinality({names[i] : i \in DOMAIN names}) THEN Bad
            ELSE EnvOf(Tail(ds), new @@ env, own \cup {names[i] : i \in DOMAIN names}, n)

Denote(k, e, env, n) ==
    CASE k = "term" -> Den(e, env, n) [] k = "ptrn" -> DenP(e, env, n) [] k = "nom" -> DenNom(e, env, n)
      [] k = "pi" -> DenPi(e[1], e[2], env, n) [] k = "lam" -> DenLam(e[1], e[2], e[3], env, n, e[4])
      [] k = "decls" -> DenDecls(e[1], env, e[2], n)

RECURSIVE Norm(_, _, _)
\* The term of a definition: st are the nominals around it, 0 for a binder without a variable.
Norm(nm, d, st) ==
    LET g == d[2]
        rec(x) == Norm(nm, x, st)
        under(x, h) == Norm(nm, x, Append(st, h))
        where(h) == IF \E i \in DOMAIN st : st[i] = h THEN Max({i \in DOMAIN st : st[i] = h}) ELSE 0
    IN CASE d[1] \in {"atom", "lit", "ff", "tt", "bot"} -> d
         [] d[1] = "none" -> <<"hole">>
         [] d[1] = "tlit" -> <<"tlit", g, rec(d[3])>>
         [] d[1] = "app" -> <<"app", rec(g), rec(d[3])>>
         [] d[1] = "ext" -> extract(rec(g), rec(d[3]))
         [] d[1] = "tuple" -> <<"tuple", [i \in DOMAIN g |-> rec(g[i])]>>
         [] d[1] = "sigma" -> <<"sigma", [i \in DOMAIN g |-> under(g[i], 0)]>>
         [] d[1] = "pi" -> <<"pi", rec(g), under(d[3], 0)>>
         [] d[1] \in {"arr", "pack"} -> <<d[1], rec(g), under(d[3], 0)>>
         [] d[1] = "var" -> IF where(g) = 0 THEN <<"free", nm[g].k>> ELSE <<"var", where(g)>>
         [] d[1] = "nom" /\ nm[g].k = "Infer" -> rec(nm[g].ops[1])
         [] d[1] = "nom" /\ nm[g].k # "Infer" ->
               IF where(g) # 0 THEN <<"rec", where(g)>>
               ELSE LET o == nm[g].ops
                    IN CASE nm[g].k = "Pi" -> <<"pi", rec(o[1]), under(o[2], g)>>
                         [] nm[g].k = "Arr" -> <<"arr", rec(o[1]), under(o[2], g)>>
                         [] nm[g].k = "Lam" -> <<"lam", rec(o[1]), under(o[3], g)>>
                         [] nm[g].k = "Sigma" -> IF nm[g].fields = <<>> THEN <<"Sigma", <<"sigma", [i \in DOMAIN o |-> under(o[i], g)]>>>>
                                                 ELSE <<"sigma", [i \in DOMAIN o |-> under(o[i], g)]>>

RECURSIVE Outer(_)
\* Without the types of the lambdas that are the bodies of lambdas: those of curried ones.
Outer(t) ==
    CASE t[1] = "lam" -> LET b == Outer(t[3]) IN <<"lam", t[2], IF b[1] = "lam" THEN <<"lam", None, b[3]>> ELSE b>>
      [] t[1] \in {"app", "pi", "arr", "ext"} -> <<t[1], Outer(t[2]), Outer(t[3])>>
      [] t[1] \in {"tuple", "sigma"} -> <<t[1], [i \in DOMAIN t[2] |-> Outer(t[2][i])]>>
      [] OTHER -> t

Wanted == EnvOf(prog.tree, <<>>, {}, 0)
Agree(View(_)) ==
    \A i \in DOMAIN out :
        IF Wanted = Bad THEN ~out[i].ok
        ELSE /\ out[i].ok
             /\ Len(out[i].sc) = 1
             /\ DOMAIN out[i].sc[1] = DOMAIN Wanted[2]
             /\ \A x \in DOMAIN out[i].sc[1] :
                    View(Norm(out[i].nm, out[i].sc[1][x], <<>>)) = View(Lookup(Wanted[2], x, 0))


\* A module is accepted exactly if docs/langref.md gives every name in it a meaning, and then each
\* of its names stands for what the precedences and the scopes there say it stands for: operators
\* group as tabulated, and every name refers to the innermost binder around it (Scopes::find,
\* Scopes::bind, the swap of the two scopes of a lambda in parse_lam).
Meaning == Agree(Outer)

\* The same, with the types of the inner lambdas of a curried one, whose domains should mention the
\* variables of the lambdas around them.
InnerTypes == LET Same(t) == t IN Agree(Same)

-----------------------------------------------------------------------------
(* How dump.cpp displays a definition inline (operator<< of Inline, LRPrec), as      *)
(* tokens. <<"name", x>> is a definition that is referenced by its name; an         *)
(* application is one that is displayed inline: its type is a Pi or a universe, or  *)
(* its callee an axiom.                                                           *)
prec(d) == CASE d[1] = "pi" -> Arrow [] d[1] = "app" -> App [] d[1] = "ext" -> Extract
             [] d[1] \in {"lit", "tlit"} -> LitP [] OTHER -> Bot
IsInline(d) == d[1] # "name"

RECURSIVE Stream(_), Streams(_)
Parens(s) == Tk("(") \o s \o Tk(")")

LPrec(l, r) == IF IsInline(l) /\ PrecL[prec(r)] > prec(r) THEN Parens(Stream(l)) ELSE Stream(l)
RPrec(l, r) == IF IsInline(r) /\ prec(l) > PrecR[prec(l)] THEN Parens(Stream(r)) ELSE Stream(r)

Streams(ds) == FlattenSeq([i \in DOMAIN ds |-> (IF i = 1 THEN <<>> ELSE Tk(",")) \o Stream(ds[i])])
Stream(d) ==
    CASE d[1] = "name" -> Id(d[2])
      [] d[1] = "atom" -> Tk(d[2])
      [] d[1] = "lit" -> <<[t |-> "lit", v |-> ToString(d[2])]>>
      [] d[1] = "tlit" -> <<[t |-> "lit", v |-> ToString(d[2])]>> \o Tk(":") \o (IF d[3][1] = "app" THEN Parens(Stream(d[3])) ELSE Stream(d[3]))
      [] d[1] = "ext" -> Stream(d[2]) \o Tk("#") \o Stream(d[3])
      [] d[1] = "pi" -> IF d[3] = <<"bot">> THEN Tk(".Cn") \o Stream(d[2])
                        ELSE Tk("Pi") \o Stream(d[2]) \o Tk("->") \o Stream(d[3])
      [] d[1] = "app" -> LPrec(d[2], d) \o RPrec(d, d[3])
      [] d[1] = "sigma" -> Tk("[") \o Streams(d[2]) \o Tk("]")
      [] d[1] = "tuple" -> Parens(Streams(d[2]))
      [] d[1] = "arr" -> Tk("<<") \o Stream(d[2]) \o Tk(";") \o Stream(d[3]) \o Tk(">>")
      [] d[1] = "pack" -> Tk("<") \o Stream(d[2]) \o Tk(";") \o Stream(d[3]) \o Tk(">")

Atom == [x \in {"a", "b"} |-> IF x = "a" THEN <<"atom", ".Nat">> ELSE <<"atom", "*">>]
Prelude == Tk(".let") \o Id("a") \o Tk("=") \o Tk(".Nat") \o Tk(";") \o Tk(".let") \o Id("b") \o Tk("=") \o Tk("*") \o Tk(";")

\* What groups alone: names, literals and what has delimiters.
Atomic(t) == t[1] \notin {"app", "ext", "pi"}
RECURSIVE NoParens(_)
\* No application, extract or function type where parentheses would be needed around it.
NoParens(t) ==
    CASE t[1] \in {"name", "lit", "bot"} -> TRUE
      [] t[1] = "tlit" -> (t[3][1] = "app" \/ Atomic(t[3])) /\ NoParens(t[3])
      [] t[1] = "app" -> t[2][1] # "pi" /\ t[3][1] \notin {"app", "pi"} /\ NoParens(t[2]) /\ NoParens(t[3])
      [] t[1] = "ext" -> t[2][1] \notin {"app", "pi"} /\ Atomic(t[3]) /\ NoParens(t[2]) /\ NoParens(t[3])
      [] t[1] = "pi" -> t[2][1] # "pi" /\ NoParens(t[2]) /\ NoParens(t[3])
      [] t[1] \in {"sigma", "tuple"} -> \A i \in DOMAIN t[2] : NoParens(t[2][i])
      [] t[1] \in {"arr", "pack"} -> NoParens(t[2]) /\ NoParens(t[3])

RECURSIVE Meant(_), Read(_, _)
Meant(t) ==
    CASE t[1] = "name" -> Atom[t[2]]
      [] t[1] \in {"lit", "bot"} -> t
      [] t[1] = "tlit" -> <<"tlit", t[2], Meant(t[3])>>
      [] t[1] = "ext" -> extract(Meant(t[2]), Meant(t[3]))
      [] t[1] \in {"app", "pi", "arr", "pack"} -> <<t[1], Meant(t[2]), Meant(t[3])>>
      [] t[1] \in {"sigma", "tuple"} -> <<t[1], [i \in DOMAIN t[2] |-> Meant(t[2][i])]>>
\* The parser makes a nominal of each Pi.
Read(nm, t) ==
    CASE t[1] = "nom" -> <<"pi", Read(nm, nm[t[2]].ops[1]), Read(nm, nm[t[2]].ops[2])>>
      [] t[1] \in {"lit", "bot", "atom"} -> t
      [] t[1] = "tlit" -> <<"tlit", t[2], Read(nm, t[3])>>
      [] t[1] \in {"app", "pi", "arr", "pack", "ext"} -> <<t[1], Read(nm, t[2]), Read(nm, t[3])>>
      [] t[1] \in {"sigma", "tuple"} -> <<t[1], [i \in DOMAIN t[2] |-> Read(nm, t[2][i])]>>

\* What is displayed inline is read again as the same definition (LRPrec, Tok::prec and parse_infix_expr
\* have to agree on who needs parentheses).
ReadBack == \A i \in DOMAIN out : out[i].ok /\ Read(out[i].nm, out[i].sc[1]["r"]) = Meant(prog.tree)

-----------------------------------------------------------------------------
Init ==
    /\ out = <<>>
    /\ \/ \E ds \in Programs : prog = [kind |-> "module", tree |-> ds] /\ toks = PDecls(ds)
       \/ \E t \in Terms : /\ prog = [kind |-> "term", tree |-> t]
                          /\ toks = Prelude \o Tk(".let") \o Id("r") \o Tk("=") \o Stream(t) \o Tk(";")
Next == Parse
Spec == Init /\ [][Next]_<<prog, toks, out>>
=============================================================================
