-------------------------------- MODULE Dump --------------------------------
(* The dumper of dump.cpp, driven by the tree of nominals (DepTree): the order *)
(* in which it emits the declaration of each nominal and a .let for each       *)
(* definition that is not displayed inline. A definition has its operands in   *)
(* ops, the ones that print it; kind "lam" is a nominal that is a declaration, *)
(* "app" is referenced by its name, everything else is displayed inline. The   *)
(* text is a list of events, each with the blocks around it (at) and what it   *)
(* mentions by name.                                                           *)
EXTENDS Integers, Sequences, FiniteSets, FiniteSetsExt, SequencesExt

CONSTANTS Defs, Root,
          kind, var,   \* of each definition: its kind; whose variable it is
          Graphs       \* the operands of the definitions of the worlds that are dumped
VARIABLES ops, text

IsDecl(d) == kind[d] = "lam"
Inline(d) == kind[d] # "app"

RECURSIVE Free(_, _)
\* The nominals whose variables a definition depends on; the variable of l has var[.] = l.
Free(d, seen) ==
    IF kind[d] = "var" THEN {var[d]}
    ELSE IF d \in seen THEN {}
    ELSE UNION {Free(ops[d][i], seen \cup {d}) : i \in DOMAIN ops[d]} \ {d}
Lams == {d \in Defs : IsDecl(d)}
Around == [l \in Lams |-> Free(l, {})]
\* The innermost of them is the parent in the tree.
Parent == [l \in Lams |-> IF Around[l] = {} THEN Root ELSE CHOOSE p \in Around[l] : Around[l] \ {p} \subseteq Around[p]]
Children(l) == SetToSortSeq({c \in Lams : Parent[c] = l /\ c # l}, <)

RECURSIVE Mentions(_)
\* What the operands of d are called when d is displayed with all of its operands.
Mentions(d) ==
    UNION {LET o == ops[d][i] IN IF IsDecl(o) \/ ~Inline(o) THEN {o} ELSE Mentions(o) : i \in DOMAIN ops[d]}

Emit(s, what, d, names) == [s EXCEPT !.text = Append(@, [what |-> what, def |-> d, at |-> s.at, names |-> names])]
dump_let(s, d) == Emit(s, "let", d, Mentions(d))

RECURSIVE recurse(_, _, _), recurseOps(_, _, _), dump(_, _), dumpAll(_, _)
\* s.defs: what was visited before, by whichever nominal. first: the body itself gets no .let.
recurse(s, d, first) ==
    IF IsDecl(d) \/ d \in s.defs THEN s
    ELSE LET t == recurseOps([s EXCEPT !.defs = @ \cup {d}], d, 1)
         IN IF ~first /\ ~Inline(d) THEN dump_let(t, d) ELSE t
recurseOps(s, d, i) == IF i > Len(ops[d]) THEN s ELSE recurseOps(recurse(s, ops[d][i], FALSE), d, i + 1)

\* The children first, then what the body needs, then the body.
dump(s, l) ==
    LET body == ops[l][1]
        o == [Emit(s, "decl", l, {}) EXCEPT !.at = Append(@, l)]
        r == recurse(dumpAll(o, Children(l)), body, TRUE)
        b == Emit(r, "body", body, IF IsDecl(body) THEN {body} ELSE Mentions(body))
    IN [b EXCEPT !.at = s.at]
dumpAll(s, ls) == IF ls = <<>> THEN s ELSE dumpAll(dump(s, Head(ls)), Tail(ls))

\* World::dump: the children of the root.
Dumped == dumpAll([at |-> <<>>, defs |-> {}, text |-> <<>>],
                  SetToSortSeq({c \in Lams : Around[c] = {}}, <))
Dump == text = <<>> /\ \E s \in {Dumped} : text' = s.text
        /\ UNCHANGED ops

Init == ops \in Graphs /\ text = <<>>
Next == Dump
Spec == Init /\ [][Next]_<<ops, text>>
-----------------------------------------------------------------------------
Visible(i, j) == IsPrefix(text[i].at, text[j].at)

\* Every application that the text calls by its name was given it by a .let before, in a block
\* around (Dumper::recurse and the set of visited definitions it shares among all nominals).
LetBeforeUse ==
    \A j \in DOMAIN text : \A d \in text[j].names :
        kind[d] = "app" => \E i \in 1..(j - 1) : text[i].what = "let" /\ text[i].def = d /\ Visible(i, j)

\* Every nominal is declared exactly once, inside the blocks of all nominals whose variables it
\* depends on (Dumper::recurse on the tree), and nothing gets two names.
DeclaredOnce ==
    text # <<>> =>
        /\ \A l \in Lams : \E i \in DOMAIN text : text[i].what = "decl" /\ text[i].def = l
                                                  /\ Around[l] \subseteq {text[i].at[k] : k \in DOMAIN text[i].at}
        /\ \A i, j \in DOMAIN text : text[i].what = text[j].what /\ text[i].def = text[j].def /\ text[i].what # "body" => i = j

\* Every lambda that the text mentions was declared before or is the one being defined, so that the
\* text can be read again from the top.
DeclBeforeUse ==
    \A j \in DOMAIN text : \A d \in text[j].names :
        IsDecl(d) => \E i \in 1..(j - 1) : text[i].what = "decl" /\ text[i].def = d /\ Visible(i, j)
=============================================================================
