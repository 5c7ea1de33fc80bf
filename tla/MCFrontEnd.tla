----------------------------- MODULE MCFrontEnd -----------------------------
(***************************************************************************)
(* The front end: importing, which this module extends, UTF-8, the lexer and   *)
(* its Markdown output, the parser, the display of definitions and of whole   *)
(* modules, the names and the declarations of axioms, and BitSet.  Each part  *)
(* runs by itself on small inputs.  The inputs named below as witnesses show what is reported in the  *)
(* README under "Known divergences"; everywhere else the properties hold.     *)
(***************************************************************************)
EXTENDS Imports, TLC

CONSTANT Scale     \* bound: how long the inputs are that are enumerated

VARIABLES part, s1, s2, s3, s4, s5, s6, s7

others  == <<s1, s2, s3, s4, s5, s6, s7>>
allVars == <<part, vars, others>>
idle == "idle"

-----------------------------------------------------------------------------
(* Characters on both sides of every boundary, and files of bytes.                *)
MCChars == {0, 65, 127, 128, 955, 2047, 2048, 8226, 65279, 65535, 65536, 1114111}
Bytes   == {65, 127, 128, 191, 194, 206, 223, 224, 239, 240, 243}
TooHigh == <<247, 191, 191, 191>>
MCFiles == {<<a, b>> : a, b \in Bytes} \cup {<<a, b, c>> : a, b, c \in Bytes}
           \cup {<<a, b, c, d>> : a \in {224, 239, 240, 243}, b, c \in Bytes \ {194, 206, 223}, d \in {65, 191}}
           \cup {TooHigh}

Wr == INSTANCE Utf8 WITH Files <- {<<>>}, Chars <- MCChars, MaxLen <- 2, is <- s1, os <- s2, put <- s3, got <- s4
R == INSTANCE Utf8 WITH Files <- MCFiles, Chars <- {}, MaxLen <- 4, is <- s1, os <- s2, put <- s3, got <- s4

-----------------------------------------------------------------------------
(* Texts.                                                                        *)
Upto(n, cs) == UNION {[1..k -> cs] : k \in 0..n}
Numbers == Upto(Scale, {"0", "1", ".", "e", "-", "_", "sub1"})
Bases   == {<<"0">> \o w : w \in Upto(Scale, {"b", "o", "x", "2", "1", "p", "."})}
           \cup {<<"-", "0", "x">> \o w : w \in Upto(3, {"1", "p", "."})}
Symbols == Upto(Scale - 1, {"a", ".", "<", ">", ":", "-", "|", "~", "%", "(", "lm"})
Spaces  == Upto(Scale, {"/", "*", "nl", "a", " "})
Mds     == Upto(Scale + 1, {"/", "nl", "a", " "})
HexInt    == <<"0", "x", "a">>
MinusZero == <<"-", "0">>
NoDigits  == <<"0", "b">>
MinusOne  == <<"-", "1">>
NoNewline == <<"a", "/", "/", "/", "b", "nl">>

L == INSTANCE Lexer WITH Inputs <- Numbers \cup Bases \cup Symbols \cup Spaces \cup {HexInt, MinusZero, NoDigits, MinusOne},
                         MdInputs <- Mds \cup {NoNewline}, file <- s1, lexer <- s2, toks <- s3

-----------------------------------------------------------------------------
(* Programs: trees of the operators, and scopes of every kind.                     *)
x1 == <<"id", "a">>
y1 == <<"id", "b">>
TNat == <<"atom", ".Nat">>
Star == <<"atom", "*">>
L1 == <<"lit", "1">>
Let(x, e) == <<"let", <<"n", x>>, e>>
Binary(S, T) == {<<k, s, t>> : k \in {"app", "ext", "arrow"}, s \in S, t \in T}

E0 == {x1, L1}
Ops1 == Binary(E0, E0) \cup {<<"tlit", "0", TNat>>}
Ops2 == Binary(E0, Ops1) \cup Binary(Ops1, E0) \cup {<<"tlit", "0", e>> : e \in Ops1}
Ops3 == Binary({x1}, Ops2) \cup Binary(Ops2, {x1}) \cup Binary(Ops1, Ops1)
        \cup {<<"pi", <<"x", "b", e>>, f>> : e \in Ops1, f \in Ops1}
        \cup {<<k, <<"pi", <<"x", "b", TNat>>, e>>, f>> : k \in {"app", "arrow", "ext"}, e \in Ops1, f \in E0}
        \cup {<<k, f, <<"pi", <<"x", "b", TNat>>, e>>>> : k \in {"app", "arrow", "ext"}, e \in Ops1, f \in E0}
        \cup {<<"sig", <<<<"e", e>>, <<"x", "b", f>>>>>> : e \in Ops1, f \in Ops1}
        \cup {<<"lm", <<<<"x", "b", e>>>>, f, y1>> : e \in Ops1, f \in Ops1}
        \cup {<<k, <<"lm", <<<<"x", "b", TNat>>>>, TNat, e>>, x1>> : k \in {"app", "arrow", "ext"}, e \in E0}

Leaf == {x1, y1, TNat}
Ptrn(d) == {<<"x", "a", Star>>, <<"x", "b", x1>>}
           \cup {<<"t", "_", d, <<p, q>>>> : p \in {<<"x", "a", Star>>, <<"x", "b", Star>>}, q \in {<<"x", "a", y1>>, <<"x", "b", x1>>}}
           \cup {<<"t", x, d, <<<<"x", "b", Star>>, <<"x", "_", e>>>>>> : x \in {"_", "a"}, e \in Leaf}
           \cup {<<"t", "_", d, <<<<"t", "a", "[", <<<<"x", "b", Star>>, <<"e", y1>>>>>>, <<"x", "_", e>>>>>> : e \in Leaf}
Under == Leaf \cup {<<"ext", x1, L1>>, <<"app", x1, y1>>, <<"pi", <<"x", "a", y1>>, x1>>, <<"block", <<Let("a", y1)>>, x1>>,
          <<"arr", "a", y1, x1>>, <<"sig", <<<<"x", "b", x1>>, <<"e", y1>>>>>>}
One(p) == <<"t", "_", "(", <<p>>>>
Lams == {<<"lm", <<p>>, e, f>> : p \in Ptrn("(") \cup Ptrn("["), e \in Leaf, f \in Under}
Scoped == {<<"pi", p, e>> : p \in Ptrn("["), e \in Under}
          \cup Lams
          \cup {<<"lm", <<One(p), One(<<"x", "b", e>>)>>, f, <<"app", x1, y1>>>> : p \in {<<"x", "a", Star>>, <<"x", "_", Star>>}, e \in Leaf, f \in Leaf}
          \cup {<<"block", <<d, c>>, e>> : d \in {Let("b", x1), Let("a", TNat)}, c \in {Let("b", y1), Let("a", y1)}, e \in Leaf}
          \cup {<<"block", <<<<"lam", "b", <<p>>, TNat, f>>>>, e>> : p \in Ptrn("("), f \in Leaf, e \in {x1, y1}}
          \cup {<<"block", <<<<"let", <<"t", "_", "(", <<<<"n", "a">>, <<"n", "b">>>>>>, e>>>>, <<"tup", <<y1, x1>>>>>>
                  : e \in {<<"tup", <<TNat, x1>>>>, x1}}
          \cup {<<"block", <<<<"nom", k, "b", e, f, split>>>>, y1>>
                  : k \in {"Sigma", "Pi", "Arr"}, e \in Leaf \cup {<<"at", "b">>}, f \in Under \cup {<<"at", "b">>}, split \in BOOLEAN}
          \cup {<<"pack", e, f>> : e \in Leaf, f \in Under} \cup {<<"Cn", p>> : p \in Ptrn("[")}

\* docs/langref.md, Field Names of Sigmas: the example, with a dependent sigma as well.
FieldsOf(t) == {<<"pi", <<"x", "X", <<"sig", <<<<"x", "i", Star>>, <<"x", "j", t>>>>>>>>, <<"ext", <<"id", "X">>, i>>>>
                  : i \in {<<"id", "i">>, <<"par", <<"id", "i">>>>, <<"id", "j">>}}

AllPrograms ==
    {<<Let("a", TNat), Let("r", e)>> : e \in Ops1 \cup Ops2 \cup Ops3 \cup Scoped}
    \cup {<<Let("b", Star), Let("i", L1), Let("r", e)>> : e \in FieldsOf(<<"id", "i">>) \cup Scoped}
    \cup {<<Let("i", L1), Let("r", e)>> : e \in {f \in FieldsOf(TNat) : f[3][3][1] = "par"}}
\* The field of a tuple that is a pattern, a group of names, a tuple in a tuple, a tuple of one, and a curried lambda.
FieldPrograms == {<<Let("i", L1), Let("r", e)>> : e \in {f \in FieldsOf(TNat) : f[3][3][1] = "id"}}
GroupPrograms == {<<Let("r", <<"lm", <<<<"t", "_", "(", <<<<"g", <<"a", "b">>, Star>>, <<"x", "c", e>>>>>>>>, TNat, <<"id", "c">>>>)>> : e \in {x1}}
NestPrograms  == {<<Let("r", <<"pi", <<"t", "_", "[", <<<<"t", "_", "[", <<<<"x", "a", Star>>, <<"x", "b", Star>>>>>>, <<"e", e>>>>>>, TNat>>)>> : e \in {x1, y1}}
OnePrograms   == {<<Let("r", <<"lm", <<<<"t", "_", "(", <<<<"t", "b", "[", <<<<"x", "a", Star>>, <<"x", "c", e>>>>>>>>>>>>, TNat, y1>>)>> : e \in {x1}}
CurryPrograms == {<<Let("r", <<"lm", <<One(<<"x", "a", Star>>), One(<<"x", "b", e>>)>>, f, y1>>)>> : e \in {x1}, f \in {TNat}}

(* Terms that are displayed.                                                      *)
na == <<"name", "a">>
nb == <<"name", "b">>
T0 == {na, nb, <<"lit", 1>>}
Flat(S, T) == {<<k, s, t>> : k \in {"app", "ext"}, s \in S, t \in T}
Groups(S) == {<<k, <<s, t>>>> : k \in {"sigma", "tuple"}, s \in S, t \in S} \cup {<<k, s, t>> : k \in {"arr", "pack"}, s \in S, t \in S}
Pis(S, T) == {<<"pi", s, t>> : s \in S, t \in T \cup {<<"bot">>}}

T1 == T0 \cup Flat({na, nb}, T0) \cup Groups({na, nb}) \cup Pis({na, nb}, {na, nb}) \cup {<<"tlit", 0, t>> : t \in {na, <<"app", na, nb>>}}
T2 == T1 \cup Flat(T1, T1) \cup Groups(T1) \cup Pis(T1, T1) \cup {<<"tlit", 0, t>> : t \in T1}
Ambiguous == <<"ext", <<"tuple", <<na, na>>>>, <<"ext", na, nb>>>>

P == INSTANCE Parser
     WITH Programs <- AllPrograms \cup FieldPrograms \cup GroupPrograms \cup NestPrograms \cup OnePrograms \cup CurryPrograms,
          Terms <- T2, prog <- s1, toks <- s2, out <- s3
-----------------------------------------------------------------------------
(* Graphs of three lambdas, 1, 2 and 3, their variables 4, 5 and 6, the applications *)
(* 7, 8 and 10 of a callee to an argument, and the literal 9.                        *)
MCDefs == 1..10
MCKind == [d \in MCDefs |-> CASE d <= 3 -> "lam" [] d \in 4..6 -> "var" [] d \in {7, 8, 10} -> "app" [] d = 9 -> "lit"]
MCVar  == [d \in MCDefs |-> IF d \in 4..6 THEN d - 3 ELSE 0]
DumpGraphs ==
    {[d \in MCDefs |-> CASE d <= 3 -> <<b[d]>> [] d = 7 -> <<f, x>> [] d = 8 -> <<g, y>> [] d = 10 -> <<h, z>> [] OTHER -> <<>>] :
        f \in {3, 4}, x \in {3, 5, 6}, g \in {1, 2, 3, 5}, y \in {3, 6, 7}, h \in {2, 4}, z \in {2, 5, 7, 9},
        b \in {7, 8} \X {5, 7, 10} \X {4, 6, 7, 8}}

U == INSTANCE Dump WITH Defs <- MCDefs, Root <- 0, kind <- MCKind, var <- MCVar, Graphs <- DumpGraphs, ops <- s1, text <- s2

\* Only the root is closed, the blocks nest, and everything is reachable from the root.
Nested == /\ U!Around[1] = {}
          /\ \A l \in U!Lams : \E p \in U!Around[l] \cup {0} : U!Around[l] \ {p} \subseteq (IF p = 0 THEN {} ELSE U!Around[p])
          /\ \A l \in U!Lams : l \notin U!Around[l]
          /\ {1, 2, 3, 7, 8, 10} \subseteq Reach([d \in MCDefs |-> RangeOf(s1[d])], {1})

\* Every application is an operand only in the block of one lambda, and not its body.
UsersOf(d) == {u \in MCDefs : d \in RangeOf(s1[u])}
RECURSIVE Blocks(_, _)
Blocks(d, seen) == UNION {IF u <= 3 THEN {u} ELSE IF u \in seen THEN {} ELSE Blocks(u, seen \cup {d}) : u \in UsersOf(d)}
Tidy == \A d \in {7, 8, 10} : Cardinality(Blocks(d, {})) = 1 /\ (Cardinality(UsersOf(d)) = 1 \/ ~ \E l \in 1..3 : s1[l][1] = d)

(* An application with two users, the first of them not in the block of the second; *)
(* and a lambda that is mentioned before it is declared.                           *)
SharedLet == [d \in MCDefs |-> CASE d = 1 -> <<7>> [] d = 2 -> <<10>> [] d = 3 -> <<8>> [] d = 7 -> <<3, 3>> [] d = 8 -> <<2, 7>>
                                 [] d = 10 -> <<2, 2>> [] OTHER -> <<>>]
LateDecl  == [SharedLet EXCEPT ![8] = <<2, 3>>]
-----------------------------------------------------------------------------
(* Import graphs without cycles over four modules, in every order.  Module 5 does   *)
(* not exist.  Each declares a name of its own; 9 is declared by several.           *)
MCModules  == 1..4
AllModules == 1..5
AllNames   == 1..9
ImportGraphs ==
    {<<a, b, c, <<>>>> : a \in {<<>>, <<2>>, <<3>>, <<2, 3>>, <<3, 2>>, <<2, 4>>, <<4, 3>>, <<2, 3, 4>>, <<4, 2, 3>>, <<3, 4, 2>>, <<2, 2>>},
                          b \in {<<>>, <<3>>, <<4>>, <<3, 4>>, <<4, 3>>}, c \in {<<>>, <<4>>}}
FilesOf(imports, decls) == [m \in MCModules |-> [imports |-> imports[m], decls |-> IF m \in DOMAIN decls THEN decls[m] ELSE <<m>>]]
Input(imports, decls, dialects) == [files |-> FilesOf(imports, decls), dialects |-> dialects]

Diamond  == Input(<<<<3, 2>>, <<3>>, <<>>, <<>>>>, <<>>, <<>>)
Faulty   == {<<<<5>>, <<>>, <<>>, <<>>>>, <<<<2, 3>>, <<4>>, <<5>>, <<>>>>, <<<<2>>, <<3>>, <<2>>, <<>>>>, <<<<3, 2>>, <<2>>, <<>>, <<>>>>, <<<<1>>, <<>>, <<>>, <<>>>>}
Shared   == {3 :> <<3, 9>> @@ 4 :> <<9>>, 2 :> <<2, 9>> @@ 4 :> <<9, 4>>, 1 :> <<9>> @@ 4 :> <<9, 4>>, 2 :> <<2, 2>>}
ImportInputs ==
    {Input(i, <<>>, <<>>) : i \in ImportGraphs \cup Faulty}
    \cup {Input(i, d, <<>>) : i \in {<<<<2, 3>>, <<4>>, <<>>, <<>>>>, <<<<3, 2>>, <<4>>, <<>>, <<>>>>, <<<<4, 2>>, <<3>>, <<4>>, <<>>>>}, d \in Shared}
    \cup {Input(i, <<>>, d) : i \in {<<<<2>>, <<3>>, <<>>, <<>>>>, <<<<3, 4>>, <<3>>, <<>>, <<>>>>}, d \in {<<2>>, <<2, 3>>, <<4, 2>>, <<2, 5>>, <<4, 4>>}}

(* They are inputs that the theorems about Imports are about.                       *)
ASSUME ImportInputs_OK == InputsOK

\* No module is imported by two modules, or loaded besides.
Tree == input.dialects = <<>> /\ \A n \in MCModules : Cardinality({m \in MCModules : n \in RangeOf(files[m].imports)}) <= 1

-----------------------------------------------------------------------------
(* Names of axioms, and types of up to three Pis whose cycles go through a nominal.   *)
Nodes == 1..3
RECURSIVE CodomOf(_, _, _)
CodomOf(c, n, k) == IF k = 0 \/ n = 0 THEN n ELSE CodomOf(c, c[n], k - 1)
AxiomTypes ==
    {ty \in [Nodes -> 0..3] \X SUBSET Nodes :
        \A n \in Nodes : (\E k \in Nodes : CodomOf(ty[1], n, k) = n) => \E k \in Nodes : CodomOf(ty[1], n, k) \in ty[2]}

(* Files of a few declarations of two tags.                                       *)
Subs == {<<>>, <<<<"a">>>>, <<<<"b", "c">>>>, <<<<"b">>, <<"d">>>>, <<<<"a">>, <<"c">>>>}
Ax(ds, tags, ns, pis, subs) == [dialect : ds, tag : tags, subs : subs, normalizer : ns, pi : pis]
DeclSetups == [
    own     |-> [u8 |-> 16, bound |-> 3, decls |-> Ax({"core"}, {"bit", "icmp"}, {"f"}, {TRUE}, Subs)
                    \cup Ax({"core"}, {"bit"}, {"", "g"}, {TRUE}, Subs) \cup Ax({"core"}, {"icmp"}, {"f"}, {FALSE}, Subs)],
    same    |-> [u8 |-> 16, bound |-> 4, decls |-> Ax({"core"}, {"bit", "icmp"}, {"f"}, {TRUE}, Subs)],
    foreign |-> [u8 |-> 16, bound |-> 2, decls |-> Ax({"core", "mem"}, {"bit"}, {"f"}, {TRUE}, {<<>>})],
    omitted |-> [u8 |-> 16, bound |-> 2, decls |-> Ax({"core"}, {"bit"}, {"f"}, {TRUE}, {<<<<"b">>>>}) \cup Ax({"core"}, {"bit"}, {""}, {TRUE}, {<<<<"a">>>>})],
    many    |-> [u8 |-> 4, bound |-> 3, decls |-> Ax({"core"}, {"bit"}, {"f"}, {TRUE}, {<<<<"a">>, <<"c">>>>, <<<<"b">>, <<"d">>>>, <<<<"e">>>>})]]

A == INSTANCE Axiom WITH Max_Dialect_Size <- 3, U8 <- 256, Names <- Upto(Scale, {"_", "a", "z", "9", "%", "."}), Types <- AxiomTypes, MaxArgs <- 7,
                         name <- s1, codom <- s2, noms <- s3, curry <- s4, trip <- s5, applied <- s6, fired <- s7,
                         File <- "core", Setups <- DeclSetups, setup <- s1, axioms <- s2, created <- s3, read <- s4, failed <- s5

-----------------------------------------------------------------------------
B == INSTANCE BitSet WITH W <- 2, Indices <- {0, 4}, Ends <- {0, 1, 3, 5, 6}, Shifts <- {2, 3}, x <- s1, y <- s2, ret <- s3,
                          s <- s4, t <- s5, due <- s6

\* Importing stands still while another part runs.
AtRest == input = Diamond /\ Init
From4  == s4 = idle /\ s5 = idle /\ s6 = idle /\ s7 = idle
AllInit ==
    \/ part = "imports" /\ Init /\ s1 = idle /\ s2 = idle /\ s3 = idle /\ From4
    \/ part = "writer" /\ AtRest /\ Wr!Init /\ s5 = idle /\ s6 = idle /\ s7 = idle
    \/ part = "reader" /\ AtRest /\ R!Init /\ s5 = idle /\ s6 = idle /\ s7 = idle
    \/ part = "lexer" /\ AtRest /\ L!Init /\ From4
    \/ part = "parser" /\ AtRest /\ P!Init /\ From4
    \/ part = "dump" /\ AtRest /\ U!Init /\ Nested /\ (s1 \in {SharedLet, LateDecl} \/ Tidy) /\ s3 = idle /\ From4
    \/ part = "axiom" /\ AtRest /\ A!Init
    \/ part = "decls" /\ AtRest /\ A!DeclInit /\ s6 = idle /\ s7 = idle
    \/ part = "bits" /\ AtRest /\ B!Init /\ s7 = idle

Step(p, S) == part = p /\ S /\ part' = p /\ UNCHANGED vars
AllNext ==
    \/ part = "imports" /\ Next /\ UNCHANGED <<part, others>>
    \/ Step("writer", Wr!Next /\ UNCHANGED <<s5, s6, s7>>)
    \/ Step("reader", R!Next /\ UNCHANGED <<s5, s6, s7>>)
    \/ Step("lexer", L!Next /\ UNCHANGED <<s4, s5, s6, s7>>)
    \/ Step("parser", P!Next /\ UNCHANGED <<s4, s5, s6, s7>>)
    \/ Step("dump", U!Next /\ UNCHANGED <<s3, s4, s5, s6, s7>>)
    \/ Step("axiom", A!Next)
    \/ Step("decls", A!DeclNext /\ UNCHANGED <<s6, s7>>)
    \/ Step("bits", B!Next /\ UNCHANGED s7)
AllSpec == AllInit /\ [][AllNext]_allVars
-----------------------------------------------------------------------------
Over == s3 # <<>> /\ s3[Len(s3)].tag \in {"M_eof", "error"}

(* utf8.h:33-37, lexer.h:39, langref.md: what has been written is read again; a token    *)
(* spells what stands from its begin to its end, is as long as can be and has the    *)
(* value of the literal, nothing but white space and comments is skipped, and the     *)
(* Markdown output is the file without the marks of its comments.  Not so a character *)
(* above U+10FFFF, which cannot be written, a stray byte, which is read as 0, a         *)
(* hexadecimal integer, -0, a literal without digits, -1, which is an unsigned one,    *)
(* and a comment behind code in a line, whose fence does not start a line.            *)
TokensRight ==
    /\ part = "writer" => Wr!RoundTrip /\ Wr!Writable
    /\ part = "reader" =>
          /\ IF s4 # <<>> /\ s4[1] = 2097151 THEN ~R!Writable ELSE R!Writable
          /\ IF s4 # <<>> /\ s4[1] = 0 THEN ~R!Rejects ELSE R!Rejects
    /\ part = "lexer" /\ ~s2.md_ =>
          /\ L!Spelled /\ L!Munch /\ L!Skipped
          /\ CASE s1 = HexInt -> Over => ~L!AcceptedHex
               [] s1 = MinusZero -> Over => ~L!AcceptedZero
               [] s1 = NoDigits -> Over => ~L!SpelledAll
               [] s1 = MinusOne -> Over => ~L!AcceptedSigned
               [] OTHER -> L!Accepted
    /\ part = "lexer" /\ s2.md_ =>
          IF s1 = NoNewline THEN Over => ~L!MdFences ELSE L!MdVerbatim /\ L!MdClosed

(* langref.md, dump.cpp, axiom.h, bootstrap.h: see the properties of the parts.        *)
NamesRight ==
    /\ part = "parser" /\ s1.kind = "module" /\ s3 # <<>> =>
          /\ P!Meaning <=> s1.tree \notin FieldPrograms \cup GroupPrograms \cup NestPrograms \cup OnePrograms
          /\ s1.tree \in CurryPrograms => ~P!InnerTypes
    /\ part = "parser" /\ s1.kind = "term" /\ s3 # <<>> /\ (s1.tree = Ambiguous \/ P!NoParens(s1.tree)) =>
          (P!ReadBack <=> s1.tree # Ambiguous)
    /\ part = "dump" =>
          IF s1 = SharedLet THEN s2 # <<>> => ~U!LetBeforeUse
          ELSE U!LetBeforeUse /\ U!DeclaredOnce /\ (s1 = LateDecl /\ s2 # <<>> => ~U!DeclBeforeUse)
    /\ part = "imports" =>
          /\ Tree => Once
          /\ input = Diamond /\ outcome = "parsed" => ~Once
    /\ part = "axiom" => A!MangleInverse /\ A!SplitJoins /\ A!Spots /\ (A!mangle(s1) # A!NoDialect => ~A!MatchedBase)
    /\ part = "decls" =>
          CASE s1 = "own" -> A!HeaderAgrees /\ A!Distinct /\ A!OneNormalizer
            [] s1 = "same" -> A!HeaderAgrees /\ A!Distinct /\ A!KeepsNormalizer
            [] s1 = "foreign" -> (\E i \in DOMAIN s3 : s3[i].flags[1] # "core") => ~A!HeaderAgrees
            [] s1 = "omitted" -> Len(s3) = 2 /\ s4[2].normalizer = "" => ~A!KeepsNormalizer
            [] s1 = "many" -> Len(s3) > 4 => ~A!Distinct

(* bitset.h: see IsASet of BitSet.                                                  *)
IsASet == part = "bits" => B!IsASet
=============================================================================
