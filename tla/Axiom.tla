------------------------------- MODULE Axiom -------------------------------
(* The name of an axiom and its integer (mangle, demangle, split of           *)
(* axiom.cpp), the fields of the integer, and the counter that decides at     *)
(* which application of a curried axiom its normalizer runs                   *)
(* (infer_curry_and_trip, World::raw_app). The 48 bits of a dialect are a     *)
(* tuple of codes of 6 bits, characters are strings of length one. A type is  *)
(* a node of a graph: codom leads from a Pi to the next type, 0 is no Pi.     *)
(* Then the declarations of axioms in one file, which give them their         *)
(* integers (Parser::parse_ax), and the header that is generated from them    *)
(* (Bootstrapper::emit).                                                      *)
EXTENDS Integers, Sequences, FiniteSets

CONSTANTS Max_Dialect_Size,
          U8,          \* the number of values of a u8
          Names,       \* the names that are tried
          Types,       \* and the types: where the codomains of their nodes lead, and which are nominal
          MaxArgs,     \* bound: arguments
          File,        \* the dialect that the file is named after
          Setups       \* of each setup: the declarations tried (decls), how many values a u8 has (u8),
                       \* and how many declarations a file has at most (bound)

Chars == <<"_", "a", "b", "z", "A", "Z", "0", "9">>
Codes == <<1, 2, 3, 27, 28, 53, 54, 63>>
Known(c) == \E i \in DOMAIN Chars : Chars[i] = c
CodeOf(c) == Codes[CHOOSE i \in DOMAIN Chars : Chars[i] = c]
CharOf(u) == Chars[CHOOSE i \in DOMAIN Codes : Codes[i] = u]

NoDialect == <<>>
mangle(s) ==
    IF Len(s) > Max_Dialect_Size \/ \E i \in DOMAIN s : ~Known(s[i]) THEN NoDialect
    ELSE [i \in 1..Max_Dialect_Size |-> IF i <= Len(s) THEN CodeOf(s[i]) ELSE 0]

\* Reads up to the first code that is 0.
demangle(u) ==
    LET n == CHOOSE k \in 0..Len(u) : (\A i \in 1..k : u[i] # 0) /\ (k = Len(u) \/ u[k + 1] = 0)
    IN [i \in 1..n |-> CharOf(u[i])]

Find(s, c) == IF \E i \in DOMAIN s : s[i] = c THEN CHOOSE i \in DOMAIN s : s[i] = c /\ \A j \in 1..(i - 1) : s[j] # c ELSE 0
From(s, i) == SubSeq(s, i, Len(s))

Invalid == <<>>
\* Dialect, tag and sub of %dialect.tag.sub; the sub is optional.
split(s) ==
    IF s = <<>> \/ s[1] # "%" THEN Invalid
    ELSE LET n == From(s, 2)    dot == Find(n, ".")
             dialect == SubSeq(n, 1, dot - 1)    rest == From(n, dot + 1)    second == Find(rest, ".")
         IN IF dot = 0 \/ mangle(dialect) = NoDialect THEN Invalid
            ELSE IF second # 0 THEN <<dialect, SubSeq(rest, 1, second - 1), From(rest, second + 1)>>
            ELSE IF rest = <<>> THEN Invalid
            ELSE <<dialect, rest, <<>>>>

\* The 64 bits: <<dialect, tag, sub>>.
flags(d, t, s) == <<d, t % U8, s % U8>>
base(f) == <<f[1], f[2], 0>>
\* Match::base.
MatchBase(f) == <<NoDialect, 0, f[3]>>

(* The counter *)
Trip_End == U8 - 1

RECURSIVE walk(_, _, _, _, _)
CycleLength(codom, nom) ==
    LET f[k \in Nat] == IF k = 0 THEN codom[nom] ELSE codom[f[k - 1]]
    IN 1 + CHOOSE k \in 0..Cardinality(DOMAIN codom) : f[k] = nom /\ \A j \in 0..(k - 1) : f[j] # nom
walk(codom, noms, type, curry, done) ==
    IF type = 0 THEN <<curry, 0>>
    ELSE IF type \in noms /\ type \in done THEN <<curry, CycleLength(codom, type)>>
    ELSE walk(codom, noms, codom[type], curry + 1, done \cup ({type} \cap noms))
infer_curry_and_trip(codom, noms, type) == walk(codom, noms, type, 0, {})

\* What is left after one more application.
next_curry(curry, trip) ==
    LET c == IF curry = 0 THEN trip ELSE curry IN IF c = Trip_End THEN c ELSE (c + U8 - 1) % U8

VARIABLES name,            \* the name that is tried
          codom, noms,     \* the type of the axiom, node 1, and which of its nodes are nominal
          curry, trip,     \* the counters of the last application
          applied, fired   \* how many arguments there were, and after how many the normalizer ran

vars == <<name, codom, noms, curry, trip, applied, fired>>

AxInit(c, n) ==
    LET t == infer_curry_and_trip(c, n, 1)
    IN codom = c /\ noms = n /\ curry = t[1] /\ trip = t[2] /\ applied = 0 /\ fired = {}

RECURSIVE TypeAfter(_)
TypeAfter(k) == IF k = 0 THEN 1 ELSE LET t == TypeAfter(k - 1) IN IF t = 0 THEN 0 ELSE codom[t]

\* One more argument; the value so far has to be a function.
raw_app ==
    /\ applied < MaxArgs /\ TypeAfter(applied) # 0
    /\ curry' = next_curry(curry, trip)
    /\ applied' = applied + 1
    /\ fired' = IF next_curry(curry, trip) = 0 THEN fired \cup {applied + 1} ELSE fired
    /\ UNCHANGED <<name, codom, noms, trip>>

Init == \/ name \in Names /\ AxInit(<<0>>, {})
        \/ name = <<>> /\ \E ty \in Types : AxInit(ty[1], ty[2])
Next == raw_app
Spec == Init /\ [][Next]_vars
-----------------------------------------------------------------------------
\* A dialect name of characters that can be encoded, and not too long, has an integer that leads
\* back to it; no other name has one (Axiom::mangle, Axiom::demangle).
MangleInverse ==
    IF Len(name) <= Max_Dialect_Size /\ \A i \in DOMAIN name : name[i] \notin {"%", "."}
    THEN mangle(name) # NoDialect /\ demangle(mangle(name)) = name
    ELSE mangle(name) = NoDialect

\* What split returns puts the name together again, its dialect can be mangled and neither the
\* dialect nor a tag without sub contains a dot (Axiom::split).
SplitJoins ==
    LET s == split(name)
        joined == <<"%">> \o s[1] \o <<".">> \o s[2]
    IN s # Invalid =>
        /\ name = joined \o (IF s[3] = <<>> /\ name = joined THEN <<>> ELSE <<".">> \o s[3])
        /\ mangle(s[1]) # NoDialect
        /\ Find(s[1], ".") = 0 /\ Find(s[2], ".") = 0

\* The normalizer runs for the first time when the type of the value stops being new - it is no
\* function, or a nominal Pi it was before - and from then on each time the type is that one again,
\* so that it always sees the same kind of application (infer_curry_and_trip, World::raw_app).
Spots ==
    LET first == CHOOSE k \in 0..(2 * Cardinality(DOMAIN codom)) :
                    (TypeAfter(k) = 0 \/ (TypeAfter(k) \in noms /\ \E j \in 0..(k - 1) : TypeAfter(j) = TypeAfter(k)))
                    /\ \A i \in 0..(k - 1) : ~(TypeAfter(i) = 0 \/ (TypeAfter(i) \in noms /\ \E j \in 0..(i - 1) : TypeAfter(j) = TypeAfter(i)))
    IN first > 0 =>
        fired = {k \in 1..applied : k >= first /\ TypeAfter(k) = TypeAfter(first)
                                    /\ (TypeAfter(first) # 0 \/ k = first)}

\* The base that a match yields is the base of the axiom.
MatchedBase == \A t, s \in 0..1 : LET f == flags(mangle(name), t, s) IN mangle(name) # NoDialect => MatchBase(f) = base(f)

-----------------------------------------------------------------------------
(* A declaration has a dialect and a tag, a list of subs, each a list of       *)
(* aliases, the name of a normalizer ("" for none) and whether its type is a   *)
(* Pi. The flags of an axiom are <<dialect, tag, sub>>.                        *)
VARIABLES setup,     \* the setup
          axioms,    \* what the bootstrapper knows of each name declared so far
          created,   \* the axioms of the world: the names bound to each, its flags
          read,      \* the declarations parsed so far
          failed     \* an error was raised

declVars == <<setup, axioms, created, read, failed>>

Decls == Setups[setup].decls
DeclU8    == Setups[setup].u8
DeclBound == Setups[setup].bound

Key(d) == <<d.dialect, d.tag>>
IsNew(d) == Key(d) \notin DOMAIN axioms
Old(d) == axioms[Key(d)]
Bound2Names == UNION {created[i].names : i \in DOMAIN created}

\* The aliases of a sub are bound as %dialect.tag.alias, an axiom without subs as %dialect.tag.
NamesOf(d) == IF d.subs = <<>> THEN <<{<<d.dialect, d.tag, "">>}>>
              ELSE [i \in DOMAIN d.subs |-> {<<d.dialect, d.tag, d.subs[i][j]>> : j \in DOMAIN d.subs[i]}]

\* The checks of parse_ax, in their order; the names it binds have to be new.
Refused(d) ==
    \/ Cardinality(DOMAIN axioms) + (IF IsNew(d) THEN 1 ELSE 0) >= DeclU8 - 1
    \/ ~IsNew(d) /\ (d.subs = <<>>) # (Old(d).subs = <<>>)
    \/ ~IsNew(d) /\ Old(d).pi # d.pi
    \/ ~IsNew(d) /\ Old(d).normalizer # "" /\ d.normalizer # "" /\ Old(d).normalizer # d.normalizer
    \/ LET ns == NamesOf(d)
       IN \E i \in DOMAIN ns : \/ ns[i] \cap Bound2Names # {}
                               \/ \E j \in DOMAIN ns : j # i /\ ns[i] \cap ns[j] # {}
                               \/ d.subs # <<>> /\ Cardinality(ns[i]) # Len(d.subs[i])

\* The number of a tag, the first sub that a declaration adds, and the flags of its i-th sub.
tag_id(d) == IF IsNew(d) THEN Cardinality(DOMAIN axioms) ELSE Old(d).tag_id
FirstSub(d) == IF IsNew(d) THEN 0 ELSE Len(Old(d).subs)
Flags(d, i) == <<d.dialect, tag_id(d) % DeclU8, (FirstSub(d) + i - 1) % DeclU8>>

Info(d) == [tag_id |-> tag_id(d), pi |-> d.pi, normalizer |-> d.normalizer,
            subs |-> (IF IsNew(d) THEN <<>> ELSE Old(d).subs) \o d.subs]

DeclInit == setup \in DOMAIN Setups /\ axioms = <<>> /\ created = <<>> /\ read = <<>> /\ failed = FALSE

parse_ax(d) ==
    /\ ~failed /\ Len(read) < DeclBound
    /\ read' = Append(read, d) /\ UNCHANGED setup
    /\ IF Refused(d) THEN failed' = TRUE /\ UNCHANGED <<axioms, created>>
       ELSE /\ axioms' = [k \in DOMAIN axioms \cup {Key(d)} |-> IF k = Key(d) THEN Info(d) ELSE axioms[k]]
            /\ created' = created \o [i \in DOMAIN NamesOf(d) |-> [names |-> NamesOf(d)[i], flags |-> Flags(d, i)]]
            /\ UNCHANGED failed

DeclNext == \E d \in Decls : parse_ax(d)
DeclSpec == DeclInit /\ [][DeclNext]_declVars

(* The header: the enumerators, in the namespace of the file's dialect. *)
Carry(t, s) == <<File, t + s \div DeclU8, s % DeclU8>>
Enumerators ==
    UNION {LET info == axioms[k]
           IN IF info.subs = <<>> THEN {[name |-> <<k[1], k[2], "">>, flags |-> Carry(info.tag_id, 0)]}
              ELSE UNION {{[name |-> <<k[1], k[2], info.subs[i][j]>>, flags |-> Carry(info.tag_id, i - 1)] : j \in DOMAIN info.subs[i]}
                          : i \in DOMAIN info.subs}
           : k \in DOMAIN axioms}
\* The flags for which register_normalizers has an entry, and the entry.
Registered ==
    UNION {LET info == axioms[k]
           IN IF info.normalizer = "" THEN {}
              ELSE {<<Carry(info.tag_id, i - 1), info.normalizer>> : i \in 1..(IF info.subs = <<>> THEN 1 ELSE Len(info.subs))}
           : k \in DOMAIN axioms}
-----------------------------------------------------------------------------
\* The enumerator that the header has for a name is the integer of the axiom that the name is bound
\* to (parse_ax counts tags and subs, emit counts them again).
HeaderAgrees == \A i \in DOMAIN created : \A n \in created[i].names : [name |-> n, flags |-> created[i].flags] \in Enumerators

\* No two axioms have the same integer, and the header has no two enumerators for a name.
Distinct == /\ \A i, j \in DOMAIN created : created[i].flags = created[j].flags => i = j
            /\ \A e, f \in Enumerators : e.name = f.name => e = f

\* Two axioms of one tag have the same normalizer, or both have none.
OneNormalizer == \A i, j \in DOMAIN created :
    LET At(k) == {r \in Registered : r[1] = created[k].flags}
    IN created[i].flags[2] = created[j].flags[2] => {r[2] : r \in At(i)} = {r[2] : r \in At(j)}
\* The normalizer that a declaration named is the one its axioms have in the end.
KeepsNormalizer == \A k \in DOMAIN read : read[k].normalizer # "" /\ ~failed =>
    \A i \in DOMAIN created : created[i].names \cap UNION {NamesOf(read[k])[m] : m \in DOMAIN NamesOf(read[k])} # {}
        => <<created[i].flags, read[k].normalizer>> \in Registered
=============================================================================
