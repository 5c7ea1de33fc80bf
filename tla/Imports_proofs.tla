--------------------------- MODULE Imports_proofs ---------------------------
(***************************************************************************)
(* What TLAPS proves of Imports, for any modules that import one another in   *)
(* any way.                                                                 *)
(***************************************************************************)
EXTENDS Imports, SequenceTheorems

-----------------------------------------------------------------------------
Scopes  == UNION {[S -> Nat] : S \in SUBSET Names}
Parsers == [module : Modules, imports : Seq(Modules), decls : Seq(Names), scope : Scopes, imported : SUBSET Modules]
Decls   == [module : Modules, name : Names, sees : Scopes]

TypeOK ==
    /\ input \in Inputs /\ Main \in DOMAIN files
    /\ todo \in Seq(Modules)
    /\ stack \in Seq(Parsers)
    /\ made \in Seq(Decls)
    /\ imported_dialects \subseteq Modules
    /\ outcome \in {"running", "parsed", "no file", "too deep", "declared twice"}

-----------------------------------------------------------------------------
(* How far main() is, and how far a parser; Own are the names it has declared.    *)
All      == Append(input.dialects, Main)
Roots    == RangeOf(input.dialects) \cup Imported[Main]
Begun(T) == Len(All) - Len(T)
Imps(p)  == files[p.module].imports
Decs(p)  == files[p.module].decls
Taken(p) == Len(Imps(p)) - Len(p.imports)
Count(p) == Len(Decs(p)) - Len(p.decls)
Own(p)   == {Decs(p)[j] : j \in 1..Count(p)}

(* M are the defs that are made, I the dialects that the World knows, S the stack and  *)
(* T what main() has still to parse.  The lists that are left to a parser are the      *)
(* ends of those there were.                                                      *)
Rests(p) ==
    /\ p.module \in DOMAIN files
    /\ Len(p.imports) <= Len(Imps(p)) /\ \A i \in 1..Len(p.imports) : p.imports[i] = Imps(p)[Taken(p) + i]
    /\ Len(p.decls) <= Len(Decs(p)) /\ \A i \in 1..Len(p.decls) : p.decls[i] = Decs(p)[Count(p) + i]

(* D, what a parser has imported with its first n imports, is closed, and all of it is *)
(* needed and has been parsed.                                                     *)
ImportsOK(I, p, D, n) ==
    /\ \A i \in 1..n : Imps(p)[i] \in D
    /\ D \subseteq Needs(p.module) /\ D \subseteq I
    /\ \A d \in D : Needs(d) \subseteq D

(* It knows the names of that, and its own, which are others.                      *)
ScopeOK(M, p, D) ==
    /\ DOMAIN p.scope = Declared(D) \cup Own(p)
    /\ Own(p) \cap Declared(D) = {}
    /\ \A i, j \in 1..Count(p) : Decs(p)[i] = Decs(p)[j] => i = j
    /\ \A x \in DOMAIN p.scope :
          /\ p.scope[x] \in DOMAIN M
          /\ M[p.scope[x]].name = x
          /\ M[p.scope[x]].module = Meant(p.module, x)
          /\ M[p.scope[x]].module \in IF x \in Own(p) THEN {p.module} ELSE D

(* The innermost parser, and one that waits for c, which it imports: this has not      *)
(* declared anything yet.                                                          *)
OnTop(M, I, p) ==
    /\ Rests(p) /\ ImportsOK(I, p, p.imported, Taken(p)) /\ ScopeOK(M, p, p.imported)
    /\ p.imports # <<>> => Count(p) = 0
Under(M, I, p, c) ==
    /\ Rests(p) /\ ImportsOK(I, p, p.imported \ {c}, Taken(p) - 1) /\ ScopeOK(M, p, p.imported \ {c})
    /\ Count(p) = 0 /\ Taken(p) >= 1
    /\ c = Imps(p)[Taken(p)] /\ c \in p.imported

StackOK(M, I, S) == \A k \in 1..Len(S) :
    /\ IF k = Len(S) THEN OnTop(M, I, S[k]) ELSE Under(M, I, S[k], S[k + 1].module)
    /\ \A j \in 1..k-1 : S[k].module \in Needs(S[j].module)
    /\ k > 1 => S[k].module \in From(Roots)

Made(M, m) == \A x \in RangeOf(files[m].decls) : \E i \in DOMAIN M : M[i].module = m /\ M[i].name = x
WorldOK(M, I) ==
    /\ \A d \in I : Good(d) /\ Made(M, d) /\ Needs(d) \subseteq I
    /\ I \subseteq From(Roots)

(* What is left to main() is the end of the list; what it has parsed the World knows.  *)
MainOK(T, S, I) ==
    /\ Len(T) <= Len(All) /\ \A i \in 1..Len(T) : T[i] = All[Begun(T) + i]
    /\ IF S = <<>> THEN T # <<>> /\ \A i \in 1..Begun(T) : All[i] \in I
       ELSE /\ Begun(T) >= 1 /\ S[1].module = All[Begun(T)]
            /\ \A i \in 1..Begun(T)-1 : All[i] \in I

DeclOK(M, i) ==
    /\ M[i].module \in DOMAIN files
    /\ \E b \in DOMAIN files[M[i].module].decls :
          /\ files[M[i].module].decls[b] = M[i].name
          /\ DOMAIN M[i].sees = Declared(Needs(M[i].module)) \cup {files[M[i].module].decls[j] : j \in 1..b-1}
    /\ \A x \in DOMAIN M[i].sees :
          /\ M[i].sees[x] \in 1..i-1 /\ M[M[i].sees[x]].name = x
          /\ M[M[i].sees[x]].module = Meant(M[i].module, x)

InputOK ==
    /\ input \in Inputs /\ Main \in DOMAIN files /\ DOMAIN files \subseteq Modules
    /\ IsFiniteSet(Modules) /\ MaxDepth \in Nat /\ MaxDepth >= Cardinality(Modules)
    /\ \A m \in DOMAIN files : files[m].imports \in Seq(Modules) /\ files[m].decls \in Seq(Names)
    /\ input.dialects \in Seq(Modules)

IInv ==
    /\ InputOK /\ TypeOK
    /\ StackOK(made, imported_dialects, stack)
    /\ WorldOK(made, imported_dialects)
    /\ \A i \in DOMAIN made : DeclOK(made, i)
    /\ IF outcome = "running" THEN MainOK(todo, stack, imported_dialects) ELSE stack = <<>>
    /\ Complete

-----------------------------------------------------------------------------
(* What a module needs is closed, and nothing else.                               *)
LEMMA ImportedIs == ASSUME InputOK PROVE Imported \in [Modules -> SUBSET Modules]
<1> SUFFICES ASSUME NEW m \in DOMAIN files PROVE RangeOf(files[m].imports) \subseteq Modules
  BY DEF Imported
<1> QED BY DEF InputOK, RangeOf

LEMMA FromIs ==
    ASSUME InputOK, NEW S \in SUBSET Modules
    PROVE  /\ S \subseteq From(S) /\ From(S) \subseteq Modules
           /\ \A d \in From(S) : Imported[d] \subseteq From(S)
           /\ \A C \in SUBSET Modules : S \subseteq C /\ (\A d \in C : Imported[d] \subseteq C) => From(S) \subseteq C
<1>1. Imported \in [Modules -> SUBSET Modules] /\ IsFiniteSet(Modules)
  BY ImportedIs DEF InputOK
<1>2. From(S) = Least(Imported, S)
  BY <1>1, ReachIs DEF From
<1> HIDE DEF Imported
<1>3. /\ S \subseteq Least(Imported, S) /\ Least(Imported, S) \subseteq Modules
      /\ IsClosed(Imported, Least(Imported, S))
      /\ \A C \in SUBSET Modules : S \subseteq C /\ IsClosed(Imported, C) => Least(Imported, S) \subseteq C
  BY <1>1, LeastIs
<1> QED BY <1>2, <1>3 DEF IsClosed

LEMMA NeedsIs ==
    ASSUME InputOK, NEW m \in Modules
    PROVE  /\ Imported[m] \subseteq Needs(m) /\ Needs(m) \subseteq Modules
           /\ \A d \in Needs(m) : Imported[d] \subseteq Needs(m) /\ Needs(d) \subseteq Needs(m)
           /\ \A C \in SUBSET Modules : Imported[m] \subseteq C /\ (\A d \in C : Imported[d] \subseteq C) => Needs(m) \subseteq C
<1>1. Imported[m] \in SUBSET Modules
  BY ImportedIs
<1>2. /\ Imported[m] \subseteq Needs(m) /\ Needs(m) \subseteq Modules
      /\ \A d \in Needs(m) : Imported[d] \subseteq Needs(m)
      /\ \A C \in SUBSET Modules : Imported[m] \subseteq C /\ (\A d \in C : Imported[d] \subseteq C) => Needs(m) \subseteq C
  BY <1>1, FromIs DEF Needs
<1>3. ASSUME NEW d \in Needs(m) PROVE Needs(d) \subseteq Needs(m)
  <2>1. Imported[d] \in SUBSET Modules /\ Imported[d] \subseteq Needs(m)
    BY <1>2, ImportedIs
  <2> QED BY <1>2, <2>1, FromIs DEF Needs
<1> QED BY <1>2, <1>3

LEMMA ImportNeeded ==
    ASSUME InputOK, NEW m \in DOMAIN files, NEW i \in 1..Len(files[m].imports)
    PROVE  /\ files[m].imports[i] \in Modules /\ files[m].imports[i] \in Needs(m)
           /\ Needs(files[m].imports[i]) \subseteq Needs(m)
<1>1. m \in Modules /\ files[m].imports[i] \in Modules /\ files[m].imports[i] \in Imported[m]
  BY DEF InputOK, Imported, RangeOf
<1> QED BY <1>1, NeedsIs

LEMMA DeclaredGrows == ASSUME NEW S, NEW T, S \subseteq T PROVE Declared(S) \subseteq Declared(T)
BY DEF Declared

LEMMA DeclaredBoth == ASSUME NEW S, NEW T PROVE Declared(S \cup T) = Declared(S) \cup Declared(T)
BY DEF Declared

LEMMA DeclaredOne == ASSUME NEW m \in DOMAIN files PROVE Declared({m}) = RangeOf(files[m].decls)
BY DEF Declared

(* The first import that knows a name is followed.                                *)
LEMMA FollowIs ==
    ASSUME InputOK, NEW m \in Modules, NEW x
    PROVE  /\ Follow(m, x) \in Modules
           /\ m \in DOMAIN files /\ x \notin Declared(Needs(m)) => Follow(m, x) = m
           /\ m \in DOMAIN files => \A a \in 1..Len(files[m].imports) :
                 /\ Knows(files[m].imports[a], x)
                 /\ \A j \in 1..a-1 : ~Knows(files[m].imports[j], x)
                 => Follow(m, x) = files[m].imports[a]
<1> DEFINE K == Knowing(m, x)
<1>1. CASE m \notin DOMAIN files
  BY <1>1 DEF Follow
<1>2. CASE m \in DOMAIN files
  <2>1. files[m].imports \in Seq(Modules) /\ K \subseteq 1..Len(files[m].imports)
    BY <1>2 DEF InputOK, Knowing
  <2>2. x \notin Declared(Needs(m)) => K = {}
    <3> SUFFICES ASSUME NEW i \in K PROVE x \in Declared(Needs(m))
      OBVIOUS
    <3>1. i \in 1..Len(files[m].imports) /\ x \in Declared({files[m].imports[i]} \cup Needs(files[m].imports[i]))
      BY <2>1 DEF Knowing, Knows
    <3>2. {files[m].imports[i]} \cup Needs(files[m].imports[i]) \subseteq Needs(m)
      BY <1>2, <3>1, ImportNeeded
    <3> QED BY <3>1, <3>2, DeclaredGrows
  <2> DEFINE a == CHOOSE i \in K : \A j \in K : i <= j
  <2>3. K # {} => a \in K /\ \A j \in K : a <= j
    <3> SUFFICES ASSUME K # {} PROVE \E i \in K : \A j \in K : i <= j
      OBVIOUS
    <3>1. K \in SUBSET Nat
      BY <2>1
    <3> HIDE DEF K
    <3> QED BY <3>1, Smallest
  <2>4. Follow(m, x) = IF K = {} THEN m ELSE files[m].imports[a]
    BY <1>2 DEF Follow
  <2>5. ASSUME NEW b \in 1..Len(files[m].imports), Knows(files[m].imports[b], x),
               \A j \in 1..b-1 : ~Knows(files[m].imports[j], x)
        PROVE  Follow(m, x) = files[m].imports[b]
    <3>1. DOMAIN files[m].imports = 1..Len(files[m].imports)
      BY <2>1
    <3>2. b \in K
      BY <2>5, <3>1 DEF Knowing
    <3>3. a \in K /\ a <= b
      BY <3>2, <2>3
    <3>4. Knows(files[m].imports[a], x) /\ a \in 1..Len(files[m].imports)
      BY <3>3, <3>1 DEF Knowing
    <3> HIDE DEF a, K
    <3>5. a = b
      BY <3>3, <3>4, <2>5
    <3> QED BY <2>4, <3>2, <3>5
  <2>6. Follow(m, x) \in Modules
    <3> HIDE DEF a, K
    <3> QED BY <2>1, <2>3, <2>4
  <2> QED BY <1>2, <2>2, <2>4, <2>5, <2>6
<1> QED BY <1>1, <1>2

(* A name means what it means in the module that is followed.                      *)
LEMMA MeantIs ==
    ASSUME InputOK, NEW m \in Modules, NEW x
    PROVE  Meant(m, x) = IF Follow(m, x) = m THEN m ELSE Meant(Follow(m, x), x)
<1> DEFINE f == Follow(m, x)
           next == [c \in Modules |-> {Follow(c, x)}]
           R(c) == Reach(next, {c})
<1>1. next \in [Modules -> SUBSET Modules] /\ f \in Modules
  BY FollowIs
<1>2. \A c \in Modules : next[c] = {Follow(c, x)}
  OBVIOUS
<1>3. \A c \in Modules : LastOf(c, x) = {d \in R(c) : Follow(d, x) = d}
  BY DEF LastOf
<1> HIDE DEF next
<1>4. ASSUME NEW c \in Modules
      PROVE  /\ c \in R(c) /\ R(c) \subseteq Modules
             /\ \A d \in R(c) : Follow(d, x) \in R(c)
             /\ \A C \in SUBSET Modules : c \in C /\ (\A d \in C : Follow(d, x) \in C) => R(c) \subseteq C
  <2>1. IsFiniteSet(Modules) /\ {c} \in SUBSET Modules
    BY DEF InputOK
  <2>2. R(c) = Least(next, {c})
    BY <1>1, <2>1, ReachIs
  <2>3. /\ {c} \subseteq Least(next, {c}) /\ Least(next, {c}) \subseteq Modules
        /\ IsClosed(next, Least(next, {c}))
        /\ \A C \in SUBSET Modules : {c} \subseteq C /\ IsClosed(next, C) => Least(next, {c}) \subseteq C
    BY <1>1, <2>1, LeastIs
  <2>4. \A d \in R(c) : Follow(d, x) \in R(c)
    BY <1>2, <2>2, <2>3 DEF IsClosed
  <2>5. ASSUME NEW C \in SUBSET Modules, c \in C, \A d \in C : Follow(d, x) \in C PROVE R(c) \subseteq C
    <3>1. IsClosed(next, C)
      BY <1>2, <2>5 DEF IsClosed
    <3> QED BY <2>2, <2>3, <2>5, <3>1
  <2> QED BY <2>2, <2>3, <2>4, <2>5
<1> HIDE DEF R, f
<1>5. f = Follow(m, x)
  BY DEF f
<1>6. CASE f = m
  <2>1. R(m) = {m}
    <3>1. R(m) \subseteq {m}
      BY <1>4, <1>5, <1>6
    <3> QED BY <3>1, <1>4
  <2>2. LastOf(m, x) = {m}
    BY <2>1, <1>3, <1>5, <1>6
  <2>3. Meant(m, x) \in LastOf(m, x)
    BY <2>2 DEF Meant
  <2> QED BY <2>2, <2>3, <1>5, <1>6
<1>7. CASE f # m
  <2>1. R(m) \subseteq {m} \cup R(f)
    <3>1. {m} \cup R(f) \in SUBSET Modules /\ \A d \in {m} \cup R(f) : Follow(d, x) \in {m} \cup R(f)
      BY <1>1, <1>4, <1>5
    <3> QED BY <3>1, <1>4
  <2>2. R(f) \subseteq R(m)
    BY <1>1, <1>4, <1>5
  <2>3. LastOf(m, x) = LastOf(f, x)
    BY <1>1, <1>3, <1>5, <1>7, <2>1, <2>2
  <2>4. Meant(m, x) = Meant(f, x)
    BY <2>3 DEF Meant
  <2> QED BY <2>4, <1>5, <1>7
<1> QED BY <1>6, <1>7

-----------------------------------------------------------------------------
(* Parsers.                                                                     *)
LEMMA NoScope == <<>> \in Scopes /\ DOMAIN <<>> = {}
<1>1. <<>> \in [{} -> Nat] /\ DOMAIN <<>> = {}
  OBVIOUS
<1> QED BY <1>1 DEF Scopes

LEMMA NewParser ==
    ASSUME InputOK, NEW M, NEW I, NEW m \in DOMAIN files
    PROVE  Parser(m) \in Parsers /\ OnTop(M, I, Parser(m))
<1> DEFINE p == Parser(m)
<1>1. /\ p.module = m /\ p.imports = files[m].imports /\ p.decls = files[m].decls
      /\ p.scope = <<>> /\ p.imported = {}
  BY DEF Parser
<1>2. m \in Modules /\ files[m].imports \in Seq(Modules) /\ files[m].decls \in Seq(Names)
  BY DEF InputOK
<1>3. p \in Parsers
  <2>1. {} \in SUBSET Modules
    OBVIOUS
  <2> QED BY <1>2, <2>1, NoScope DEF Parser, Parsers
<1> HIDE DEF p
<1>4. Taken(p) = 0 /\ Count(p) = 0 /\ Own(p) = {}
  BY <1>1, <1>2 DEF Taken, Count, Own, Imps, Decs
<1>5. Rests(p)
  BY <1>1, <1>2, <1>4 DEF Rests, Imps, Decs
<1>6. ImportsOK(I, p, p.imported, Taken(p))
  BY <1>1, <1>4 DEF ImportsOK
<1>7. ScopeOK(M, p, p.imported)
  <2>1. Declared({}) = {}
    BY DEF Declared
  <2> QED BY <1>1, <1>4, <2>1, NoScope DEF ScopeOK
<1> QED BY <1>3, <1>4, <1>5, <1>6, <1>7 DEF OnTop, p

(* The list that is left of a parser, once its head is taken.                      *)
LEMMA TakenOne ==
    ASSUME InputOK, NEW p \in Parsers, Rests(p), p.imports # <<>>,
           NEW q, q.module = p.module, q.imports = Tail(p.imports), q.decls = p.decls
    PROVE  /\ Rests(q) /\ Taken(q) = Taken(p) + 1 /\ Taken(p) \in Nat /\ Count(q) = Count(p)
           /\ Own(q) = Own(p) /\ Taken(q) \in 1..Len(Imps(p)) /\ Head(p.imports) = Imps(p)[Taken(q)]
           /\ Imps(q) = Imps(p) /\ Decs(q) = Decs(p)
<1>1. Imps(q) = Imps(p) /\ Decs(q) = Decs(p) /\ Imps(p) \in Seq(Modules) /\ Decs(p) \in Seq(Names)
  BY DEF InputOK, Rests, Imps, Decs
<1>2. p.imports \in Seq(Modules) /\ p.decls \in Seq(Names)
  BY DEF Parsers
<1>3. /\ Len(p.imports) \in Nat \ {0} /\ Len(q.imports) = Len(p.imports) - 1
      /\ \A i \in 1..Len(q.imports) : q.imports[i] = p.imports[i + 1]
      /\ Head(p.imports) = p.imports[1]
  BY <1>2
<1>4. Taken(p) \in Nat /\ Taken(q) = Taken(p) + 1 /\ Count(q) = Count(p) /\ Taken(q) \in 1..Len(Imps(p))
  <2>1. Len(Imps(p)) \in Nat /\ Len(p.imports) \in Nat /\ Len(p.imports) <= Len(Imps(p))
    BY <1>1, <1>2 DEF Rests
  <2>2. Taken(p) = Len(Imps(p)) - Len(p.imports) /\ Taken(q) = Len(Imps(p)) - Len(q.imports)
    BY <1>1 DEF Taken
  <2>3. Count(q) = Count(p)
    BY <1>1 DEF Count
  <2> DEFINE a == Len(Imps(p))
             b == Len(p.imports)
             c == Len(q.imports)
  <2>4. a \in Nat /\ b \in Nat \ {0} /\ b <= a /\ c = b - 1 /\ Taken(p) = a - b /\ Taken(q) = a - c
    BY <2>1, <2>2, <1>3
  <2> HIDE DEF a, b, c
  <2>5. Taken(p) \in Nat /\ Taken(q) = Taken(p) + 1 /\ Taken(q) \in 1..a
    BY <2>4
  <2> QED BY <2>5, <2>3 DEF a
<1>5. Own(q) = Own(p)
  BY <1>1, <1>4 DEF Own
<1>6. Head(p.imports) = Imps(p)[Taken(q)]
  BY <1>3, <1>4 DEF Rests
<1>7. ASSUME NEW i \in 1..Len(q.imports) PROVE q.imports[i] = Imps(q)[Taken(q) + i]
  <2>1. i + 1 \in 1..Len(p.imports) /\ Taken(p) + (i + 1) = Taken(q) + i
    BY <1>3, <1>4, <1>7
  <2> QED BY <1>1, <1>3, <2>1 DEF Rests
<1>8. Rests(q)
  BY <1>1, <1>2, <1>3, <1>4, <1>7 DEF Rests
<1> QED BY <1>1, <1>4, <1>5, <1>6, <1>8

LEMMA ScopeSame ==
    ASSUME NEW M, NEW D, NEW p, NEW q, ScopeOK(M, p, D), q.module = p.module, q.scope = p.scope,
           Count(q) = Count(p), Own(q) = Own(p), Decs(q) = Decs(p)
    PROVE  ScopeOK(M, q, D)
BY DEF ScopeOK

LEMMA Skipped ==
    ASSUME InputOK, NEW M, NEW I, NEW p \in Parsers, OnTop(M, I, p), p.imports # <<>>, Head(p.imports) \in p.imported
    PROVE  LET q == [p EXCEPT !.imports = Tail(@)] IN q \in Parsers /\ OnTop(M, I, q)
<1> DEFINE q == [p EXCEPT !.imports = Tail(@)]
<1>1. /\ q.module = p.module /\ q.imports = Tail(p.imports) /\ q.decls = p.decls
      /\ q.scope = p.scope /\ q.imported = p.imported
  BY DEF Parsers
<1>2. q \in Parsers
  <2>1. Tail(p.imports) \in Seq(Modules)
    BY DEF Parsers
  <2> QED BY <2>1 DEF Parsers
<1> HIDE DEF q
<1>3. /\ Rests(q) /\ Taken(q) = Taken(p) + 1 /\ Taken(p) \in Nat /\ Count(q) = Count(p)
      /\ Own(q) = Own(p) /\ Head(p.imports) = Imps(p)[Taken(q)]
      /\ Imps(q) = Imps(p) /\ Decs(q) = Decs(p)
  BY <1>1, TakenOne DEF OnTop
<1>4. ImportsOK(I, q, q.imported, Taken(q))
  BY <1>1, <1>3 DEF OnTop, ImportsOK
<1>5. ScopeOK(M, q, q.imported)
  BY <1>1, <1>3, ScopeSame DEF OnTop
<1>6. Count(q) = 0
  BY <1>3 DEF OnTop
<1>7. OnTop(M, I, q)
  BY <1>3, <1>4, <1>5, <1>6 DEF OnTop
<1> QED BY <1>2, <1>7 DEF q

LEMMA Importing ==
    ASSUME InputOK, NEW M, NEW I, NEW p \in Parsers, OnTop(M, I, p), p.imports # <<>>, Head(p.imports) \notin p.imported
    PROVE  LET q == [p EXCEPT !.imports = Tail(@), !.imported = @ \cup {Head(p.imports)}]
           IN  /\ q \in Parsers /\ q.module = p.module /\ Under(M, I, q, Head(p.imports))
               /\ Head(p.imports) \in Needs(p.module) /\ Head(p.imports) \in Modules
<1> DEFINE c == Head(p.imports)
           q == [p EXCEPT !.imports = Tail(@), !.imported = @ \cup {c}]
<1>1. /\ q.module = p.module /\ q.imports = Tail(p.imports) /\ q.decls = p.decls
      /\ q.scope = p.scope /\ q.imported = p.imported \cup {c}
  BY DEF Parsers
<1>2. q \in Parsers /\ c \in Modules
  <2>1. p.imports \in Seq(Modules) /\ Tail(p.imports) \in Seq(Modules) /\ c \in Modules
    BY DEF Parsers
  <2>2. p.imported \cup {c} \in SUBSET Modules
    BY <2>1 DEF Parsers
  <2> HIDE DEF c
  <2> QED BY <2>1, <2>2 DEF Parsers
<1> HIDE DEF q
<1>3. /\ Rests(q) /\ Taken(q) = Taken(p) + 1 /\ Taken(p) \in Nat /\ Count(q) = Count(p)
      /\ Own(q) = Own(p) /\ Taken(q) \in 1..Len(Imps(p)) /\ c = Imps(p)[Taken(q)]
      /\ Imps(q) = Imps(p) /\ Decs(q) = Decs(p)
  BY <1>1, TakenOne DEF OnTop
<1>4. q.imported \ {c} = p.imported
  BY <1>1
<1>5. ImportsOK(I, q, p.imported, Taken(q) - 1)
  BY <1>1, <1>3 DEF OnTop, ImportsOK
<1>6. ScopeOK(M, q, p.imported)
  BY <1>1, <1>3, ScopeSame DEF OnTop
<1>7. Count(q) = 0 /\ Taken(q) >= 1 /\ c = Imps(q)[Taken(q)] /\ c \in q.imported
  BY <1>1, <1>3 DEF OnTop
<1>8. Under(M, I, q, c)
  BY <1>3, <1>4, <1>5, <1>6, <1>7 DEF Under
<1>9. c \in Needs(p.module)
  BY <1>3, ImportNeeded DEF OnTop, Rests, Imps
<1> QED BY <1>1, <1>2, <1>8, <1>9 DEF q

(* Once all imports are there, what is known is what is needed.                    *)
LEMMA AllImported ==
    ASSUME InputOK, NEW M, NEW I, NEW p \in Parsers, OnTop(M, I, p), p.imports = <<>>
    PROVE  Needs(p.module) = p.imported
<1> DEFINE m == p.module
<1>1. m \in DOMAIN files /\ m \in Modules /\ Imps(p) = files[m].imports /\ Imps(p) \in Seq(Modules)
  BY DEF OnTop, Rests, InputOK, Imps
<1>2. Taken(p) = Len(Imps(p))
  BY <1>1 DEF Taken
<1>3. /\ \A i \in 1..Len(Imps(p)) : Imps(p)[i] \in p.imported
      /\ p.imported \subseteq Needs(m)
      /\ \A d \in p.imported : Needs(d) \subseteq p.imported
  BY <1>2 DEF OnTop, ImportsOK
<1>4. p.imported \in SUBSET Modules
  BY DEF Parsers
<1>5. Imported[m] \subseteq p.imported
  BY <1>1, <1>3 DEF Imported, RangeOf
<1>6. ASSUME NEW d \in p.imported PROVE Imported[d] \subseteq p.imported
  BY <1>3, <1>4, NeedsIs
<1>7. Needs(m) \subseteq p.imported
  BY <1>1, <1>4, <1>5, <1>6, NeedsIs
<1> QED BY <1>3, <1>7

LEMMA CountedOne ==
    ASSUME InputOK, NEW p \in Parsers, Rests(p), p.decls # <<>>,
           NEW q, q.module = p.module, q.imports = p.imports, q.decls = Tail(p.decls)
    PROVE  /\ Rests(q) /\ Taken(q) = Taken(p) /\ Count(p) \in Nat /\ Count(q) = Count(p) + 1
           /\ Count(q) \in 1..Len(Decs(p)) /\ Head(p.decls) = Decs(p)[Count(q)] /\ Own(q) = Own(p) \cup {Head(p.decls)}
           /\ Imps(q) = Imps(p) /\ Decs(q) = Decs(p)
<1>1. Imps(q) = Imps(p) /\ Decs(q) = Decs(p) /\ Imps(p) \in Seq(Modules) /\ Decs(p) \in Seq(Names)
  BY DEF InputOK, Rests, Imps, Decs
<1>2. p.imports \in Seq(Modules) /\ p.decls \in Seq(Names)
  BY DEF Parsers
<1>3. /\ Len(p.decls) \in Nat \ {0} /\ Len(q.decls) = Len(p.decls) - 1
      /\ \A i \in 1..Len(q.decls) : q.decls[i] = p.decls[i + 1]
      /\ Head(p.decls) = p.decls[1]
  BY <1>2
<1>4. Count(p) \in Nat /\ Count(q) = Count(p) + 1 /\ Taken(q) = Taken(p) /\ Count(q) \in 1..Len(Decs(p))
  <2>1. Len(Decs(p)) \in Nat /\ Len(p.decls) \in Nat /\ Len(p.decls) <= Len(Decs(p))
    BY <1>1, <1>2 DEF Rests
  <2>2. Count(p) = Len(Decs(p)) - Len(p.decls) /\ Count(q) = Len(Decs(p)) - Len(q.decls)
    BY <1>1 DEF Count
  <2>3. Taken(q) = Taken(p)
    BY <1>1 DEF Taken
  <2> DEFINE a == Len(Decs(p))
             b == Len(p.decls)
             c == Len(q.decls)
  <2>4. a \in Nat /\ b \in Nat \ {0} /\ b <= a /\ c = b - 1 /\ Count(p) = a - b /\ Count(q) = a - c
    BY <2>1, <2>2, <1>3
  <2> HIDE DEF a, b, c
  <2>5. Count(p) \in Nat /\ Count(q) = Count(p) + 1 /\ Count(q) \in 1..a
    BY <2>4
  <2> QED BY <2>5, <2>3 DEF a
<1>5. Head(p.decls) = Decs(p)[Count(q)]
  BY <1>3, <1>4 DEF Rests
<1>6. Own(q) = Own(p) \cup {Head(p.decls)}
  <2>1. 1..Count(q) = (1..Count(p)) \cup {Count(q)}
    BY <1>4
  <2> QED BY <1>1, <1>5, <2>1 DEF Own
<1>7. ASSUME NEW i \in 1..Len(q.decls) PROVE q.decls[i] = Decs(q)[Count(q) + i]
  <2> DEFINE a == Len(p.decls)
             b == Len(q.decls)
             c == Count(p)
             d == Count(q)
  <2>0. a \in Nat /\ b = a - 1 /\ c \in Nat /\ d = c + 1 /\ i \in 1..b
    BY <1>3, <1>4, <1>7
  <2> HIDE DEF a, b, c, d
  <2>2. i + 1 \in 1..a /\ c + (i + 1) = d + i
    BY <2>0
  <2>1. i + 1 \in 1..Len(p.decls) /\ Count(p) + (i + 1) = Count(q) + i
    BY <2>2 DEF a, c, d
  <2> QED BY <1>1, <1>3, <2>1 DEF Rests
<1>8. Rests(q)
  BY <1>1, <1>2, <1>3, <1>4, <1>7 DEF Rests
<1> QED BY <1>1, <1>4, <1>5, <1>6, <1>8

LEMMA MergeIs ==
    ASSUME NEW f \in Scopes, NEW g \in Scopes
    PROVE  /\ Merge(f, g) \in Scopes /\ DOMAIN Merge(f, g) = DOMAIN f \cup DOMAIN g
           /\ \A x \in DOMAIN f : Merge(f, g)[x] = f[x]
           /\ \A x \in DOMAIN g \ DOMAIN f : Merge(f, g)[x] = g[x]
<1>1. PICK S \in SUBSET Names : f \in [S -> Nat]
  BY DEF Scopes
<1>2. PICK T \in SUBSET Names : g \in [T -> Nat]
  BY DEF Scopes
<1>3. Merge(f, g) \in [S \cup T -> Nat] /\ S \cup T \in SUBSET Names
  BY <1>1, <1>2 DEF Merge
<1> QED BY <1>1, <1>2, <1>3 DEF Merge, Scopes

LEMMA AppendIs ==
    ASSUME NEW M \in Seq(Decls), NEW e \in Decls
    PROVE  /\ Append(M, e) \in Seq(Decls) /\ Len(M) \in Nat /\ DOMAIN M = 1..Len(M)
           /\ DOMAIN Append(M, e) = 1..Len(M) + 1 /\ Append(M, e)[Len(M) + 1] = e
           /\ \A i \in DOMAIN M : i \in DOMAIN Append(M, e) /\ Append(M, e)[i] = M[i]
<1> HIDE DEF Decls
<1> QED OBVIOUS

LEMMA Declaring ==
    ASSUME InputOK, NEW M \in Seq(Decls), NEW I, NEW p \in Parsers, OnTop(M, I, p), p.imports = <<>>, p.decls # <<>>,
           Head(p.decls) \notin DOMAIN p.scope
    PROVE  LET e == [module |-> p.module, name |-> Head(p.decls), sees |-> p.scope]
               q == [p EXCEPT !.decls = Tail(@), !.scope = Merge(@, [x \in {Head(p.decls)} |-> Len(M) + 1])]
           IN  /\ e \in Decls /\ q \in Parsers /\ q.module = p.module
               /\ OnTop(Append(M, e), I, q) /\ DeclOK(Append(M, e), Len(M) + 1)
<1> DEFINE name == Head(p.decls)
           new  == [x \in {name} |-> Len(M) + 1]
           e == [module |-> p.module, name |-> name, sees |-> p.scope]
           q == [p EXCEPT !.decls = Tail(@), !.scope = Merge(@, new)]
           m == p.module
           M2 == Append(M, e)
<1>1. /\ m \in Modules /\ p.decls \in Seq(Names) /\ name \in Names /\ Tail(p.decls) \in Seq(Names) /\ p.scope \in Scopes
      /\ Len(M) + 1 \in Nat
  BY DEF Parsers
<1>2. new \in Scopes /\ DOMAIN new = {name} /\ new[name] = Len(M) + 1
  <2>1. new \in [{name} -> Nat] /\ {name} \in SUBSET Names
    BY <1>1
  <2> QED BY <2>1 DEF Scopes
<1>3. e \in Decls /\ e.module = m /\ e.name = name /\ e.sees = p.scope
  BY <1>1 DEF Decls
<1> HIDE DEF new, e, name
<1>4. /\ Merge(p.scope, new) \in Scopes /\ DOMAIN Merge(p.scope, new) = DOMAIN p.scope \cup {name}
      /\ \A x \in DOMAIN p.scope : Merge(p.scope, new)[x] = p.scope[x]
      /\ name \notin DOMAIN p.scope => Merge(p.scope, new)[name] = Len(M) + 1
  <2>1. /\ Merge(p.scope, new) \in Scopes /\ DOMAIN Merge(p.scope, new) = DOMAIN p.scope \cup DOMAIN new
        /\ \A x \in DOMAIN p.scope : Merge(p.scope, new)[x] = p.scope[x]
        /\ \A x \in DOMAIN new \ DOMAIN p.scope : Merge(p.scope, new)[x] = new[x]
    BY <1>1, <1>2, MergeIs
  <2> QED BY <2>1, <1>2
<1>5. /\ q.module = p.module /\ q.imports = p.imports /\ q.decls = Tail(p.decls)
      /\ q.scope = Merge(p.scope, new) /\ q.imported = p.imported
  BY DEF Parsers
<1>6. q \in Parsers
  BY <1>1, <1>4 DEF Parsers
<1> HIDE DEF q
<1>7. /\ M2 \in Seq(Decls) /\ Len(M) \in Nat /\ DOMAIN M = 1..Len(M)
      /\ DOMAIN M2 = 1..Len(M) + 1 /\ M2[Len(M) + 1] = e
      /\ \A i \in DOMAIN M : i \in DOMAIN M2 /\ M2[i] = M[i]
  BY <1>3, AppendIs
<1> HIDE DEF M2
<1>8. /\ Rests(q) /\ Taken(q) = Taken(p) /\ Count(p) \in Nat /\ Count(q) = Count(p) + 1
      /\ Count(q) \in 1..Len(Decs(p)) /\ name = Decs(p)[Count(q)] /\ Own(q) = Own(p) \cup {name}
      /\ Imps(q) = Imps(p) /\ Decs(q) = Decs(p)
  BY <1>5, CountedOne DEF OnTop, name
<1>9. ScopeOK(M, p, p.imported) /\ Needs(m) = p.imported /\ m \in DOMAIN files
  BY AllImported DEF OnTop, Rests
<1>10. name \notin DOMAIN p.scope /\ name \notin Declared(p.imported) /\ name \notin Own(p)
  BY <1>9 DEF ScopeOK, name
<1>11. Meant(m, name) = m
  BY <1>1, <1>9, <1>10, FollowIs, MeantIs
<1>12. ScopeOK(M2, q, q.imported)
  <2>1. DOMAIN q.scope = Declared(q.imported) \cup Own(q)
    BY <1>4, <1>5, <1>8, <1>9 DEF ScopeOK
  <2>2. Own(q) \cap Declared(q.imported) = {}
    BY <1>5, <1>8, <1>9, <1>10 DEF ScopeOK
  <2>3. ASSUME NEW i \in 1..Count(q), NEW j \in 1..Count(q), Decs(q)[i] = Decs(q)[j] PROVE i = j
    <3>1. \A k \in 1..Count(p) : Decs(p)[k] \in Own(p)
      BY DEF Own
    <3>2. \A k \in 1..Count(p) : Decs(p)[k] # Decs(p)[Count(q)]
      BY <3>1, <1>8, <1>10
    <3>3. \A k \in 1..Count(q) : k = Count(q) \/ k \in 1..Count(p)
      BY <1>8
    <3>4. \A a, b \in 1..Count(p) : Decs(p)[a] = Decs(p)[b] => a = b
      BY <1>9 DEF ScopeOK
    <3> QED BY <2>3, <3>2, <3>3, <3>4, <1>8
  <2>4. ASSUME NEW x \in DOMAIN p.scope
        PROVE  /\ q.scope[x] \in DOMAIN M2 /\ M2[q.scope[x]].name = x /\ M2[q.scope[x]].module = Meant(q.module, x)
               /\ M2[q.scope[x]].module \in IF x \in Own(q) THEN {q.module} ELSE q.imported
    <3>1. q.scope[x] = p.scope[x] /\ p.scope[x] \in DOMAIN M /\ x # name
      BY <1>4, <1>5, <1>9, <1>10 DEF ScopeOK
    <3>2. x \in Own(q) <=> x \in Own(p)
      BY <3>1, <1>8
    <3>3. /\ M[p.scope[x]].name = x /\ M[p.scope[x]].module = Meant(m, x)
          /\ M[p.scope[x]].module \in IF x \in Own(p) THEN {m} ELSE p.imported
      BY <1>9 DEF ScopeOK
    <3> QED BY <3>1, <3>2, <3>3, <1>5, <1>7
  <2>5. /\ q.scope[name] = Len(M) + 1 /\ name \in Own(q)
    BY <1>4, <1>5, <1>8, <1>10
  <2>6. ASSUME NEW x \in DOMAIN q.scope
        PROVE  /\ q.scope[x] \in DOMAIN M2 /\ M2[q.scope[x]].name = x /\ M2[q.scope[x]].module = Meant(q.module, x)
               /\ M2[q.scope[x]].module \in IF x \in Own(q) THEN {q.module} ELSE q.imported
    <3>1. CASE x = name
      <4>1. Len(M) + 1 \in DOMAIN M2
        BY <1>7
      <4> QED BY <3>1, <4>1, <2>5, <1>3, <1>5, <1>7, <1>11
    <3>2. CASE x # name
      BY <3>2, <2>4, <1>4, <1>5
    <3> QED BY <3>1, <3>2
  <2> QED BY <2>1, <2>2, <2>3, <2>6 DEF ScopeOK
<1>13. OnTop(M2, I, q)
  <2>1. ImportsOK(I, q, q.imported, Taken(q))
    BY <1>5, <1>8 DEF OnTop, ImportsOK
  <2> QED BY <2>1, <1>5, <1>8, <1>12 DEF OnTop
<1>14. DeclOK(M2, Len(M) + 1)
  <2> DEFINE n == Len(M) + 1
  <2>1. M2[n].module = m /\ M2[n].name = name /\ M2[n].sees = p.scope
    BY <1>3, <1>7
  <2>2. Decs(p) = files[m].decls /\ Decs(p) \in Seq(Names) /\ DOMAIN Decs(p) = 1..Len(Decs(p))
    BY <1>9 DEF Decs, InputOK
  <2>3. Count(q) - 1 = Count(p)
    BY <1>8
  <2>4. DOMAIN p.scope = Declared(Needs(m)) \cup {files[m].decls[j] : j \in 1..Count(q)-1}
    BY <1>9, <2>2, <2>3 DEF ScopeOK, Own
  <2>5. Count(q) \in DOMAIN files[m].decls /\ files[m].decls[Count(q)] = name
    BY <1>8, <2>2
  <2>6. ASSUME NEW x \in DOMAIN p.scope
        PROVE  p.scope[x] \in 1..n-1 /\ M2[p.scope[x]].name = x /\ M2[p.scope[x]].module = Meant(m, x)
    <3>1. /\ p.scope[x] \in DOMAIN M /\ M[p.scope[x]].name = x /\ M[p.scope[x]].module = Meant(m, x)
      BY <1>9 DEF ScopeOK
    <3>2. n - 1 = Len(M)
      BY <1>7
    <3> QED BY <3>1, <3>2, <1>7
  <2> HIDE DEF n
  <2>7. \E b \in DOMAIN files[m].decls :
          /\ files[m].decls[b] = name
          /\ DOMAIN p.scope = Declared(Needs(m)) \cup {files[m].decls[j] : j \in 1..b-1}
    BY <2>4, <2>5
  <2>8. DeclOK(M2, n)
    BY <1>9, <2>1, <2>6, <2>7 DEF DeclOK
  <2> QED BY <2>8 DEF n
<1> QED BY <1>3, <1>5, <1>6, <1>13, <1>14 DEF q, e, M2, name, new

(* A name that is there already is declared twice.                                *)
LEMMA DeclaredTwice ==
    ASSUME InputOK, NEW M, NEW I, NEW p \in Parsers, OnTop(M, I, p), p.imports = <<>>, p.decls # <<>>,
           Head(p.decls) \in DOMAIN p.scope
    PROVE  ~Good(p.module)
<1> DEFINE name == Head(p.decls)
           m == p.module
           q == [p EXCEPT !.decls = Tail(@)]
<1>1. q.module = p.module /\ q.imports = p.imports /\ q.decls = Tail(p.decls)
  BY DEF Parsers
<1> HIDE DEF q
<1>2. /\ Count(p) \in Nat /\ Count(q) = Count(p) + 1 /\ Count(q) \in 1..Len(Decs(p)) /\ name = Decs(p)[Count(q)]
  BY <1>1, CountedOne DEF OnTop
<1>3. Decs(p) = files[m].decls /\ Decs(p) \in Seq(Names) /\ DOMAIN Decs(p) = 1..Len(Decs(p))
  BY DEF OnTop, Rests, Decs, InputOK
<1>4. name \in RangeOf(files[m].decls)
  BY <1>2, <1>3 DEF RangeOf
<1>5. DOMAIN p.scope = Declared(Needs(m)) \cup Own(p)
  <2>1. Needs(m) = p.imported
    BY AllImported
  <2> QED BY <2>1 DEF OnTop, ScopeOK
<1> HIDE DEF name
<1>6. CASE name \in Declared(Needs(m))
  BY <1>4, <1>6 DEF Good
<1>7. CASE name \in Own(p)
  <2>1. PICK j \in 1..Count(p) : Decs(p)[j] = name
    BY <1>7 DEF Own
  <2>2. j \in DOMAIN files[m].decls /\ Count(q) \in DOMAIN files[m].decls /\ j # Count(q)
    BY <1>2, <1>3
  <2> QED BY <2>1, <2>2, <1>2, <1>3 DEF Good
<1> QED BY <1>5, <1>6, <1>7 DEF name

(* At its end a module has declared all of it, and is well.                        *)
LEMMA Ended ==
    ASSUME InputOK, NEW M, NEW I, WorldOK(M, I), NEW p \in Parsers, OnTop(M, I, p), p.imports = <<>>, p.decls = <<>>
    PROVE  /\ p.module \in DOMAIN files /\ p.module \in Modules /\ Needs(p.module) = p.imported /\ p.imported \subseteq I
           /\ Own(p) = RangeOf(files[p.module].decls)
           /\ Good(p.module) /\ Made(M, p.module)
<1> DEFINE m == p.module
<1>1. /\ m \in DOMAIN files /\ m \in Modules /\ Decs(p) = files[m].decls /\ Decs(p) \in Seq(Names)
      /\ DOMAIN Decs(p) = 1..Len(Decs(p))
  BY DEF OnTop, Rests, InputOK, Decs
<1>2. Needs(m) = p.imported
  BY AllImported
<1>3. p.imported \subseteq I /\ ScopeOK(M, p, p.imported)
  BY DEF OnTop, ImportsOK
<1>4. Count(p) = Len(Decs(p))
  BY <1>1 DEF Count
<1>5. Own(p) = RangeOf(files[m].decls)
  BY <1>1, <1>4 DEF Own, RangeOf
<1>6. m \notin Needs(m)
  BY <1>2, <1>3 DEF WorldOK, Good
<1>7. Good(m)
  <2>1. RangeOf(files[m].decls) \cap Declared(Needs(m)) = {}
    BY <1>2, <1>3, <1>5 DEF ScopeOK
  <2>2. \A i, j \in DOMAIN files[m].decls : files[m].decls[i] = files[m].decls[j] => i = j
    BY <1>1, <1>3, <1>4 DEF ScopeOK
  <2> QED BY <1>1, <1>6, <2>1, <2>2 DEF Good
<1>8. ASSUME NEW x \in RangeOf(files[m].decls) PROVE \E i \in DOMAIN M : M[i].module = m /\ M[i].name = x
  <2>1. x \in Own(p) /\ x \in DOMAIN p.scope
    BY <1>3, <1>5 DEF ScopeOK
  <2>2. p.scope[x] \in DOMAIN M /\ M[p.scope[x]].name = x /\ M[p.scope[x]].module = m
    BY <1>3, <2>1 DEF ScopeOK
  <2> QED BY <2>2
<1>9. Made(M, m)
  BY <1>8 DEF Made
<1> QED BY <1>1, <1>2, <1>3, <1>5, <1>7, <1>9

(* What the World knows, once it gets the name of that module.                     *)
LEMMA Remembered ==
    ASSUME InputOK, NEW M, NEW I, WorldOK(M, I), NEW p \in Parsers, OnTop(M, I, p), p.imports = <<>>, p.decls = <<>>,
           p.module \in From(Roots)
    PROVE  WorldOK(M, I \cup {p.module})
<1>1. /\ Needs(p.module) \subseteq I /\ Good(p.module) /\ Made(M, p.module)
  BY Ended
<1> QED BY <1>1 DEF WorldOK

(* The parser that has imported it gets all that it knows.                         *)
LEMMA Returned ==
    ASSUME InputOK, NEW M, NEW I, WorldOK(M, I), NEW c \in Parsers, OnTop(M, I, c), c.imports = <<>>, c.decls = <<>>,
           NEW p \in Parsers, Under(M, I, p, c.module)
    PROVE  LET q == [p EXCEPT !.scope = Merge(@, c.scope), !.imported = @ \cup c.imported]
           IN  q \in Parsers /\ q.module = p.module /\ OnTop(M, I \cup {c.module}, q)
<1> DEFINE q == [p EXCEPT !.scope = Merge(@, c.scope), !.imported = @ \cup c.imported]
           m == p.module
           n == c.module
           D == p.imported \ {n}
           a == Taken(p)
<1>1. /\ n \in DOMAIN files /\ n \in Modules /\ Needs(n) = c.imported /\ c.imported \subseteq I
      /\ Own(c) = RangeOf(files[n].decls)
  BY Ended
<1>2. /\ Rests(p) /\ ImportsOK(I, p, D, a - 1) /\ ScopeOK(M, p, D) /\ Count(p) = 0 /\ a >= 1
      /\ n = Imps(p)[a] /\ n \in p.imported
  BY DEF Under
<1>3. /\ m \in DOMAIN files /\ m \in Modules /\ Imps(p) = files[m].imports /\ Imps(p) \in Seq(Modules)
      /\ p.imports \in Seq(Modules) /\ p.scope \in Scopes /\ c.scope \in Scopes
      /\ p.imported \subseteq Modules /\ c.imported \subseteq Modules
  BY <1>2 DEF Rests, InputOK, Imps, Parsers
<1>4. /\ Merge(p.scope, c.scope) \in Scopes /\ DOMAIN Merge(p.scope, c.scope) = DOMAIN p.scope \cup DOMAIN c.scope
      /\ \A x \in DOMAIN p.scope : Merge(p.scope, c.scope)[x] = p.scope[x]
      /\ \A x \in DOMAIN c.scope \ DOMAIN p.scope : Merge(p.scope, c.scope)[x] = c.scope[x]
  BY <1>3, MergeIs
<1>5. /\ q.module = m /\ q.imports = p.imports /\ q.decls = p.decls
      /\ q.scope = Merge(p.scope, c.scope) /\ q.imported = p.imported \cup c.imported
  BY DEF Parsers
<1>6. q \in Parsers
  BY <1>3, <1>4 DEF Parsers
<1> HIDE DEF q
<1>7. /\ Imps(q) = Imps(p) /\ Decs(q) = Decs(p) /\ Taken(q) = a /\ Count(q) = 0 /\ Own(q) = {} /\ Own(p) = {}
  BY <1>2, <1>5 DEF Imps, Decs, Taken, Count, Own
<1>8. a \in 1..Len(files[m].imports)
  <2> DEFINE b == Len(Imps(p))
             e == Len(p.imports)
  <2>1. b \in Nat /\ e \in Nat /\ a = b - e /\ a >= 1
    BY <1>2, <1>3 DEF Taken
  <2> HIDE DEF a, b, e
  <2>2. a \in 1..b
    BY <2>1
  <2> QED BY <1>3, <2>2 DEF b
<1> HIDE DEF a
<1>9. n \in Needs(m) /\ Needs(n) \subseteq Needs(m)
  BY <1>2, <1>3, <1>8, ImportNeeded
<1>10. q.imported = D \cup {n} \cup Needs(n)
  BY <1>1, <1>2, <1>5
<1>11. Rests(q)
  BY <1>2, <1>5, <1>7 DEF Rests, a
<1>12. ImportsOK(I \cup {n}, q, q.imported, a)
  <2>1. ASSUME NEW i \in 1..a PROVE Imps(q)[i] \in q.imported
    <3>1. i = a \/ i \in 1..a-1
      BY <1>8
    <3>2. \A j \in 1..a-1 : Imps(p)[j] \in D
      BY <1>2 DEF ImportsOK
    <3> QED BY <3>1, <3>2, <1>2, <1>7, <1>10
  <2>2. q.imported \subseteq Needs(m)
    BY <1>2, <1>9, <1>10 DEF ImportsOK
  <2>3. q.imported \subseteq I \cup {n}
    BY <1>1, <1>2, <1>10 DEF ImportsOK
  <2>4. ASSUME NEW d \in q.imported PROVE Needs(d) \subseteq q.imported
    <3>1. CASE d \in D
      BY <3>1, <1>2, <1>10 DEF ImportsOK
    <3>2. CASE d = n
      BY <3>2, <1>10
    <3>3. CASE d \in Needs(n)
      BY <3>3, <1>1, <1>10, NeedsIs
    <3> QED BY <3>1, <3>2, <3>3, <1>10
  <2> HIDE DEF n
  <2> QED BY <2>1, <2>2, <2>3, <2>4, <1>5 DEF ImportsOK
<1>13. ASSUME NEW x \in DOMAIN c.scope, x \notin DOMAIN p.scope
       PROVE  Meant(m, x) = Meant(n, x)
  <2>1. x \in Declared({n} \cup Needs(n))
    <3>1. DOMAIN c.scope = Declared(Needs(n)) \cup RangeOf(files[n].decls)
      BY <1>1 DEF OnTop, ScopeOK
    <3>2. Declared({n} \cup Needs(n)) = RangeOf(files[n].decls) \cup Declared(Needs(n))
      <4> HIDE DEF n
      <4>1. Declared({n}) = RangeOf(files[n].decls)
        BY <1>1, DeclaredOne
      <4> QED BY <4>1, DeclaredBoth
    <3> QED BY <3>1, <3>2
  <2>2. x \notin Declared(D)
    BY <1>2, <1>13 DEF ScopeOK
  <2>3. ASSUME NEW j \in 1..a-1 PROVE ~Knows(Imps(p)[j], x)
    <3>1. Imps(p)[j] \in D /\ Needs(Imps(p)[j]) \subseteq D
      BY <1>2 DEF ImportsOK
    <3>2. {Imps(p)[j]} \cup Needs(Imps(p)[j]) \subseteq D
      BY <3>1
    <3> HIDE DEF D
    <3> QED BY <3>2, <2>2, DeclaredGrows DEF Knows
  <2>4. Knows(n, x)
    BY <2>1 DEF Knows
  <2>5. Follow(m, x) = n
    BY <1>2, <1>3, <1>8, <2>3, <2>4, FollowIs
  <2> QED BY <2>5, <1>3, MeantIs
<1>14. ScopeOK(M, q, q.imported)
  <2>1. DOMAIN q.scope = Declared(q.imported)
    <3>1. DOMAIN p.scope = Declared(D)
      BY <1>2, <1>7 DEF ScopeOK
    <3>2. DOMAIN c.scope = Declared(Needs(n)) \cup RangeOf(files[n].decls)
      BY <1>1 DEF OnTop, ScopeOK
    <3>3. Declared(D \cup {n} \cup Needs(n)) = Declared(D) \cup RangeOf(files[n].decls) \cup Declared(Needs(n))
      <4> HIDE DEF n, D
      <4>1. Declared({n}) = RangeOf(files[n].decls)
        BY <1>1, DeclaredOne
      <4>2. Declared(D \cup {n} \cup Needs(n)) = Declared(D \cup {n}) \cup Declared(Needs(n))
        BY DeclaredBoth
      <4> QED BY <4>1, <4>2, DeclaredBoth
    <3> QED BY <3>1, <3>2, <3>3, <1>4, <1>5, <1>10
  <2>2. ASSUME NEW x \in DOMAIN q.scope
        PROVE  /\ q.scope[x] \in DOMAIN M /\ M[q.scope[x]].name = x
               /\ M[q.scope[x]].module = Meant(m, x) /\ M[q.scope[x]].module \in q.imported
    <3>1. CASE x \in DOMAIN p.scope
      <4>1. q.scope[x] = p.scope[x]
        BY <3>1, <1>4, <1>5
      <4>2. /\ p.scope[x] \in DOMAIN M /\ M[p.scope[x]].name = x
            /\ M[p.scope[x]].module = Meant(m, x) /\ M[p.scope[x]].module \in D
        BY <3>1, <1>2, <1>7 DEF ScopeOK
      <4> QED BY <4>1, <4>2, <1>10
    <3>2. CASE x \notin DOMAIN p.scope
      <4>1. q.scope[x] = c.scope[x] /\ x \in DOMAIN c.scope
        BY <3>2, <1>4, <1>5
      <4>2. /\ c.scope[x] \in DOMAIN M /\ M[c.scope[x]].name = x
            /\ M[c.scope[x]].module = Meant(n, x) /\ M[c.scope[x]].module \in {n} \cup c.imported
        BY <4>1 DEF OnTop, ScopeOK
      <4> QED BY <4>1, <4>2, <3>2, <1>1, <1>10, <1>13
    <3> QED BY <3>1, <3>2
  <2>3. \A i, j \in 1..Count(q) : i = j
    BY <1>7
  <2> HIDE DEF D, n, m
  <2> QED BY <2>1, <2>2, <2>3, <1>5, <1>7 DEF ScopeOK, m
<1>15. OnTop(M, I \cup {n}, q)
  BY <1>5, <1>7, <1>11, <1>12, <1>14 DEF OnTop
<1> QED BY <1>5, <1>6, <1>15 DEF q

-----------------------------------------------------------------------------
(* Nothing that has been made or that the World knows gets lost.                    *)
Extends(M, N) == DOMAIN M \subseteq DOMAIN N /\ \A i \in DOMAIN M : N[i] = M[i]

LEMMA OnTopStays ==
    ASSUME NEW M, NEW N, NEW I, NEW J, Extends(M, N), I \subseteq J, NEW p, OnTop(M, I, p)
    PROVE  OnTop(N, J, p)
<1>1. ImportsOK(J, p, p.imported, Taken(p))
  BY DEF OnTop, ImportsOK
<1>2. ScopeOK(N, p, p.imported)
  BY DEF OnTop, ScopeOK, Extends
<1> QED BY <1>1, <1>2 DEF OnTop

LEMMA UnderStays ==
    ASSUME NEW M, NEW N, NEW I, NEW J, Extends(M, N), I \subseteq J, NEW p, NEW c, Under(M, I, p, c)
    PROVE  Under(N, J, p, c)
<1>1. ImportsOK(J, p, p.imported \ {c}, Taken(p) - 1)
  BY DEF Under, ImportsOK
<1>2. ScopeOK(N, p, p.imported \ {c})
  BY DEF Under, ScopeOK, Extends
<1> QED BY <1>1, <1>2 DEF Under

LEMMA DeclStays ==
    ASSUME NEW M \in Seq(Decls), NEW N, Extends(M, N), NEW i \in DOMAIN M, DeclOK(M, i)
    PROVE  DeclOK(N, i)
<1>1. i \in DOMAIN N /\ N[i] = M[i]
  BY DEF Extends
<1>2. ASSUME NEW x \in DOMAIN M[i].sees
      PROVE  N[M[i].sees[x]] = M[M[i].sees[x]]
  <2>1. M[i].sees[x] \in 1..i-1
    BY DEF DeclOK
  <2>2. DOMAIN M = 1..Len(M) /\ Len(M) \in Nat /\ i \in Nat
    OBVIOUS
  <2>3. M[i].sees[x] \in DOMAIN M
    BY <2>1, <2>2
  <2> QED BY <2>3 DEF Extends
<1> QED BY <1>1, <1>2 DEF DeclOK

LEMMA WorldStays ==
    ASSUME NEW M, NEW N, NEW I, Extends(M, N), WorldOK(M, I)
    PROVE  WorldOK(N, I)
<1>1. ASSUME NEW d, Made(M, d) PROVE Made(N, d)
  BY <1>1 DEF Made, Extends
<1> QED BY <1>1 DEF WorldOK

-----------------------------------------------------------------------------
(* The stack, when a parser of it works on, or goes on after those that it imported. *)
LEMMA Replaced ==
    ASSUME InputOK, NEW M, NEW N, NEW I, NEW J, Extends(M, N), I \subseteq J,
           NEW S \in Seq(Parsers), StackOK(M, I, S), NEW n \in 1..Len(S), NEW q, OnTop(N, J, q), q.module = S[n].module,
           NEW R, Len(R) = n, R[n] = q, \A k \in 1..n-1 : R[k] = S[k]
    PROVE  StackOK(N, J, R)
<1>1. \A k \in 1..n : R[k].module = S[k].module /\ k \in 1..Len(S)
  OBVIOUS
<1>2. ASSUME NEW k \in 1..n
      PROVE  IF k = n THEN OnTop(N, J, R[k]) ELSE Under(N, J, R[k], R[k + 1].module)
  <2>1. CASE k = n
    BY <2>1
  <2>2. CASE k # n
    <3>1. k \in 1..n-1 /\ k + 1 \in 1..n /\ k \in 1..Len(S) /\ k # Len(S)
      BY <2>2
    <3>2. Under(M, I, S[k], S[k + 1].module)
      BY <3>1 DEF StackOK
    <3>3. Under(N, J, S[k], S[k + 1].module)
      BY <3>2, UnderStays
    <3> QED BY <3>1, <3>3, <1>1, <2>2
  <2> QED BY <2>1, <2>2
<1>3. ASSUME NEW k \in 1..n, NEW j \in 1..k-1
      PROVE  R[k].module \in Needs(R[j].module)
  <2>1. j \in 1..n /\ k \in 1..Len(S)
    OBVIOUS
  <2> QED BY <2>1, <1>1 DEF StackOK
<1>4. ASSUME NEW k \in 1..n, k > 1 PROVE R[k].module \in From(Roots)
  BY <1>1, <1>4 DEF StackOK
<1> QED BY <1>2, <1>3, <1>4 DEF StackOK

(* What the module that main() parses needs.                                      *)
LEMMA AskedIs ==
    ASSUME InputOK
    PROVE  /\ Asked \subseteq Modules /\ Roots \subseteq Modules /\ All \in Seq(Modules)
           /\ Len(All) = Len(input.dialects) + 1 /\ Len(input.dialects) \in Nat
           /\ RangeOf(input.dialects) = {All[i] : i \in 1..Len(input.dialects)} /\ All[Len(All)] = Main
           /\ Asked = {All[i] : i \in 1..Len(All)}
           /\ From(Roots) \subseteq From(Asked) /\ Asked \subseteq From(Asked)
           /\ \A m \in Asked : Needs(m) \subseteq From(Roots)
<1>1. Main \in Modules /\ input.dialects \in Seq(Modules)
  BY DEF InputOK
<1>2. RangeOf(input.dialects) \subseteq Modules
  BY <1>1 DEF RangeOf
<1>3. Imported[Main] \subseteq Modules
  BY <1>1, ImportedIs
<1>4. Asked \subseteq Modules /\ Roots \subseteq Modules
  BY <1>1, <1>2, <1>3 DEF Asked, Roots
<1>5. /\ All \in Seq(Modules) /\ Len(All) = Len(input.dialects) + 1 /\ Len(input.dialects) \in Nat
      /\ All[Len(All)] = Main /\ \A i \in 1..Len(input.dialects) : All[i] = input.dialects[i]
  BY <1>1 DEF All
<1>6. RangeOf(input.dialects) = {All[i] : i \in 1..Len(input.dialects)}
  BY <1>1, <1>5 DEF RangeOf
<1> HIDE DEF All
<1>7. Asked = {All[i] : i \in 1..Len(All)}
  <2> DEFINE n == Len(input.dialects)
  <2>1. n \in Nat /\ Len(All) = n + 1
    BY <1>5
  <2> HIDE DEF n
  <2>2. 1..Len(All) = (1..n) \cup {Len(All)}
    BY <2>1
  <2> QED BY <2>2, <1>5, <1>6 DEF Asked, n
<1>8. Asked \subseteq From(Asked)
  BY <1>4, FromIs
<1>9. From(Roots) \subseteq From(Asked)
  <2>1. /\ From(Asked) \subseteq Modules /\ \A d \in From(Asked) : Imported[d] \subseteq From(Asked)
    BY <1>4, FromIs
  <2>2. Roots \subseteq From(Asked)
    BY <2>1, <1>8 DEF Roots, Asked
  <2> QED BY <2>1, <2>2, <1>4, FromIs
<1>10. ASSUME NEW m \in Asked PROVE Needs(m) \subseteq From(Roots)
  <2>1. /\ Roots \subseteq From(Roots) /\ From(Roots) \subseteq Modules
        /\ \A d \in From(Roots) : Imported[d] \subseteq From(Roots)
    BY <1>4, FromIs
  <2>2. Imported[m] \subseteq From(Roots)
    BY <2>1 DEF Asked, Roots
  <2> QED BY <2>1, <2>2, <1>4, NeedsIs
<1> QED BY <1>4, <1>5, <1>6, <1>7, <1>8, <1>9, <1>10

(* All that the parsers at work need is asked for.                                 *)
LEMMA Wanted ==
    ASSUME InputOK, NEW M, NEW I, NEW S \in Seq(Parsers), StackOK(M, I, S), S # <<>>, S[1].module \in Asked,
           NEW k \in 1..Len(S)
    PROVE  /\ S[k].module \in Modules /\ S[k].module \in From(Asked) /\ Needs(S[k].module) \subseteq From(Roots)
<1>1. S[k].module \in Modules
  <2>1. S[k] \in Parsers
    OBVIOUS
  <2> QED BY <2>1 DEF Parsers
<1>2. CASE k = 1
  BY <1>2, AskedIs
<1>3. CASE k > 1
  <2>1. S[k].module \in From(Roots)
    BY <1>3 DEF StackOK
  <2>2. Roots \subseteq Modules /\ From(Roots) \subseteq From(Asked)
    BY AskedIs
  <2>3. /\ From(Roots) \subseteq Modules /\ \A d \in From(Roots) : Imported[d] \subseteq From(Roots)
    BY <2>2, FromIs
  <2>4. Needs(S[k].module) \subseteq From(Roots)
    BY <2>1, <2>3, NeedsIs
  <2> QED BY <1>1, <2>1, <2>2, <2>4
<1> QED BY <1>2, <1>3

LEMMA Pushed ==
    ASSUME InputOK, NEW M, NEW I, NEW S \in Seq(Parsers), StackOK(M, I, S), S # <<>>, S[1].module \in Asked,
           NEW q \in Parsers, q.module = S[Len(S)].module, NEW c \in DOMAIN files, Under(M, I, q, c), c \in Needs(q.module)
    PROVE  StackOK(M, I, Append([S EXCEPT ![Len(S)] = q], Parser(c)))
<1> DEFINE n == Len(S)
           r == Parser(c)
           R == Append([S EXCEPT ![n] = q], r)
<1>1. r \in Parsers /\ OnTop(M, I, r) /\ r.module = c
  BY NewParser DEF Parser
<1> HIDE DEF r
<1>2. n \in Nat /\ n >= 1
  OBVIOUS
<1>3. /\ Len(R) = n + 1 /\ R[n + 1] = r /\ R[n] = q /\ \A k \in 1..n-1 : R[k] = S[k]
  <2> HIDE DEF Parsers
  <2> QED OBVIOUS
<1> HIDE DEF R
<1>4. \A k \in 1..n : R[k].module = S[k].module
  <2>1. \A k \in 1..n : k = n \/ k \in 1..n-1
    BY <1>2
  <2> QED BY <2>1, <1>3
<1>5. ASSUME NEW k \in 1..n+1
      PROVE  IF k = n + 1 THEN OnTop(M, I, R[k]) ELSE Under(M, I, R[k], R[k + 1].module)
  <2>1. CASE k = n + 1
    BY <2>1, <1>1, <1>3
  <2>2. CASE k = n
    BY <2>2, <1>1, <1>2, <1>3
  <2>3. CASE k \in 1..n-1
    <3>1. k + 1 \in 1..n /\ k \in 1..n /\ k # n
      BY <2>3, <1>2
    <3>2. Under(M, I, S[k], S[k + 1].module)
      BY <3>1 DEF StackOK
    <3>3. k # n + 1
      BY <2>3, <1>2
    <3> QED BY <3>1, <3>2, <3>3, <2>3, <1>3, <1>4
  <2> QED BY <2>1, <2>2, <2>3, <1>2
<1>6. \A j \in 1..n : c \in Needs(S[j].module)
  <2> SUFFICES ASSUME NEW j \in 1..n PROVE c \in Needs(S[j].module)
    OBVIOUS
  <2>1. CASE j = n
    BY <2>1
  <2>2. CASE j \in 1..n-1
    <3>1. S[n].module \in Needs(S[j].module)
      BY <2>2, <1>2 DEF StackOK
    <3>2. S[j] \in Parsers
      OBVIOUS
    <3>3. S[j].module \in Modules
      BY <3>2 DEF Parsers
    <3> QED BY <3>1, <3>3, NeedsIs
  <2> QED BY <2>1, <2>2, <1>2
<1>7. ASSUME NEW k \in 1..n+1, NEW j \in 1..k-1
      PROVE  R[k].module \in Needs(R[j].module)
  <2>1. j \in 1..n
    BY <1>2
  <2>2. CASE k = n + 1
    BY <2>1, <2>2, <1>1, <1>3, <1>4, <1>6
  <2>3. CASE k \in 1..n
    BY <2>1, <2>3, <1>4 DEF StackOK
  <2> QED BY <2>2, <2>3, <1>2
<1>8. ASSUME NEW k \in 1..n+1, k > 1 PROVE R[k].module \in From(Roots)
  <2>1. CASE k = n + 1
    <3>1. n \in 1..n /\ Needs(S[n].module) \subseteq From(Roots)
      BY <1>2, Wanted
    <3> QED BY <3>1, <2>1, <1>1, <1>3
  <2>2. CASE k \in 1..n
    BY <2>2, <1>8, <1>4 DEF StackOK
  <2> QED BY <2>1, <2>2, <1>2
<1>9. StackOK(M, I, R)
  BY <1>3, <1>5, <1>7, <1>8 DEF StackOK
<1> QED BY <1>9 DEF R, r

(* Too many parsers within one another: one of them is there twice.                 *)
LEMMA TooDeep ==
    ASSUME InputOK, NEW M, NEW I, NEW S \in Seq(Parsers), StackOK(M, I, S), S # <<>>, S[1].module \in Asked,
           Len(S) = MaxDepth, NEW c \in Needs(S[Len(S)].module)
    PROVE  Broken
<1> DEFINE n == Len(S)
           f == [k \in 1..n+1 |-> IF k = n + 1 THEN c ELSE S[k].module]
<1>1. n \in Nat /\ n >= 1
  OBVIOUS
<1>2. \A k \in 1..n : S[k].module \in Modules /\ S[k].module \in From(Asked)
  BY Wanted
<1>3. c \in Modules
  <2>1. n \in 1..n
    BY <1>1
  <2>2. S[n].module \in Modules
    BY <2>1, <1>2
  <2> QED BY <2>2, NeedsIs
<1>4. f \in [1..n+1 -> Modules]
  <2> SUFFICES ASSUME NEW k \in 1..n+1, k # n + 1 PROVE S[k].module \in Modules
    BY <1>3
  <2>1. k \in 1..n
    BY <1>1
  <2> QED BY <2>1, <1>2
<1>5. IsFiniteSet(1..n+1) /\ Cardinality(1..n+1) = n + 1
  <2>1. 1 \in Int /\ n + 1 \in Int
    BY <1>1
  <2>2. IsFiniteSet(1..n+1) /\ Cardinality(1..n+1) = IF 1 > n+1 THEN 0 ELSE (n+1) - 1 + 1
    BY <2>1, FS_Interval
  <2> QED BY <2>2, <1>1
<1>6. IsFiniteSet(Modules) /\ Cardinality(Modules) < n + 1
  <2>1. IsFiniteSet(Modules) /\ Cardinality(Modules) \in Nat /\ Cardinality(Modules) <= n
    BY FS_CardinalityType DEF InputOK
  <2> QED BY <2>1, <1>1
<1> HIDE DEF f
<1>7. PICK j, k \in 1..n+1 : j # k /\ f[j] = f[k]
  BY <1>4, <1>5, <1>6, FS_PigeonHole
<1>8. \A b \in 1..n : c \in Needs(S[b].module)
  <2> SUFFICES ASSUME NEW b \in 1..n PROVE c \in Needs(S[b].module)
    OBVIOUS
  <2>1. CASE b = n
    BY <2>1
  <2>2. CASE b \in 1..n-1
    <3>1. S[n].module \in Needs(S[b].module)
      BY <2>2, <1>1 DEF StackOK
    <3> QED BY <3>1, <1>2, NeedsIs
  <2> QED BY <2>1, <2>2, <1>1
<1>9. \A a \in 1..n+1 : \A b \in 1..a-1 : f[a] \in Needs(f[b]) /\ f[b] \in From(Asked)
  <2> SUFFICES ASSUME NEW a \in 1..n+1, NEW b \in 1..a-1 PROVE f[a] \in Needs(f[b]) /\ f[b] \in From(Asked)
    OBVIOUS
  <2>1. b \in 1..n /\ b \in 1..n+1 /\ b # n + 1
    BY <1>1
  <2>2. f[b] = S[b].module /\ f[b] \in From(Asked)
    BY <2>1, <1>2 DEF f
  <2>3. CASE a = n + 1
    BY <2>1, <2>2, <2>3, <1>8 DEF f
  <2>4. CASE a \in 1..n
    <3>1. f[a] = S[a].module
      BY <2>4, <1>1 DEF f
    <3> QED BY <2>2, <2>4, <3>1 DEF StackOK
  <2> QED BY <2>2, <2>3, <2>4, <1>1
<1>10. \E m \in From(Asked) : m \in Needs(m)
  <2>1. j \in 1..k-1 \/ k \in 1..j-1
    BY <1>7, <1>1
  <2> QED BY <2>1, <1>7, <1>9
<1> QED BY <1>10 DEF Broken, Good

-----------------------------------------------------------------------------
(* What does not change with what is parsed.                                      *)
LEMMA SameInput ==
    ASSUME UNCHANGED input
    PROVE  /\ InputOK' = InputOK /\ files' = files /\ Asked' = Asked /\ Broken' = Broken
           /\ From(RangeOf(input.dialects) \cup Imported[Main])' = From(Roots)
           /\ From(Asked)' = From(Asked)
           /\ \A M, I, S : StackOK(M, I, S)' = StackOK(M, I, S)
           /\ \A M, I : WorldOK(M, I)' = WorldOK(M, I)
           /\ \A M, i : DeclOK(M, i)' = DeclOK(M, i)
           /\ \A T, S, I : MainOK(T, S, I)' = MainOK(T, S, I)
<1>1. files' = files /\ Imported' = Imported /\ All' = All /\ Asked' = Asked
  BY DEF files, Imported, All, Asked
<1>2. \A S : From(S)' = From(S)
  BY <1>1 DEF From
<1>3. \A m : Needs(m)' = Needs(m)
  BY <1>1, <1>2 DEF Needs
<1>4. \A S : Declared(S)' = Declared(S)
  BY <1>1 DEF Declared
<1>5. \A m, x : Knows(m, x)' = Knows(m, x)
  BY <1>3, <1>4 DEF Knows
<1>6. \A m, x : Follow(m, x)' = Follow(m, x)
  <2>1. \A m, x : Knowing(m, x)' = Knowing(m, x)
    BY <1>1, <1>5 DEF Knowing
  <2> DEFINE First(K) == CHOOSE i \in K : \A j \in K : i <= j
  <2>2. \A m, x : Follow(m, x) = IF m \notin DOMAIN files \/ Knowing(m, x) = {} THEN m
                                 ELSE files[m].imports[First(Knowing(m, x))]
    BY DEF Follow
  <2>3. \A m, x : Follow(m, x)' = IF m \notin DOMAIN files' \/ Knowing(m, x)' = {} THEN m
                                  ELSE files'[m].imports[First(Knowing(m, x)')]
    BY DEF Follow
  <2> HIDE DEF First
  <2> QED BY <1>1, <2>1, <2>2, <2>3
<1>7. \A m, x : Meant(m, x)' = Meant(m, x)
  BY <1>6 DEF Meant, LastOf
<1>8. Roots' = Roots /\ From(Roots)' = From(Roots) /\ From(Asked)' = From(Asked)
  BY <1>1, <1>2 DEF Roots
<1>9. /\ \A p : Rests(p)' = Rests(p) /\ Own(p)' = Own(p) /\ Count(p)' = Count(p) /\ Taken(p)' = Taken(p)
      /\ \A p : Imps(p)' = Imps(p) /\ Decs(p)' = Decs(p)
  BY <1>1 DEF Rests, Own, Count, Taken, Imps, Decs
<1>10. \A I, p, D, n : ImportsOK(I, p, D, n)' = ImportsOK(I, p, D, n)
  BY <1>3, <1>9 DEF ImportsOK
<1>11. \A M, p, D : ScopeOK(M, p, D)' = ScopeOK(M, p, D)
  BY <1>4, <1>7, <1>9 DEF ScopeOK
<1>12. \A M, I, p : OnTop(M, I, p)' = OnTop(M, I, p)
  BY <1>9, <1>10, <1>11 DEF OnTop
<1>13. \A M, I, p, c : Under(M, I, p, c)' = Under(M, I, p, c)
  BY <1>9, <1>10, <1>11 DEF Under
<1>14. \A M, I, S : StackOK(M, I, S)' = StackOK(M, I, S)
  BY <1>3, <1>8, <1>12, <1>13 DEF StackOK
<1>15. \A m : Good(m)' = Good(m)
  BY <1>1, <1>3, <1>4 DEF Good
<1>16. \A M, I : WorldOK(M, I)' = WorldOK(M, I)
  BY <1>1, <1>3, <1>8, <1>15 DEF WorldOK, Made
<1>17. \A M, i : DeclOK(M, i)' = DeclOK(M, i)
  BY <1>1, <1>3, <1>4, <1>7 DEF DeclOK
<1>18. \A T, S, I : MainOK(T, S, I)' = MainOK(T, S, I)
  BY <1>1 DEF MainOK, Begun
<1>19. Broken' = Broken
  BY <1>8, <1>15 DEF Broken
<1>20. InputOK' = InputOK
  BY <1>1 DEF InputOK
<1> QED BY <1>1, <1>8, <1>14, <1>16, <1>17, <1>18, <1>19, <1>20 DEF Roots

LEMMA NoParsers == <<>> \in Seq(Parsers) /\ \A M, I : StackOK(M, I, <<>>)
BY DEF StackOK

(* What the steps keep that go on, and those that end with an error.                *)
LEMMA GoesOn ==
    ASSUME IInv, UNCHANGED input, TypeOK', outcome' = "running",
           StackOK(made', imported_dialects', stack'), WorldOK(made', imported_dialects'),
           \A i \in DOMAIN made' : DeclOK(made', i), MainOK(todo', stack', imported_dialects')
    PROVE  IInv'
<1>1. /\ InputOK' /\ StackOK(made, imported_dialects, stack)' /\ WorldOK(made, imported_dialects)'
      /\ (\A i \in DOMAIN made : DeclOK(made, i))' /\ MainOK(todo, stack, imported_dialects)'
  BY SameInput DEF IInv
<1>2. Complete'
  BY DEF Complete
<1> QED BY <1>1, <1>2 DEF IInv

LEMMA Throws ==
    ASSUME IInv, UNCHANGED <<input, made, imported_dialects>>, todo' \in Seq(Modules),
           NEW what \in {"no file", "too deep", "declared twice"}, Throw(what), Broken
    PROVE  IInv'
<1>1. outcome' = what /\ stack' = <<>>
  BY DEF Throw
<1>2. /\ InputOK' /\ Broken' /\ WorldOK(made, imported_dialects)' /\ (\A i \in DOMAIN made : DeclOK(made, i))'
      /\ files' = files
  BY SameInput DEF IInv
<1>3. StackOK(made', imported_dialects', stack')
  BY <1>1, NoParsers
<1>4. StackOK(made, imported_dialects, stack)'
  BY <1>3, SameInput
<1>5. TypeOK'
  <2> QED BY <1>1, <1>2, NoParsers DEF IInv, TypeOK
<1>6. Complete'
  BY <1>1, <1>2 DEF Complete
<1> QED BY <1>1, <1>2, <1>4, <1>5, <1>6 DEF IInv

LEMMA Running ==
    ASSUME IInv, Busy
    PROVE  /\ InputOK /\ TypeOK /\ outcome = "running" /\ Len(stack) \in Nat /\ Len(stack) \in 1..Len(stack)
           /\ stack \in Seq(Parsers) /\ Top = stack[Len(stack)] /\ Top \in Parsers
           /\ StackOK(made, imported_dialects, stack) /\ WorldOK(made, imported_dialects)
           /\ OnTop(made, imported_dialects, Top) /\ Top.module \in From(Asked)
           /\ stack[1].module \in Asked /\ MainOK(todo, stack, imported_dialects)
           /\ \A i \in DOMAIN made : DeclOK(made, i)
           /\ Begun(todo) >= 1 /\ Begun(todo) <= Len(All)
<1>1. /\ InputOK /\ TypeOK /\ outcome = "running" /\ stack \in Seq(Parsers) /\ stack # <<>>
      /\ StackOK(made, imported_dialects, stack) /\ WorldOK(made, imported_dialects)
      /\ MainOK(todo, stack, imported_dialects) /\ \A i \in DOMAIN made : DeclOK(made, i)
  BY DEF IInv, Busy, TypeOK
<1>2. Len(stack) \in Nat /\ Len(stack) \in 1..Len(stack) /\ Top = stack[Len(stack)] /\ Top \in Parsers
  <2> HIDE DEF Parsers
  <2> QED BY <1>1 DEF Top
<1>3. OnTop(made, imported_dialects, Top)
  BY <1>1, <1>2 DEF StackOK
<1>4. Begun(todo) >= 1 /\ Begun(todo) <= Len(All) /\ Begun(todo) \in Int /\ stack[1].module = All[Begun(todo)]
  <2>1. Len(todo) \in Nat /\ Len(All) \in Nat
    BY <1>1, AskedIs DEF TypeOK
  <2> QED BY <2>1, <1>1 DEF MainOK, Begun
<1>5. stack[1].module \in Asked
  <2>1. Len(All) \in Nat /\ Asked = {All[i] : i \in 1..Len(All)}
    BY <1>1, AskedIs
  <2> QED BY <2>1, <1>4
<1>6. Top.module \in From(Asked)
  BY <1>1, <1>2, <1>5, Wanted
<1> QED BY <1>1, <1>2, <1>3, <1>4, <1>5, <1>6

LEMMA InitInv == InputsOK /\ Init => IInv
<1> SUFFICES ASSUME InputsOK, Init PROVE IInv
  OBVIOUS
<1>1. InputOK
  BY DEF InputsOK, Init, InputOK, files
<1>2. input.dialects \in Seq(Modules) /\ Main \in Modules /\ todo = All
  BY <1>1 DEF InputOK, Init, All
<1>3. All \in Seq(Modules) /\ Len(All) \in Nat /\ Len(All) >= 1
  BY <1>1, AskedIs
<1>4. TypeOK
  <2>1. <<>> \in Seq(Parsers) /\ <<>> \in Seq(Decls) /\ {} \subseteq Modules
    OBVIOUS
  <2> QED BY <1>2, <1>3, <2>1 DEF Init, TypeOK
<1>5. Begun(todo) = 0
  BY <1>2, <1>3 DEF Begun
<1>6. MainOK(todo, stack, imported_dialects)
  BY <1>2, <1>3, <1>5 DEF MainOK, Init
<1>7. StackOK(made, imported_dialects, stack) /\ WorldOK(made, imported_dialects) /\ Complete
  BY DEF StackOK, WorldOK, Complete, Init
<1>8. DOMAIN made = {}
  BY DEF Init
<1> QED BY <1>1, <1>4, <1>6, <1>7, <1>8 DEF IInv, Init

(* main() parses one module after another.                                        *)
LEMMA SameMain ==
    ASSUME NEW T, NEW S, NEW R, NEW I, NEW J, MainOK(T, S, I), S # <<>>, R # <<>>, R[1].module = S[1].module, I \subseteq J
    PROVE  MainOK(T, R, J)
BY DEF MainOK

LEMMA NextMain ==
    ASSUME InputOK, NEW T \in Seq(Modules), NEW I, MainOK(T, <<>>, I)
    PROVE  /\ T # <<>> /\ Head(T) \in Asked /\ Tail(T) \in Seq(Modules)
           /\ \A R : R # <<>> /\ R[1].module = Head(T) => MainOK(Tail(T), R, I)
<1> DEFINE a == Len(All)
           b == Len(T)
           c == Len(Tail(T))
<1>1. /\ T # <<>> /\ b <= a /\ Begun(T) = a - b /\ Begun(Tail(T)) = a - c
      /\ \A i \in 1..b : T[i] = All[Begun(T) + i]
      /\ \A i \in 1..Begun(T) : All[i] \in I
  BY DEF MainOK, Begun
<1>2. /\ Tail(T) \in Seq(Modules) /\ b \in Nat \ {0} /\ c = b - 1 /\ Head(T) = T[1]
      /\ \A i \in 1..c : Tail(T)[i] = T[i + 1]
  BY <1>1
<1>3. a \in Nat /\ Asked = {All[i] : i \in 1..a}
  BY AskedIs
<1> HIDE DEF a, b, c
<1>4. Begun(T) \in Nat /\ Begun(Tail(T)) = Begun(T) + 1 /\ Begun(T) + 1 \in 1..a /\ 1 \in 1..b /\ c <= a
  BY <1>1, <1>2, <1>3
<1>5. Head(T) = All[Begun(Tail(T))]
  BY <1>1, <1>2, <1>4
<1>6. Head(T) \in Asked
  BY <1>3, <1>4, <1>5
<1>7. ASSUME NEW i \in 1..c PROVE Tail(T)[i] = All[Begun(Tail(T)) + i]
  <2>1. i + 1 \in 1..b /\ Begun(T) + (i + 1) = Begun(Tail(T)) + i
    BY <1>2, <1>4
  <2> QED BY <2>1, <1>1, <1>2
<1>8. ASSUME NEW R, R # <<>>, R[1].module = Head(T) PROVE MainOK(Tail(T), R, I)
  <2>1. \A i \in 1..Begun(Tail(T))-1 : All[i] \in I
    BY <1>1, <1>4
  <2> QED BY <2>1, <1>4, <1>5, <1>7, <1>8 DEF MainOK, a, c
<1> QED BY <1>1, <1>2, <1>6, <1>8

LEMMA BeginInv == ASSUME IInv, Begin PROVE IInv'
<1> DEFINE m == Head(todo)
<1>1. /\ outcome = "running" /\ stack = <<>> /\ todo' = Tail(todo) /\ import_module(<<>>, m)
      /\ UNCHANGED <<input, made, imported_dialects>>
  BY DEF Begin
<1>2. /\ InputOK /\ TypeOK /\ MainOK(todo, <<>>, imported_dialects) /\ WorldOK(made, imported_dialects)
      /\ \A i \in DOMAIN made : DeclOK(made, i)
  BY <1>1 DEF IInv
<1>3. /\ m \in Asked /\ todo' \in Seq(Modules)
      /\ \A R : R # <<>> /\ R[1].module = m => MainOK(todo', R, imported_dialects)
  BY <1>1, <1>2, NextMain DEF TypeOK
<1> HIDE DEF m
<1>4. m \in From(Asked)
  BY <1>2, <1>3, AskedIs
<1>5. CASE m \notin DOMAIN files /\ Throw("no file")
  <2>1. Broken
    BY <1>4, <1>5 DEF Broken, Good
  <2> QED BY <2>1, <1>1, <1>3, <1>5, Throws
<1>6. CASE m \in DOMAIN files /\ Len(<<>>) = MaxDepth
  <2>1. Cardinality(Modules) \in Nat /\ Cardinality(Modules) <= 0 /\ IsFiniteSet(Modules) /\ Main \in Modules
    BY <1>2, <1>6, FS_CardinalityType DEF InputOK
  <2>2. Modules = {}
    BY <2>1, FS_EmptySet
  <2> QED BY <2>1, <2>2
<1>7. CASE m \in DOMAIN files /\ stack' = Append(<<>>, Parser(m)) /\ UNCHANGED outcome
  <2>1. Parser(m) \in Parsers /\ Parser(m).module = m /\ OnTop(made, imported_dialects, Parser(m))
    BY <1>2, <1>7, NewParser DEF Parser
  <2>2. stack' \in Seq(Parsers) /\ stack' # <<>> /\ Len(stack') = 1 /\ stack'[1] = Parser(m)
    <3> HIDE DEF Parsers
    <3> QED BY <2>1, <1>7
  <2>3. StackOK(made', imported_dialects', stack')
    <3>1. \A k \in 1..Len(stack') : k = 1
      BY <2>2
    <3> QED BY <2>1, <2>2, <3>1, <1>1 DEF StackOK
  <2>4. MainOK(todo', stack', imported_dialects')
    BY <2>1, <2>2, <1>1, <1>3
  <2>5. TypeOK'
    <3>1. files' = files
      BY <1>1, SameInput
    <3> QED BY <2>2, <3>1, <1>1, <1>2, <1>3, <1>7 DEF TypeOK
  <2>6. WorldOK(made', imported_dialects') /\ (\A i \in DOMAIN made' : DeclOK(made', i)) /\ outcome' = "running"
    BY <1>1, <1>2, <1>7
  <2> QED BY <2>3, <2>4, <2>5, <2>6, <1>1, GoesOn
<1> QED BY <1>1, <1>5, <1>6, <1>7 DEF import_module

-----------------------------------------------------------------------------
(* A parser goes on.                                                            *)
LEMMA OnStack == ASSUME NEW S \in Seq(Parsers), NEW k \in 1..Len(S) PROVE S[k] \in Parsers
OBVIOUS

LEMMA Shorter ==
    ASSUME NEW S \in Seq(Parsers), Len(S) > 1, NEW q \in Parsers
    PROVE  LET R == Append(SubSeq(S, 1, Len(S) - 2), q)
           IN  /\ R \in Seq(Parsers) /\ Len(R) = Len(S) - 1 /\ R[Len(S) - 1] = q
               /\ \A k \in 1..Len(S)-2 : R[k] = S[k]
<1> DEFINE n == Len(S)
           P == SubSeq(S, 1, n - 2)
<1>1. n \in Nat /\ n - 2 \in Nat /\ n - 2 \in 0..n
  OBVIOUS
<1>2. P \in Seq(Parsers) /\ Len(P) = n - 2 /\ \A k \in 1..n-2 : P[k] = S[k]
  <2>1. \A i \in 1..n-2 : S[i] \in Parsers
    BY <1>1, OnStack
  <2>2. /\ P \in Seq(Parsers) /\ Len(P) = IF 1 <= n-2 THEN (n-2)-1+1 ELSE 0
        /\ \A i \in 1..(n-2)-1+1 : P[i] = S[1+i-1]
    BY <1>1, <2>1, SubSeqProperties
  <2> HIDE DEF P, n
  <2>3. ASSUME NEW i \in 1..n-2 PROVE i \in 1..(n-2)-1+1 /\ 1+i-1 = i
    BY <1>1
  <2>4. (n-2 >= 1 => (n-2)-1+1 = n-2) /\ (n-2 < 1 => n-2 = 0)
    BY <1>1
  <2>5. Len(P) = n - 2
    BY <1>1, <2>2, <2>4
  <2>6. ASSUME NEW i \in 1..n-2 PROVE P[i] = S[i]
    <3>1. P[i] = S[1+i-1]
      BY <2>2, <2>3
    <3> QED BY <3>1, <2>3
  <2> QED BY <2>2, <2>5, <2>6
<1> HIDE DEF P
<1>3. /\ Append(P, q) \in Seq(Parsers) /\ Len(Append(P, q)) = n - 1 /\ Append(P, q)[n - 1] = q
      /\ \A k \in 1..n-2 : Append(P, q)[k] = S[k]
  BY <1>1, <1>2
<1> QED BY <1>3 DEF P

LEMMA Longer == ASSUME NEW S \in Seq(Parsers), Len(S) >= 1 PROVE S # <<>>
OBVIOUS

LEMMA SetTopIs ==
    ASSUME NEW S \in Seq(Parsers), S # <<>>, NEW q \in Parsers, NEW R, R = [S EXCEPT ![Len(S)] = q]
    PROVE  /\ R \in Seq(Parsers) /\ R # <<>> /\ Len(R) = Len(S) /\ R[Len(S)] = q
           /\ \A k \in 1..Len(S)-1 : R[k] = S[k]
           /\ q.module = S[Len(S)].module => R[1].module = S[1].module
<1>1. Len(S) \in Nat /\ Len(S) >= 1
  OBVIOUS
<1>2. /\ R \in Seq(Parsers) /\ Len(R) = Len(S) /\ R[Len(S)] = q
      /\ \A k \in 1..Len(S)-1 : R[k] = S[k]
  <2> HIDE DEF Parsers
  <2> QED OBVIOUS
<1>3. R # <<>>
  <2>1. Len(<<>>) = 0
    OBVIOUS
  <2>2. Len(S) # 0
    OBVIOUS
  <2> QED BY <2>1, <2>2, <1>2, Zenon
<1> DEFINE n == Len(S)
<1> HIDE DEF n
<1>4. n \in Nat /\ n >= 1
  BY <1>1 DEF n
<1>5. n = 1 \/ 1 \in 1..n-1
  BY <1>4
<1> QED BY <1>2, <1>3, <1>5 DEF n

LEMMA SkipInv == ASSUME IInv, Skip PROVE IInv'
<1> DEFINE q == [Top EXCEPT !.imports = Tail(@)]
           M == made
           I == imported_dialects
<1>1. /\ Busy /\ Top.imports # <<>> /\ Head(Top.imports) \in Top.imported
      /\ stack' = [stack EXCEPT ![Len(stack)] = q]
      /\ UNCHANGED <<input, todo, made, imported_dialects, outcome>>
  BY DEF Skip, SetTop
<1>2. /\ InputOK /\ TypeOK /\ outcome = "running" /\ Len(stack) \in 1..Len(stack) /\ stack \in Seq(Parsers) /\ stack # <<>>
      /\ Top = stack[Len(stack)] /\ Top \in Parsers /\ OnTop(M, I, Top)
      /\ StackOK(M, I, stack) /\ WorldOK(M, I) /\ MainOK(todo, stack, I)
      /\ \A i \in DOMAIN M : DeclOK(M, i)
  BY <1>1, Running DEF Busy
<1>3. q \in Parsers /\ OnTop(M, I, q)
  BY <1>1, <1>2, Skipped
<1>4. q.module = Top.module
  BY <1>2 DEF Parsers
<1> HIDE DEF q
<1>5. /\ stack' \in Seq(Parsers) /\ stack' # <<>> /\ Len(stack') = Len(stack) /\ stack'[Len(stack)] = q
      /\ (\A k \in 1..Len(stack)-1 : stack'[k] = stack[k]) /\ stack'[1].module = stack[1].module
  BY <1>1, <1>2, <1>3, <1>4, SetTopIs
<1>6. StackOK(M, I, stack')
  <2>1. Extends(M, M)
    BY DEF Extends
  <2> QED BY <2>1, <1>2, <1>3, <1>4, <1>5, Replaced
<1>7. MainOK(todo, stack', I)
  BY <1>2, <1>5, SameMain
<1>8. TypeOK'
  <2>1. files' = files
    BY <1>1, SameInput
  <2> QED BY <2>1, <1>1, <1>2, <1>5 DEF TypeOK
<1> QED BY <1>1, <1>2, <1>6, <1>7, <1>8, GoesOn

LEMMA ImportInv == ASSUME IInv, Import PROVE IInv'
<1> DEFINE c == Head(Top.imports)
           q == [Top EXCEPT !.imports = Tail(@), !.imported = @ \cup {c}]
           S == [stack EXCEPT ![Len(stack)] = q]
           M == made
           I == imported_dialects
<1>1. /\ Busy /\ Top.imports # <<>> /\ c \notin Top.imported /\ import_module(S, c)
      /\ UNCHANGED <<input, todo, made, imported_dialects>>
  BY DEF Import, SetTop
<1>2. /\ InputOK /\ TypeOK /\ outcome = "running" /\ Len(stack) \in 1..Len(stack) /\ stack \in Seq(Parsers) /\ stack # <<>>
      /\ Top = stack[Len(stack)] /\ Top \in Parsers /\ OnTop(M, I, Top)
      /\ StackOK(M, I, stack) /\ WorldOK(M, I) /\ MainOK(todo, stack, I)
      /\ stack[1].module \in Asked /\ \A i \in DOMAIN M : DeclOK(M, i)
  BY <1>1, Running DEF Busy
<1>3. q \in Parsers /\ q.module = Top.module /\ Under(M, I, q, c) /\ c \in Needs(Top.module) /\ c \in Modules
  BY <1>1, <1>2, Importing
<1> HIDE DEF q, c
<1>4. S \in Seq(Parsers) /\ S # <<>> /\ Len(S) = Len(stack) /\ S[1].module = stack[1].module
  BY <1>2, <1>3, SetTopIs
<1>5. c \in From(Asked)
  <2>1. Needs(Top.module) \subseteq From(Roots)
    BY <1>2, Wanted
  <2>2. From(Roots) \subseteq From(Asked)
    BY <1>2, AskedIs
  <2> QED BY <2>1, <2>2, <1>3
<1>6. CASE c \notin DOMAIN files /\ Throw("no file")
  <2>1. Broken
    BY <1>5, <1>6 DEF Broken, Good
  <2>2. todo' \in Seq(Modules)
    BY <1>1, <1>2 DEF TypeOK
  <2> QED BY <2>1, <2>2, <1>1, <1>6, Throws
<1>7. CASE Len(S) = MaxDepth /\ Throw("too deep")
  <2>1. Broken
    BY <1>2, <1>3, <1>4, <1>7, TooDeep
  <2>2. todo' \in Seq(Modules)
    BY <1>1, <1>2 DEF TypeOK
  <2> QED BY <2>1, <2>2, <1>1, <1>7, Throws
<1>8. CASE c \in DOMAIN files /\ stack' = Append(S, Parser(c)) /\ UNCHANGED outcome
  <2>1. Parser(c) \in Parsers
    BY <1>2, <1>8, NewParser
  <2>2. stack' \in Seq(Parsers) /\ stack' # <<>> /\ stack'[1].module = stack[1].module
    <3> HIDE DEF S, Parsers
    <3>1. stack' \in Seq(Parsers) /\ stack' # <<>> /\ stack'[1] = S[1]
      BY <2>1, <1>4, <1>8
    <3> QED BY <3>1, <1>4
  <2>3. StackOK(M, I, stack')
    BY <1>2, <1>3, <1>8, Pushed
  <2>4. MainOK(todo, stack', I)
    BY <2>2, <1>2, SameMain
  <2>5. TypeOK'
    <3>1. files' = files
      BY <1>1, SameInput
    <3> QED BY <2>2, <3>1, <1>1, <1>2, <1>8 DEF TypeOK
  <2> HIDE DEF S
  <2> QED BY <1>1, <1>2, <1>8, <2>3, <2>4, <2>5, GoesOn
<1> QED BY <1>1, <1>6, <1>7, <1>8 DEF import_module

LEMMA DeclareInv == ASSUME IInv, Declare PROVE IInv'
<1> DEFINE name == Head(Top.decls)
           e == [module |-> Top.module, name |-> name, sees |-> Top.scope]
           q == [Top EXCEPT !.decls = Tail(@), !.scope = Merge(@, [x \in {name} |-> Len(made) + 1])]
           I == imported_dialects
<1>1. /\ Busy /\ Top.imports = <<>> /\ Top.decls # <<>>
      /\ UNCHANGED <<input, todo, imported_dialects>>
      /\ \/ /\ name \in DOMAIN Top.scope /\ Throw("declared twice") /\ UNCHANGED made
         \/ /\ name \notin DOMAIN Top.scope /\ UNCHANGED outcome
            /\ made' = Append(made, e) /\ stack' = [stack EXCEPT ![Len(stack)] = q]
  BY DEF Declare, SetTop
<1>2. /\ InputOK /\ TypeOK /\ outcome = "running" /\ Len(stack) \in 1..Len(stack) /\ stack \in Seq(Parsers) /\ stack # <<>>
      /\ Top = stack[Len(stack)] /\ Top \in Parsers /\ OnTop(made, I, Top)
      /\ StackOK(made, I, stack) /\ WorldOK(made, I) /\ MainOK(todo, stack, I)
      /\ Top.module \in From(Asked) /\ made \in Seq(Decls) /\ todo' \in Seq(Modules)
      /\ \A i \in DOMAIN made : DeclOK(made, i)
  BY <1>1, Running DEF Busy, TypeOK
<1>3. CASE name \in DOMAIN Top.scope /\ Throw("declared twice") /\ UNCHANGED made
  <2>1. ~Good(Top.module)
    BY <1>1, <1>2, <1>3, DeclaredTwice
  <2>2. Broken
    BY <2>1, <1>2 DEF Broken
  <2> QED BY <2>2, <1>1, <1>2, <1>3, Throws
<1>4. CASE /\ name \notin DOMAIN Top.scope /\ UNCHANGED outcome
           /\ made' = Append(made, e) /\ stack' = [stack EXCEPT ![Len(stack)] = q]
  <2>1. /\ e \in Decls /\ q \in Parsers /\ q.module = Top.module
        /\ OnTop(Append(made, e), I, q) /\ DeclOK(Append(made, e), Len(made) + 1)
    <3>1. /\ InputOK /\ made \in Seq(Decls) /\ Top \in Parsers /\ OnTop(made, I, Top)
          /\ Top.imports = <<>> /\ Top.decls # <<>> /\ Head(Top.decls) \notin DOMAIN Top.scope
      BY <1>1, <1>2, <1>4
    <3> QED BY <3>1, Declaring
  <2> HIDE DEF e, q
  <2>2. /\ made' \in Seq(Decls) /\ Len(made) \in Nat /\ DOMAIN made = 1..Len(made) /\ DOMAIN made' = 1..Len(made) + 1
        /\ Extends(made, made')
    BY <1>2, <1>4, <2>1, AppendIs DEF Extends
  <2>3. /\ stack' \in Seq(Parsers) /\ stack' # <<>> /\ Len(stack') = Len(stack) /\ stack'[Len(stack)] = q
        /\ (\A k \in 1..Len(stack)-1 : stack'[k] = stack[k]) /\ stack'[1].module = stack[1].module
    BY <1>2, <1>4, <2>1, SetTopIs
  <2>4. StackOK(made', I, stack')
    <3>1. OnTop(made', I, q) /\ q.module = stack[Len(stack)].module
      BY <1>2, <1>4, <2>1
    <3>2. /\ InputOK /\ Extends(made, made') /\ stack \in Seq(Parsers) /\ StackOK(made, I, stack)
          /\ Len(stack) \in 1..Len(stack) /\ Len(stack') = Len(stack) /\ stack'[Len(stack)] = q
          /\ \A k \in 1..Len(stack)-1 : stack'[k] = stack[k]
      BY <1>2, <2>2, <2>3
    <3> QED BY <3>1, <3>2, Replaced
  <2>5. MainOK(todo, stack', I)
    BY <1>2, <2>3, SameMain
  <2>6. WorldOK(made', I)
    BY <1>2, <2>2, WorldStays
  <2>7. ASSUME NEW i \in DOMAIN made' PROVE DeclOK(made', i)
    <3>1. CASE i \in DOMAIN made
      BY <3>1, <1>2, <2>2, DeclStays
    <3>2. CASE i = Len(made) + 1
      BY <3>2, <1>4, <2>1
    <3> QED BY <3>1, <3>2, <2>2
  <2>8. TypeOK'
    <3>1. files' = files
      BY <1>1, SameInput
    <3> QED BY <3>1, <1>1, <1>2, <1>4, <2>2, <2>3 DEF TypeOK
  <2> QED BY <1>1, <1>2, <1>4, <2>4, <2>5, <2>6, <2>7, <2>8, GoesOn
<1> QED BY <1>1, <1>3, <1>4

(* A parser ends.                                                               *)
LEMMA ReturnInv == ASSUME IInv, Return PROVE IInv'
<1> DEFINE n == Len(stack)
           c == Top.module
           I == imported_dialects
           J == I \cup {c}
           M == made
<1>1. /\ Busy /\ Top.imports = <<>> /\ Top.decls = <<>> /\ (n > 1 \/ todo # <<>>)
      /\ imported_dialects' = J
      /\ UNCHANGED <<input, todo, made, outcome>>
  BY DEF Return, AtEnd
<1>2. /\ InputOK /\ TypeOK /\ outcome = "running" /\ n \in Nat /\ n \in 1..n /\ stack \in Seq(Parsers) /\ stack # <<>>
      /\ Top = stack[n] /\ Top \in Parsers /\ OnTop(M, I, Top) /\ c \in Modules
      /\ StackOK(M, I, stack) /\ WorldOK(M, I) /\ MainOK(todo, stack, I)
      /\ stack[1].module \in Asked /\ Begun(todo) >= 1 /\ Begun(todo) <= Len(All)
      /\ \A i \in DOMAIN M : DeclOK(M, i)
  <2>1. Top \in Parsers /\ n \in Nat
    BY <1>1, Running
  <2>2. Top.module \in Modules
    BY <2>1 DEF Parsers
  <2> QED BY <1>1, <2>2, Running DEF Busy
<1>3. CASE n = 1
  <2>1. stack' = <<>> /\ todo # <<>>
    BY <1>1, <1>3 DEF Return
  <2>2. todo \in Seq(Modules) /\ Len(todo) \in Nat /\ Len(todo) >= 1
    BY <1>2, <2>1 DEF TypeOK
  <2>3. Begun(todo) \in 1..Len(input.dialects)
    <3>1. Len(All) = Len(input.dialects) + 1 /\ Len(input.dialects) \in Nat
      BY <1>2, AskedIs
    <3> QED BY <3>1, <2>2, <1>2 DEF Begun
  <2>4. c = All[Begun(todo)]
    BY <1>2, <1>3 DEF MainOK
  <2>5. c \in From(Roots)
    <3>1. c \in RangeOf(input.dialects) /\ Roots \subseteq Modules
      BY <1>2, <2>3, <2>4, AskedIs
    <3>2. Roots \subseteq From(Roots)
      BY <3>1, <1>2, FromIs
    <3> QED BY <3>1, <3>2 DEF Roots
  <2>6. WorldOK(M, J)
    BY <1>1, <1>2, <2>5, Remembered
  <2>7. MainOK(todo, <<>>, J)
    <3>1. /\ Len(todo) <= Len(All) /\ \A i \in 1..Len(todo) : todo[i] = All[Begun(todo) + i]
          /\ \A i \in 1..Begun(todo)-1 : All[i] \in I
      BY <1>2 DEF MainOK
    <3>2. Begun(todo) \in Nat
      BY <2>3
    <3>3. \A i \in 1..Begun(todo) : i = Begun(todo) \/ i \in 1..Begun(todo)-1
      BY <3>2
    <3>4. \A i \in 1..Begun(todo) : All[i] \in J
      BY <3>1, <3>3, <2>4
    <3> QED BY <3>1, <3>4, <2>1 DEF MainOK
  <2>8. TypeOK'
    <3>1. files' = files /\ J \subseteq Modules
      BY <1>1, <1>2, SameInput DEF TypeOK
    <3> QED BY <3>1, <2>1, <1>1, <1>2, NoParsers DEF TypeOK
  <2>9. StackOK(M, J, stack')
    BY <2>1, NoParsers
  <2> HIDE DEF J
  <2> QED BY <1>1, <1>2, <2>1, <2>6, <2>7, <2>8, <2>9, GoesOn
<1>4. CASE n > 1
  <2> DEFINE p == stack[n - 1]
             q == [p EXCEPT !.scope = Merge(@, Top.scope), !.imported = @ \cup Top.imported]
             R == Append(SubSeq(stack, 1, n - 2), q)
  <2>1. stack' = R
    BY <1>2, <1>4 DEF Return
  <2>2. n - 1 \in 1..n /\ n - 1 # n /\ n - 2 \in Nat /\ n - 1 \in 1..Len(stack)
    BY <1>2, <1>4
  <2>3. p \in Parsers /\ Under(M, I, p, c)
    <3>1. (n - 1) + 1 = n
      BY <1>2
    <3>2. Under(M, I, stack[n - 1], stack[(n - 1) + 1].module)
      BY <1>2, <2>2 DEF StackOK
    <3>3. p \in Parsers
      BY <1>2, <2>2, OnStack
    <3> QED BY <3>1, <3>2, <3>3, <1>2
  <2>4. q \in Parsers /\ q.module = p.module /\ OnTop(M, J, q)
    <3>1. /\ InputOK /\ WorldOK(M, I) /\ Top \in Parsers /\ OnTop(M, I, Top)
          /\ Top.imports = <<>> /\ Top.decls = <<>> /\ p \in Parsers /\ Under(M, I, p, Top.module)
      BY <1>1, <1>2, <2>3
    <3> HIDE DEF p
    <3> QED BY <3>1, Returned
  <2> HIDE DEF q
  <2>5. /\ R \in Seq(Parsers) /\ Len(R) = n - 1 /\ R[n - 1] = q /\ \A k \in 1..n-2 : R[k] = stack[k]
    <3>1. stack \in Seq(Parsers) /\ Len(stack) > 1 /\ q \in Parsers
      BY <1>2, <1>4, <2>4
    <3> QED BY <3>1, Shorter
  <2> HIDE DEF R
  <2>6. StackOK(M, J, R)
    <3>1. Extends(M, M) /\ I \subseteq J
      BY DEF Extends
    <3>2. \A k \in 1..(n-1)-1 : R[k] = stack[k]
      BY <2>5, <1>2
    <3> HIDE DEF J, c
    <3> QED BY <3>1, <3>2, <1>2, <2>2, <2>4, <2>5, Replaced
  <2>7. R # <<>> /\ R[1].module = stack[1].module
    <3>1. Len(R) >= 1
      BY <2>5, <1>2, <1>4
    <3>2. R # <<>>
      BY <3>1, <2>5, Longer
    <3> HIDE DEF n
    <3>3. n - 1 = 1 \/ 1 \in 1..n-2
      BY <1>2, <1>4
    <3> QED BY <3>2, <3>3, <2>4, <2>5
  <2>8. MainOK(todo, R, J)
    BY <2>7, <1>2, SameMain
  <2>9. c \in From(Roots)
    BY <1>2, <1>4 DEF StackOK
  <2>10. WorldOK(M, J)
    BY <1>1, <1>2, <2>9, Remembered
  <2>11. TypeOK'
    <3>1. files' = files /\ J \subseteq Modules
      BY <1>1, <1>2, SameInput DEF TypeOK
    <3> QED BY <3>1, <2>1, <2>5, <1>1, <1>2 DEF TypeOK
  <2> HIDE DEF J
  <2> QED BY <1>1, <1>2, <2>1, <2>6, <2>8, <2>10, <2>11, GoesOn
<1> HIDE DEF n
<1>5. n = 1 \/ n > 1
  BY <1>2
<1> QED BY <1>3, <1>4, <1>5

LEMMA ParsedInv == ASSUME IInv, Parsed PROVE IInv'
<1> DEFINE I == imported_dialects
           M == made
<1>1. /\ Busy /\ Top.imports = <<>> /\ Top.decls = <<>> /\ Len(stack) = 1 /\ todo = <<>>
      /\ stack' = <<>> /\ outcome' = "parsed"
      /\ UNCHANGED <<input, todo, made, imported_dialects>>
  BY DEF Parsed, AtEnd
<1>2. /\ InputOK /\ TypeOK /\ stack # <<>>
      /\ Top = stack[1] /\ Top \in Parsers /\ OnTop(M, I, Top)
      /\ WorldOK(M, I) /\ MainOK(todo, stack, I)
      /\ \A i \in DOMAIN M : DeclOK(M, i)
  BY <1>1, Running DEF Busy
<1>3. /\ Len(All) = Len(input.dialects) + 1 /\ Len(input.dialects) \in Nat /\ All[Len(All)] = Main
      /\ RangeOf(input.dialects) = {All[i] : i \in 1..Len(input.dialects)}
      /\ Asked \subseteq Modules /\ Roots \subseteq Modules
  BY <1>2, AskedIs
<1>4. Begun(todo) = Len(All)
  BY <1>1, <1>3 DEF Begun
<1>5. Top.module = Main /\ RangeOf(input.dialects) \subseteq I
  <2>1. Top.module = Main
    BY <1>2, <1>3, <1>4 DEF MainOK
  <2>2. \A i \in 1..Len(All)-1 : All[i] \in I
    BY <1>2, <1>4 DEF MainOK
  <2> HIDE DEF All
  <2> QED BY <2>1, <2>2, <1>3
<1>6. Main \in Modules /\ Needs(Main) \subseteq I /\ Good(Main) /\ Made(M, Main)
  BY <1>1, <1>2, <1>5, Ended
<1>7. I \subseteq Modules /\ I \subseteq From(Roots) /\ \A d \in I : Good(d) /\ Made(M, d) /\ Needs(d) \subseteq I
  BY <1>2 DEF TypeOK, WorldOK
<1>8. \A d \in I \cup {Main} : Imported[d] \subseteq I
  BY <1>2, <1>6, <1>7, NeedsIs
<1>9. I = From(Roots)
  <2>1. Roots \subseteq I
    BY <1>5, <1>8 DEF Roots
  <2>2. From(Roots) \subseteq I
    BY <2>1, <1>2, <1>3, <1>7, <1>8, FromIs
  <2> QED BY <2>2, <1>7
<1>10. From(Asked) \subseteq I \cup {Main}
  <2>1. Asked \subseteq I \cup {Main} /\ I \cup {Main} \in SUBSET Modules
    BY <1>5, <1>6, <1>7 DEF Asked
  <2>2. \A d \in I \cup {Main} : Imported[d] \subseteq I \cup {Main}
    BY <1>8
  <2> DEFINE C == I \cup {Main}
  <2>3. /\ C \in SUBSET Modules /\ Asked \subseteq C /\ \A d \in C : Imported[d] \subseteq C
        /\ InputOK /\ Asked \in SUBSET Modules
    BY <2>1, <2>2, <1>2, <1>3
  <2> HIDE DEF C
  <2>4. From(Asked) \subseteq C
    BY <2>3, FromIs
  <2> QED BY <2>4 DEF C
<1>11. ~Broken /\ \A m \in From(Asked) : Made(M, m)
  BY <1>6, <1>7, <1>10 DEF Broken
<1>12. Complete'
  <2>1. /\ files' = files /\ Broken' = Broken /\ From(Asked)' = From(Asked)
        /\ From(RangeOf(input.dialects) \cup Imported[Main])' = From(Roots)
    BY <1>1, SameInput
  <2>2. \A m : AllMade(m)' = Made(M, m)
    BY <2>1, <1>1 DEF AllMade, Made
  <2> HIDE DEF I, M
  <2>3. imported_dialects' = From(Roots)
    BY <1>1, <1>9 DEF I
  <2>4. \A m \in From(Asked)' : AllMade(m)'
    BY <2>1, <2>2, <1>11
  <2> QED BY <2>1, <2>3, <2>4, <1>1, <1>11 DEF Complete
<1>13. StackOK(M, I, <<>>) /\ <<>> \in Seq(Parsers)
  BY NoParsers
<1>14. /\ InputOK' /\ StackOK(made, imported_dialects, stack)' /\ WorldOK(made, imported_dialects)'
       /\ (\A i \in DOMAIN made : DeclOK(made, i))' /\ files' = files
  BY <1>1, <1>2, <1>13, SameInput
<1>15. TypeOK'
  BY <1>1, <1>2, <1>13, <1>14 DEF TypeOK
<1> QED BY <1>1, <1>12, <1>14, <1>15 DEF IInv

LEMMA StepInv == IInv /\ [Next]_vars => IInv'
<1> SUFFICES ASSUME IInv, [Next]_vars PROVE IInv'
  OBVIOUS
<1>1. CASE UNCHANGED vars
  <2>1. UNCHANGED <<input, todo, stack, made, imported_dialects, outcome>>
    BY <1>1 DEF vars
  <2>2. /\ InputOK' /\ StackOK(made, imported_dialects, stack)' /\ WorldOK(made, imported_dialects)'
        /\ (\A i \in DOMAIN made : DeclOK(made, i))' /\ files' = files
        /\ MainOK(todo, stack, imported_dialects)' = MainOK(todo, stack, imported_dialects)
        /\ Broken' = Broken /\ From(Asked)' = From(Asked)
        /\ From(RangeOf(input.dialects) \cup Imported[Main])' = From(Roots)
    BY <2>1, SameInput DEF IInv
  <2>3. Complete'
    <3>1. \A m : AllMade(m)' = AllMade(m)
      BY <2>1, <2>2 DEF AllMade
    <3> QED BY <2>1, <2>2, <3>1 DEF IInv, Complete, Roots
  <2>4. TypeOK'
    BY <2>1, <2>2 DEF IInv, TypeOK
  <2> QED BY <2>1, <2>2, <2>3, <2>4 DEF IInv
<1> QED BY <1>1, BeginInv, SkipInv, ImportInv, DeclareInv, ReturnInv, ParsedInv DEF Next

THEOREM Inductive == InputsOK /\ Spec => []IInv
BY InitInv, StepInv, PTL DEF Spec

(* The types: whatever the files are, no parser, scope or def is malformed.         *)
THEOREM Types == InputsOK /\ Spec => []TypeOK
<1>1. IInv => TypeOK
  BY DEF IInv
<1> QED BY <1>1, Inductive, PTL

(* A declaration sees the names that it should, no more and no less, and each means   *)
(* the declaration of the first import that knows it (parser.cpp:132-140).          *)
THEOREM SeesRight == InputsOK /\ Spec => [](Visible /\ Meaning)
<1>1. IInv => Visible /\ Meaning
  BY DEF IInv, DeclOK, Visible, SeesAll, Meaning
<1> QED BY <1>1, Inductive, PTL

(* Parsing ends well exactly if all files are there, none needs itself and none        *)
(* declares what it sees; then all has been made, and the World knows all dialects.   *)
THEOREM EndsRight == InputsOK /\ Spec => []Complete
<1>1. IInv => Complete
  BY DEF IInv
<1> QED BY <1>1, Inductive, PTL

(* What a parser knows is not imported again while it waits (parser.cpp:139).        *)
THEOREM NotAgain == InputsOK /\ Spec => []Fresh
<1>1. IInv => Fresh
  <2> SUFFICES ASSUME IInv, NEW k \in 1..Len(stack) - 1, NEW x \in DOMAIN stack[k].scope
               PROVE  made[stack[k].scope[x]].module # stack[k + 1].module
    BY DEF Fresh
  <2> DEFINE n == Len(stack)
             p == stack[k]
             c == stack[k + 1].module
  <2>0. stack \in Seq(Parsers) /\ StackOK(made, imported_dialects, stack)
    BY DEF IInv, TypeOK
  <2>1. stack \in Seq(Parsers) /\ StackOK(made, imported_dialects, stack) /\ n \in Nat
    BY <2>0
  <2>2. k \in 1..n /\ k # n
    BY <2>1
  <2>3. Under(made, imported_dialects, p, c)
    BY <2>1, <2>2 DEF StackOK
  <2>4. ScopeOK(made, p, p.imported \ {c}) /\ Count(p) = 0
    BY <2>3 DEF Under
  <2>5. Own(p) = {}
    BY <2>4 DEF Own
  <2>6. made[p.scope[x]].module \in p.imported \ {c}
    BY <2>4, <2>5 DEF ScopeOK
  <2> QED BY <2>6
<1> QED BY <1>1, Inductive, PTL

(* All that is promised of the parsers.                                          *)
THEOREM Sound == InputsOK /\ Spec => []ImportSound
BY SeesRight, EndsRight, NotAgain, PTL DEF ImportSound

=============================================================================
