------------------------------ MODULE Imports ------------------------------
(***************************************************************************)
(* Importing dialects.  main() imports the dialects that are loaded one       *)
(* after another, each with a parser of its own whose names are lost again,    *)
(* and then parses the program (cli/main.cpp).  A module that is imported      *)
(* gets a parser too, with its own names and its own set of what has been      *)
(* imported; the importing parser merges both into its own (fe/parser.cpp).     *)
(* A declaration is the name that it binds; it may use all names there are.     *)
(***************************************************************************)
EXTENDS DefGraph, Sequences

CONSTANTS Modules, Names,   \* of modules and of what they declare
          Main,       \* the program
          Inputs,     \* the inputs that are tried
          MaxDepth    \* bound: parsers within one another, before the process has no more stack

(* There are finitely many modules, and there is stack for as many parsers.       *)
InputsOK ==
    /\ IsFiniteSet(Modules) /\ Main \in Modules
    /\ MaxDepth \in Nat /\ MaxDepth >= Cardinality(Modules)
    /\ \A i \in Inputs :
          /\ DOMAIN i.files \subseteq Modules
          /\ \A m \in DOMAIN i.files : i.files[m].imports \in Seq(Modules) /\ i.files[m].decls \in Seq(Names)
          /\ i.dialects \in Seq(Modules)

VARIABLES
    input,       \* the dialects that are loaded, and the modules that are found, with their imports and declarations
    todo,        \* what main() has still to parse
    stack,       \* the parsers at work, the innermost last
    made,        \* the defs declared so far: by which module, under which name, seeing which names
    imported_dialects,      \* of the World
    outcome      \* "running", "parsed", or what has been thrown

vars == <<input, todo, stack, made, imported_dialects, outcome>>

files     == input.files
Parser(m) == [module |-> m, imports |-> files[m].imports, decls |-> files[m].decls,
              scope |-> <<>>, imported |-> {}]
Top       == stack[Len(stack)]
SetTop(p) == [stack EXCEPT ![Len(stack)] = p]
Busy      == outcome = "running" /\ stack # <<>>

Merge_later(f, g) == [x \in DOMAIN f \cup DOMAIN g |-> IF x \in DOMAIN g THEN g[x] ELSE f[x]]    \* mutant: what comes last wins

(* Scopes::merge, by std::unordered_map::merge: what is there stays.              *)
Merge(f, g) == [x \in DOMAIN f \cup DOMAIN g |-> IF x \in DOMAIN f THEN f[x] ELSE g[x]]

Throw(what) == outcome' = what /\ stack' = <<>>

-----------------------------------------------------------------------------
Init ==
    /\ input \in Inputs /\ Main \in DOMAIN files      \* or main() returns at once
    /\ todo = Append(input.dialects, Main)
    /\ stack = <<>> /\ made = <<>> /\ imported_dialects = {}
    /\ outcome = "running"

(* A module is searched for and gets its parser.                                *)
import_module(callers, m) ==
    \/ /\ m \notin DOMAIN files
       /\ Throw("no file")
    \/ /\ m \in DOMAIN files /\ Len(callers) = MaxDepth
       /\ Throw("too deep")
    \/ /\ m \in DOMAIN files /\ Len(callers) < MaxDepth
       /\ stack' = Append(callers, Parser(m))
       /\ UNCHANGED outcome

(* main()                                                                      *)
Begin ==
    /\ outcome = "running" /\ stack = <<>> /\ todo # <<>>
    /\ import_module(<<>>, Head(todo))
    /\ todo' = Tail(todo)
    /\ UNCHANGED <<input, made, imported_dialects>>

(* What was imported before, if only by another module, is skipped.               *)
Skip ==
    /\ Busy /\ Top.imports # <<>> /\ Head(Top.imports) \in Top.imported
    /\ stack' = SetTop([Top EXCEPT !.imports = Tail(@)])
    /\ UNCHANGED <<input, todo, made, imported_dialects, outcome>>

Import ==
    /\ Busy /\ Top.imports # <<>> /\ Head(Top.imports) \notin Top.imported
    /\ import_module(SetTop([Top EXCEPT !.imports = Tail(@), !.imported = @ \cup {Head(Top.imports)}]), Head(Top.imports))
    /\ UNCHANGED <<input, todo, made, imported_dialects>>

(* A declaration, after all imports.  Scopes::bind throws if the name is there.    *)
Declare ==
    /\ Busy /\ Top.imports = <<>> /\ Top.decls # <<>>
    /\ \E name \in {Head(Top.decls)} :
          \/ /\ name \in DOMAIN Top.scope
             /\ Throw("declared twice")
             /\ UNCHANGED made
          \/ /\ name \notin DOMAIN Top.scope
             /\ made' = Append(made, [module |-> Top.module, name |-> name, sees |-> Top.scope])
             /\ stack' = SetTop([Top EXCEPT !.decls = Tail(@), !.scope = Merge(@, [x \in {name} |-> Len(made) + 1])])
             /\ UNCHANGED outcome
    /\ UNCHANGED <<input, todo, imported_dialects>>

AtEnd == Busy /\ Top.imports = <<>> /\ Top.decls = <<>>

(* The end of an imported module: the World gets its name, and the parser that     *)
(* has imported it, if it was not main(), all that it knows.                      *)
Return ==
    /\ AtEnd
    /\ Len(stack) > 1 \/ todo # <<>>
    /\ stack' = IF Len(stack) = 1 THEN <<>>
                ELSE Append(SubSeq(stack, 1, Len(stack) - 2),
                            [stack[Len(stack) - 1] EXCEPT !.scope = Merge(@, Top.scope), !.imported = @ \cup Top.imported])
    /\ imported_dialects' = imported_dialects \cup {Top.module}
    /\ UNCHANGED <<input, todo, made, outcome>>

Parsed ==
    /\ AtEnd /\ Len(stack) = 1 /\ todo = <<>>
    /\ stack' = <<>> /\ outcome' = "parsed"
    /\ UNCHANGED <<input, todo, made, imported_dialects>>

Next == Begin \/ Skip \/ Import \/ Declare \/ Return \/ Parsed
Spec == Init /\ [][Next]_vars

-----------------------------------------------------------------------------
RangeOf(s)   == {s[i] : i \in DOMAIN s}
Imported     == [m \in Modules |-> IF m \in DOMAIN files THEN RangeOf(files[m].imports) ELSE {}]
From(S)      == Reach(Imported, S)
Needs(m)     == From(Imported[m])
Declared(S)  == UNION {RangeOf(files[m].decls) : m \in S \cap DOMAIN files}

(* The module whose declaration a name means in m: that of the first import that    *)
(* knows it, and so on, and m's own if there is none.                             *)
Knows(m, x)   == x \in Declared({m} \cup Needs(m))
Knowing(m, x) == {i \in DOMAIN files[m].imports : Knows(files[m].imports[i], x)}
Follow(m, x)  == IF m \notin DOMAIN files \/ Knowing(m, x) = {} THEN m
                 ELSE files[m].imports[CHOOSE i \in Knowing(m, x) : \A j \in Knowing(m, x) : i <= j]
LastOf(m, x)  == {d \in Reach([c \in Modules |-> {Follow(c, x)}], {m}) : Follow(d, x) = d}
Meant(m, x)   == CHOOSE d \in Modules : d \in LastOf(m, x)

(* A declaration sees what its module has declared before and what the modules      *)
(* declare that it imports, directly or not: no more, no less.  Which modules are    *)
(* skipped, and what another parser has had before, changes nothing                 *)
(* (parser.cpp:132-140).                                                          *)
SeesAll(i) ==
    LET m  == made[i].module
        ds == files[m].decls
    IN  \E b \in DOMAIN ds :
            /\ ds[b] = made[i].name
            /\ DOMAIN made[i].sees = Declared(Needs(m)) \cup {ds[j] : j \in 1..b-1}
Visible == \A i \in DOMAIN made :
    /\ SeesAll(i)
    /\ \A x \in DOMAIN made[i].sees : made[i].sees[x] \in 1..i-1 /\ made[made[i].sees[x]].name = x

(* Of several declarations of a name, it means that of the first import that knows it. *)
Meaning == \A i \in DOMAIN made : \A x \in DOMAIN made[i].sees :
               made[made[i].sees[x]].module = Meant(made[i].module, x)

(* It ends well if and only if all files are there, no module needs itself, and      *)
(* none declares what it sees; then the World knows all but the program, and all      *)
(* that they declare has been made.                                               *)
Asked  == {Main} \cup RangeOf(input.dialects)
Good(m) ==
    /\ m \in DOMAIN files /\ m \notin Needs(m)
    /\ RangeOf(files[m].decls) \cap Declared(Needs(m)) = {}
    /\ \A i, j \in DOMAIN files[m].decls : files[m].decls[i] = files[m].decls[j] => i = j
Broken == \E m \in From(Asked) : ~Good(m)
AllMade(m) == \A x \in RangeOf(files[m].decls) : \E i \in DOMAIN made : made[i].module = m /\ made[i].name = x
Complete ==
    /\ outcome = "parsed" => /\ ~Broken
                             /\ imported_dialects = From(RangeOf(input.dialects) \cup Imported[Main])
                             /\ \A m \in From(Asked) : AllMade(m)
    /\ outcome \notin {"running", "parsed"} => Broken

(* "transitively remember which files we transitively imported": a parser does not     *)
(* import what it knows (parser.cpp:139).                                         *)
Fresh == \A k \in 1..Len(stack) - 1 : \A x \in DOMAIN stack[k].scope :
             made[stack[k].scope[x]].module # stack[k + 1].module

(* parser.cpp:110-140, main.cpp: names are right, whatever is imported by whom.     *)
ImportSound == Visible /\ Meaning /\ Complete /\ Fresh

(* Every declaration is made once: a name means the same def to all that use it.      *)
Once == \A i, j \in DOMAIN made : made[i].module = made[j].module /\ made[i].name = made[j].name => i = j
=============================================================================
