# Verification of Thorin2

TLA+ models of Thorin2, a compiler whose intermediate representation is a
higher-order graph: what is modelled, what TLC checks on small instances and
what TLAPS proves for every instance. The code under `src/` is the reference;
`PROJECT.json` gives, for every definition that models code, the lines it
stands for.

## 1. The system

Thorin reads programs (and *dialects*, which declare axioms) into a **World**, a
graph of **Defs**, transforms the graph with **passes** and **phases**, and hands
it to a back end. Everything runs in one thread; what is hard is not scheduling
but state: nominal defs are mutated while structural defs, memo tables, use
lists and per-state data of passes refer to them, and the optimizer speculates
and rolls back.

| component | code | state | operations | what makes it correct |
|---|---|---|---|---|
| Sea of nodes | `thorin/world.*`, `thorin/def.*` | the set of defs, uses, gids, `frozen`, the cache of `reduce`, externals, axioms | `unify`, `insert`, `set`, `unset`, `set_type`, `var`, `reduce`, `freeze`, `make_external` | hash-consing is canonical; uses mirror operands; flags are right although computed once; cycles go through nominals |
| Pass manager | `thorin/pass/pass.*` | a deque of states: stack, visit numbers, memo, analyzed set, data of every pass | `run`, `push_state`, `pop_states`, `rewrite`, `analyze`, `undo_visit`, `undo_enter` | no wrong guess survives; rollback restores; nothing reachable is missed; it terminates |
| Fixed-point passes | `thorin/pass/fp/*`, `dialects/mem/passes/fp/*`, `dialects/clos/pass/fp/*` | what is known for good (`keep_`, `expand_`, `irreducible_`, ...) and per-state data | the hooks `rewrite`, `analyze`, `enter` | the program keeps its meaning; every guess is refuted at most once; new nominals are reused after an undo |
| Rewriting passes | `thorin/pass/rw/*`, `dialects/*/passes/rw/*` | memo tables | `rewrite` | the program keeps its meaning |
| Phases, pipelines | `thorin/phase/*`, `thorin/rewrite.*`, `thorin/pass/pipelinebuilder.*`, `thorin/pass/optimize.*` | old-to-new map, the World being built | `Rewriter::rewrite`, `Cleanup`, `ScopePhase`, `Pipeline`, `optimize` | the copy is isomorphic to what is reachable; externals survive; phases run in the order asked for |
| Analyses | `thorin/analyses/*` | worklists, per-node tables | `Scope`, `CFA`, `CFG`, `DomTree`, `DomFrontier`, `LoopTree`, `Scheduler`, `DepTree` | each computes what its definition says |
| Checker | `thorin/check.*` | the memo of pairs, a list of binders | `equiv`, `assignable`, `is_uniform` | equal types are equal, distinct ones are not, in any order of questions |
| Axioms, normalizers | `thorin/axiom.*`, `dialects/*/normalizers.cpp` | curry and trip counters | `mangle`, `demangle`, `get`, `infer_curry_and_trip` | mangling is invertible on legal names; a normalizer fires at the right application |
| Front end | `thorin/fe/*` | lookahead, scopes, imports | `lex`, `parse_*`, `Scopes::push/pop/bind/find/swap/merge` | a name finds its innermost binding; every input ends |
| Back ends, dump | `thorin/be/*`, `dialects/core/be/ll`, `dump.cpp` | emission order | `Emitter::emit`, dot, h | a def is emitted before its uses |
| Utilities | `thorin/util/*` | containers | sets, bit sets, UTF-8 | each is the container it stands for |
| Dialects | `dialects/*` | per pass | passes, phases, normalizers | see `PROJECT.json` |
| Loading, command line, diagnostics | `thorin/dialects.*`, `util/dl.*`, `cli/` | - | files, dlopen, text | input and output |

How they interact: the front end and all passes make defs through the World's
factories (`unify` for structural defs, `insert` for nominals). The pass manager
calls the hooks of passes for every operand of the nominal it works on; hooks
answer with a def (and may call `Def::reduce`, which rewrites a Scope found
through use lists) or with the number of a state to go back to. A proxy is a
message from one pass to a later call of its own `analyze`. Passes share
information only through the program and, in a few places, by calling each
other (`EtaRed::mark_irreducible`). A phase rewrites the whole World; `Cleanup`
copies it into a fresh one and swaps.

The hard behaviours are listed line by line under `hazards` in `PROJECT.json`.

## 2. The plan

The order in which the system is modelled, the most important behaviour first:

1. **PassMan**, the heart of the optimizer, with **Optimist** as its abstract
   specification.
2. **World**, the sea of nodes that every other component stands on.
3. **Optimize** over **Lambda**: the fixed-point passes under the pass manager, hook by
   hook.
4. The analyses, each against a definition of what it computes: **Scope**, **DepTree**,
   **CFA**, **DomTree**, **LoopTree**, **Schedule** over **DefGraph**.
5. What rewrites and compiles whole programs: **Direct**, **RWPasses**, **Reshape**,
   **Phases**, **Pipeline**, **LLEmit**, **LLInstr**.
6. **Checker**; the front end: **Utf8**, **Lexer**, **Parser**, **Imports**, **Axiom**,
   **Dump**; the normalizers: **Core**, **CoreTrait**, **Math**, **Tuples**; **BitSet**.

All of these are done. Proved are PassMan (all its safety properties and the refinement),
World (all its properties), of the analyses Scope, CFA, DomTree and Schedule, with the fixed
points of DefGraph they are stated with, and Imports. What is left of the plan is LoopTree,
which takes the results of CFA and DomTree, once its definition does without recursive
operators.

## 3. The models

A module has its code in the header. What follows is what a reader should know of the
abstraction; `map` in `PROJECT.json` has the lines of every definition.

### PassMan and Optimist

`PassMan.tla` is `run()` with everything it calls, one action per step of the
code: `Enter` (head of the loop, `push_state`), `RewriteOp` (one operand, with
`lookup` and `map`), `StartAnalyze`, `AnalyzeDef` and `AnalyzeProxy` (one call of
a hook), `AnalyzeOp` (the bookkeeping of `PassMan::analyze`), `Leave` (with
`pop_states`) and `Finish`.

| variable | code |
|---|---|
| `states` | `states_`; `curr_undo` is the number of the last one |
| `body` | the operands of the nominals |
| `refuted` | what the passes know for good: `keep_`, `irreducible_`, `expand_`, ... |
| `curr_nom`, `proxy` | `curr_nom_`, `proxy_` |
| `pos`, `undo`, `pc` | the loop variable and the local `undo` of `run`, and where it stands |

Passes are open: anyone can write one. They are a parameter of the model, as they
are of the code. What a hook of a pass may do is abstracted to *guesses*: a
rewritten operand relies on some (`uses`), refers to nominals (`refs`) and may
hold proxies that ask to give guesses up (`proxies`). `MayRewrite` states the
contract of `rewrite`: a pass does not rely on what it has refuted, records what
it relies on in its `Data`, and relies on guesses about nominals that have been
seen. `Refute` states that of `analyze`: it refutes a guess and answers with the
undo point of the nominal the guess is about, as `BetaRed`, `EtaRed`, `EtaExp`
and `TailRecElim` all do. Left out: the hooks `enter` and `prepare`, nominals
made while the passes run (Optimize has them), `Cleanup` at the end.

`Optimist.tla` is the optimizer as `docs/passes.md` describes it: guess, be proved
wrong, correct the guess for good. `ImplementsOptimist` is the refinement: the
guesses in use are those of the current state or, while an undo is due, those
of the state it goes back to.

### World

`World.tla` has the defs (kind, nominal or not, type, operands, dependence
flags), the uses, the gid counter, the frozen flag and the cache of `reduce`.
`Unify` is `World::unify` with `finalize`; `Insert` is `World::insert` with the
constructor of a nominal; `Var` is `Def::var` with its two ways of finding an
existing Var; `Set` is `Def::set` and `unset`, and, for the last operand of an
Arr, `Arr::check`, which resolves an inferred type by setting it in two places;
`SetType`, `Freeze` and `Reduce` are what they say. A def's flags field is part
of its kind. Left out: debug info, the memory arena, errors, the externals (in
Phases), the normalizations of the factories (they choose which def is unified,
not how; Tuples has them).

### Lambda and Optimize

`Lambda.tla` has programs as the optimizer sees them. A structural def is a value,
so equal ones are identical; a nominal is a number, and `lams` gives its kind and
its body. There are functions with a return continuation, continuations and direct
functions, a branch between two continuations, slots, loads and stores. `rebuild`
normalizes as `World::tuple` and `World::extract` do; `bound` is the Scope that
`Def::reduce` copies (`Reduced`); `Meaning` runs a program and is what the passes have
to preserve.

`Optimize.tla` is the pass manager again, this time with BetaRed, EtaRed, EtaExp,
TailRecElim, CopyProp and SSAConstr, hook by hook, in the order
of the pass lists of the dialects compile and mem. `Rewrite` is one turn of the loop
of `run()` up to the analysis, `Analyze` the rest of it. `Work` is what the hooks read
and write. The fields of a state are those of `PassMan::State` and the data of the
passes; `know` has what survives an undo. The field `copied` and the variables `turns`
and `old` are only read by properties. Left out: filters (a Lam's filter is a
literal), types and debug info, which the passes carry along, and EtaRed's
`callee_only`.

### The rewriting passes

`RWPasses.tla` (PartialEval, Scalerize, LamSpec, RetWrap), `Direct.tla` (DS2CPS, then
CPS2DS) and `Reshape.tla` work on programs of Lambda, each with its memo tables; a step
visits one nominal, in any order the code may take. A program keeps its `Meaning`, stays
well-formed, and gets the form that the pass is there for. Reshape has types besides the
programs: it gives each function a new signature, flat or in arg style, and rearranges at
every use what is passed. Three programs are witnesses of where it fails (`Equal`, `Unit`, `Pair`).

### Phases, Pipeline, LLEmit, LLInstr

`Phases.tla` has Rewriter, RWPhase and Cleanup with two Worlds and the table of
externals. `Pipeline.tla` has the expressions by which a program describes its own
compilation, their normalizers and the builder that walks them. `LLEmit.tla` turns the
graph of a function into blocks of LLVM instructions, where memory, a value in the
graph, becomes the order of the instructions; `LLInstr.tla` picks the instruction of
an axiom.

### The analyses

`DefGraph.tla` has programs as graphs of defs and the textbook definitions: the least
closed set (`Least`, by definition, and `Reach`, round by round), domination, loops, what is
bound in a nominal. `Scope`, `DepTree`, `CFA`, `DomTree`, `LoopTree` and `Schedule` are the
algorithms, as state machines over their worklists: which def a hash set hands out
next is nondeterministic. In `DomTree`, `Descend` and `Ascend` are the calls and returns of
`post_order_visit`, `FirstIdoms`, `Sweep` (one node) and `EndOfSweep` are `DomTreeBase::create`,
with `least_common_ancestor` taken as far as it can go: it climbs one step at a time, and
twice the number of nodes is more steps than there are numbers to climb.

`Schedule` is asked for one def after another, in any order. `Collect` and `Constructed` are the
constructor, which finds the users of each def. `Ask` starts a question; `EarlyOp`, `EarlyReturn`,
`LateUse` and `LateReturn` are the calls of `early` and `late` and their returns, over an
explicit stack (`calls`) and the tables `early_` and `late_`; `StartWalk`, `Walk` and `Place` are
the climb of `smart` from the late position to the early one. The tables stay from question to
question, as in the code.

### Checker, normalizers, front end, BitSet

`Checker.tla` is `equiv` and `assignable` with the verdicts and binders that a World
keeps between questions. `Core.tla` has the normalizers of the dialect core over
`Terms.tla`, at a parametric width, with the promotions of C++; `MCNormalize.tla` says what
the applications mean, `Math.tla` does both for math on small floats, `CoreTrait.tla` has sizes
and alignments. `Tuples.tla` has World's factories of sigmas, arrays, tuples, packs, extracts,
inserts, Top, Bot, joins and meets, with `flatten` and `unflatten`: what they answer is compared
with what stands at each place of what was asked for. `Utf8`, `Lexer` and `Parser` go from bytes to defs; the second part of Parser
prints programs as the language reference describes them and says what they mean.

`Imports` has the parsers of imported modules. `main()` parses the dialects that are loaded, one
after another and each with a parser of its own whose names are lost again, and then the
program (`Begin`, `Parsed`). `Import` and `Return` are the call of `import_module` and its return,
which merges names and modules into the parser that imports; `Skip` is an import of what is
there already, `Declare` a declaration. Parsing throws if a file is missing, if a module
needs itself, so that there is no end of parsers, or if a name is declared twice. `Needs` and `Meant`
say, by least closed sets over the files, what a module should see and what a name should mean.

`Axiom` has the encoding of names, currying and
trips, the declarations and the generated header, `Dump` the order of
declarations in a dump. `BitSet` is a vector of words, next to the set it stands for.

### Composition

Optimize extends Lambda: passes and pass manager run together. LLInstr is
built on Core, so that an instruction is compared with what the normalizers take
the axiom to mean. CFA, DomTree, LoopTree and Schedule each take the result of the one before
by its definition in DefGraph: `FlowGraph` proves that what CFA makes is a flow graph, which is what
DomTree assumes, and `Exact` that its idoms are the immediate dominators. The MC modules that check several components extend one that
theorems are about (MCAnalyses DomTree, MCChecker Scope, MCCompile Schedule, MCFrontEnd Imports) and instantiate
the others, each in a part of its own: `part`, or `setup`, is chosen once and says which component moves; the
others stand still. So the invariant that the run checks of the extended module is the one the theorem `Sound`
is about, and the `ASSUME` of the MC module has TLC check that the instance meets the hypotheses.

## 4. The runs

| run | instance | shows |
|---|---|---|
| `passman` | 3 nominals that reach each other, a def shared by two of them, a guess of each undo kind, passes that are optimistic | backtracking is safe (`SoundGuesses`, `RollbackRestores`, `EnteredOnce`, `NothingMissed`, `NoProxyLeft`), goes on in the right place (`UndoRepeats`), ends (`Termination`) and refines Optimist |
| `world` | Pi, Var, Proxy, Lam, Arr, Infer; 5 gids | `HashConsed`, `DepExact`, `UsesReachAll`, `UsesExact`, `VarIsFound` |
| `world_stale` | as `world` | a violation: `reduce` answers from its cache with operands that are gone |
| `world_frozen` | as `world` | a violation: a frozen World still inserts nominals |
| `optimize` | BetaRed, EtaRed, EtaExp alone, with TailRecElim, with CopyProp, with SSAConstr; all small programs | meaning is kept (`SameButStale`), slots are promoted, functions inlined, tail calls gone, no proxy is left, the passes stabilize |
| `opt_proxy` | with TailRecElim | a violation: TailRecElim copies a proxy of BetaRed, and the assertion of `pass.cpp:78` fails |
| `rewrite` | Direct, RWPasses, Reshape | `Preserved`, `WellFormed`, `InForm` |
| `compile` | Phases, Pipeline, LLEmit; Schedule on scopes of an entry and two nominals | `ProgramKept`, `PipelineAsked`, `EmittedMeansTheSame`, `ScheduleSound` |
| `analyses` | DepTree, CFA, DomTree, LoopTree on all programs and graphs of 3 to 4 nominals or inner nodes | `DomExact`, `CfgNumbered`, `TreesExact`: each computes what its definition says |
| `normalize` | every operation of core, under every mode, on two variables, bottom and all literals at widths 1 to 4; some of them on top of each other; the setups of math; every factory of tuples, the traits, the instructions | `MeaningKept`, `FormKept` |
| `checker` | Scope on programs of 3 nominals; worlds of 3 nominal Pis with their Vars, up to 3 questions | `ScopeExact`, `Exact`, `Steady` |
| `frontend` | all short texts, programs, import graphs, names, declarations; BitSets of two words | `TokensRight`, `NamesRight`, `IsASet`, `ImportSound` |

Where the code is known to differ from what it promises (section 6), a passing run
states its property for everything else and, for the witnesses it names, that the
difference is there: it fails when the code's behaviour is changed in either direction. For core the
differences are written down for all operands: `Computes` is what the code computes where that is not the
`Meaning` of the application, `Unfit` says exactly which answers have a literal that does not fit, and
the exception of `KeepsType` is an equivalence as well. `IsASet` says in the same way what a call of the
BitSet does beyond its words.

Bounds. Three nominals are enough for an undo that drops several states, one that
drops states between two visits of the same nominal, and a memoised rewrite used
by another nominal; two guesses are enough for two undos in one analysis with
different targets and for an undo that is followed by another one further back.
(The values of the constants are in PassMan and World themselves, after the specification.)
`MaxGid` is the bound of World: every order of making, setting, unsetting and
re-making is explored up to that number of defs, for those combinations of kinds
that work on each other (`Small`). `Threshold` is 2 (8 in the code), so that both ways of
finding a Var occur; `ReduceArgs` bounds the arguments of `reduce`.
The programs of Optimize are enumerated: all bodies that are a call of a function, a
jump to a continuation or a branch between two, with the values and continuations
that the constants list; functions and continuations may be used by each other and by
themselves in every position, which is what inlining, expansion and tail calls are
about. For SSAConstr there are two slots and two basic blocks with loads, stores and
jumps between them. `MaxTurns` and `MaxNest` are well above what any program needs, and
`Stabilizes` says that they are not reached: a run is deterministic, so this is
termination. The original program may make `Fuel` jumps, the optimized one four times as
many; programs that take longer are not compared. In the analyses three inner nodes are
enough for irreducible loops, nested ones and a frontier of two nodes. `Full = 4` is the width
of u64 and `IntBits = 3` that of int: the operations are parametric in them, and widths
below, at and above the promotion to int occur. The setups `one` to `four`, `nat` and `cast` of `normalize` have all
literals of a width as leaves and every operation and mode on them; the others start from a few leaves
and make one or two defs of them. The invariants look at everything that can be applied next, so
that rules that look three applications deep are met. Two things are not asked: a quotient or remainder
of the least number and -1, which C++ does not define (`Traps`), and to go on with a literal that does not fit its
type, which the assertion of `World::lit` refuses. Math is checked on the operations and modes of `MathSetups`. `Scale` bounds the length of texts and
names.

Fairness. `run()` is a sequential loop in one thread: weak fairness of the whole
next-state relation (`FairSpec` of PassMan) says no more than that the program goes on
running. No fairness is assumed of any particular hook. The other components are
sequential as well; that they end is stated as a bound that is never reached, or shows in
properties of their final states.

Deadlock is not checked: every component stops when it is done, World when its gids
are used up.

## 5. The proofs

All proofs are for any value of the constants. The assumptions about constants that they use are
named in the modules (`NomAssumption`, `DefAssumption`, `OpsAssumption`, `GuessAssumption`,
`WorldAssumption`), and TLC evaluates them in every run of the module. They say that the
nominals of a program are finitely many, that externals and nominals without operands are
nominals, that structural defs are something else and mention nominals, which nominal a
guess is about; and that every kind of node has a number of operands and that a Var is a
structural def with one operand, where a World has nominals with a Var.

### PassMan

None of the safety properties is inductive. They follow from three invariants, each proved by
one lemma per step of `run()`.

`IInv` is about what an undo brings back. Each state of the deque promises something: visit
numbers are at most its own number and agree with the number of the state in which they were
made; the data grows from state to state; the memo and the operands of a nominal rely
only on the data of the state that made them; what a state remembers as old operands is
the original body; the stack holds analyzed nominals only, each once, none of them
entered. So an undo to the smallest of the undo points of all refuted guesses leaves
nothing in place that relies on one of them. From `IInv`: `Types`, `Soundness`
(`SoundGuesses`), `Rollback` (`RollbackRestores`), `Distinct` (`EnteredOnce`).

`LInv` is about what must not be lost. `MetInv`: a nominal that some state has met is worked on by
the chain of states or waits on the stack, and of a def that has been analyzed the chain
remembers one result, whose nominals have been met and whose proxies have been heard.
`WorkInv` says the same of the operands of the nominal at work that lie behind the position of the
loop, `SettledInv` of all operands of the nominals that the chain is done with. `ProxyInv`: a proxy asks to
give up a guess of the state that made it, so that, once heard, it takes that state with
it. An undo drops marks, stacks and memo together, and what is left still accounts for
itself. From `LInv`: `ProxiesGone` (`NoProxyLeft`) and `Complete` (`NothingMissed`).

`Repeats` (`UndoRepeats`) needs that the state below a state has the nominal of that state on
top of its stack.

`Refinement` (`ImplementsOptimist`) maps the steps: entering and rewriting rely on more, a
refutation during the analysis contradicts a guess and gives up at least that one,
since the guesses in use are then those of the state to which the smallest undo point
leads, `Finish` stops, everything else stutters.

### World

`IInv`: a structural def is made of older defs, nominals depend on themselves only, uses
are the operands seen from below, the flags of a def are at least those of its parts, hash-consing
holds. Each operation is a change of one def or a new one (`ExtendedDefs`, `ReplaceOK`).
From it: `Types`, `HashConsing`, `UsesAgree`, `VarsFound` and `Cycles`.

`DepInv` adds that the flags of a structural def are exactly its own and those of its
parts; no step changes what they are computed from (`NextKeeps`), because a structural def
is never changed and the flags of a nominal are constant. `FlagsExact` (`DepExact`) and
`UsesReach` (`UsesReachAll`) speak of everything below a def. The recursions they are stated
with (`Below`, `Up`) are shown to have solutions (`BelowEq`, by the least closed set; `UpEq`,
round by round), and what holds of all defs is shown by looking at the oldest one for
which it fails: its parts are older.

### Scope

For any program and any order in which the worklists hand out their defs: the three
loops compute the scope as it is defined by least closed sets (`Exact`, `BoundExact`), list every Var and
nominal that is free in it (`NothingForgotten`, `FreeComplete`), and `is_free` is exact for a Var with several
components (`FreeIsExact`, `IsFreeExact`; with one component, and of operands that have none themselves, it may err: section 6). The invariant has one part
per loop: what has left the queue has its users, or its operands, in the set. The hypotheses
are `ProgramsOK` (the programs are graphs over the defs), that there are finitely
many defs where a property is stated with `Reach`, and `VarsTyped`, which `NothingForgotten` needs:
a Var has its nominal and its type as operands, and the type is made of what the nominal is made of (`MadeOf`).
That is what `Def::var` does: the type is the domain of a Lam or Pi, the Sigma itself, or, for an Arr or
Pack, the type of indices made of its shape (`def.cpp:208`). The type may be a nominal, or missing.
`Sound` puts them together as `ScopeExact`, which the run `checker` checks.

All analyses are judged by least closed sets. `DefGraph` proves that the rounds of `Reach`, by which
TLC finds them, are enough (`ReachIs`): each one that is not the last adds an element.

Each of Scope, CFA, DomTree, Schedule and Imports has a theorem `Sound` that states the one formula a
run asks of that module, from the others about it.

### CFA

Every node of a control-flow graph is reached from the entry and reaches the exit (`Numbered`,
`AllNumbered`), which is what `cfg.cpp` asserts when it numbers the nodes, although nothing in the
construction looks at it. The first half is easy: a node is made when an edge to it is
(`NodeInv`). The second is the work of `link_to_exit`, and needs `EdgeInv` and `StackInv`: its set
`reachable` is at all times exactly what reaches the exit; a node that was pushed is
still on the stack or reaches the exit, and in the latter case all its successors were
pushed. When the stack is empty, the pushed nodes are closed under successors and so are all
nodes. `EndlessInv` says that it does not do more than it has to: a node that gets an edge to
the exit is a dead end or cannot reach one (`Endless`, `OnlyEndless`). The edges are added while the walk
goes on, so what a node could reach is said of the graph without them (`Flow`).

`FlowGraph` adds that no edge leads to the entry, since a nominal is not bound in its own scope
(`EntryFree`), and none leaves the exit: with this the result of CFA meets the hypothesis of the
theorems about DomTree. Hypotheses: the programs are graphs over the defs (`ProgramsOK`), the defs are
finitely many, and the exit of a scope is none of them.

### DomTree

For any finite flow graph, forward or backward, any order in which the hash sets hand out
successors and predecessors, and any first guess among the predecessors with smaller numbers,
the fixed point is the dominator tree (`Exact`) and the frontiers are those of the textbook
(`Frontiers`, `FrontierExact`). All of it is `DomExact` (`Sound`).

`NumInv` is the depth-first search: the open calls are a path from the entry, numbers are given
from the last down and each once, and a node that has a number was entered from one that
gets a smaller number. So all numbers down to 0 are given, which `cfg.cpp` asserts,
and a first guess exists, so that `unreachable()` in `DomTreeBase::create` is (`Numbers`, `Numbered`).

`TreeInv` holds during all sweeps, whatever the guess: idoms have smaller numbers
(`Descends`, `ChainsDescend`), and what strictly dominates a node dominates its idom. The second part is why the
sweeps never go too far up: the common ancestor of two nodes lies at or below whatever dominates both
(`CommonAncestor`). It is kept by `Merge` for any order of the predecessors (`MergeIs`), since a
strict dominator dominates all predecessors (`DominatesPreds`) and has a smaller number (`DominatesSmaller`).
`SweepInv` says that after a part of a sweep that changed nothing the idoms of the nodes it has passed lie
above all their predecessors (`Meets`). When this is so of all nodes, a node that is above another one dominates it
(`AboveDominates`): no way around it leads to what is below. Both directions together are exactness.

The frontier is computed for nodes with two predecessors only, and by walking up from each of
them to the idom. `ChainIs` says what the walk meets, `OnlyPred` that a node with
one predecessor is dominated by it and so is in no frontier.

The run `analyses` checks `DomExact` of DomTree, and `CfgNumbered` of CFA as an instance in the same MC
module, so the run's property has that name but is true of the other parts by definition; the theorem is about CFA
itself. The theorems about DomTree say what the fixed point is, not that it is reached: that is liveness.

### Schedule

For any graph of defs, any loop depths, and any sequence of questions: every question is answered
inside the dominator tree, and what is placed is there before it is used. The hypotheses are
`ScopesOK` (a scope is a graph over the defs, 0 is none of them and stands for `nullptr`, all nodes of its
control-flow graph are reached from the entry and all but the entry are bound in it, loop depths
are numbers) and that there are finitely many defs. `Init` asks in addition that the Vars in what is
scheduled are visible (`VarsVisible`): otherwise the program makes no sense.

That a def is placed above its users says nothing of the tables half way. The invariant `IInv` says
what every entry of a table is:

- `UsesOK`, for the constructor: what has left the queue has been written down as the user of all it
  uses. At the end (`UsesDone`) this is `AllUses` (`UsesFound`).
- `EarlyOK`: the early position of a def is one of those of its operands, all of which are in the
  table, and none of these is deeper. It dominates every root, a node or a Var, that reaches the def (`Covers`).
  This is where `VarsVisible` is needed: all Vars below a root are visible where it stands (`Span`), and
  the nodes that dominate a node are in a line (`OrderIs`), so the deepest one is below the others.
- `LateOK`: the late position is the least common dominator of all users (`Highest`), each of which is in
  the table or free, and whatever covers a def dominates it. So early dominates late.
- `CallsOK`: the stack of open calls. Each call has looked at a part of the operands or users, its
  result is what that part amounts to, and the def of the call above it is one of those it has still to
  look at. So a return finds what it is waited for, and no call writes over what another relies on.
- `WalkOK` and `SmartOK`: the climb of `smart` is between early and late and holds the best node it has
  met (`Best`); it meets early before it reaches the entry (`Meets`, the assertion `i != idom`).

From it: `Types`, `AllUses`, `Meets`, `Placed` (`WellPlaced`: between early and late, in as few loops as
there are on the way, and no further up than that takes), `BeforeUse` (`DefBeforeUse`: the smart positions of operands
dominate those of their users, although each def is moved out of loops by itself) and
`Agree` (`TablesAgree`: what is remembered is what would be found, whatever was asked before). That
defs do not depend on themselves but through nominals is not needed for any of this; it is needed
for the calls to end, which is model-checked.

### Imports

For any modules that import one another in any way, cycles included, any dialects that are loaded, and any
names. The hypotheses (`InputsOK`): the modules are finitely many, the program is one of them, and there is stack
for as many parsers as there are modules.

`IInv` describes each parser on the stack by the files alone. `OnTop` is for the innermost: the
modules it has imported so far are closed under imports and known to the World, its scope has
exactly the names that those declare and its own, and each name means what `Meant` says. `Under` says the same of a
parser that waits, but for the module it waits for, and that it has not declared anything yet. A
`Return` merges what the upper parser knows into the lower one; that the first import wins
(`merge` does not overwrite) is the definition of `Meant`, followed from import to import (`Follow`).
`WorldOK` says that a module the World knows is sound with all that it needs, `MainOK` how far
`main()` is. If parsers are within one another more deeply than there are modules, two of them are for the same
module, by counting, and each module on the stack needs all above it: so it needs itself.

From it: `Types`, `SeesRight` (`Visible` and `Meaning`: a declaration sees what it should, no more and no
less, and names mean what they should, no matter which imports were skipped), `EndsRight` (`Complete`:
parsing ends well exactly if no module it comes to is broken, and then all has been declared) and `NotAgain`
(`Fresh`). Together they are `ImportSound` (`Sound`), which the run `frontend` checks. `Once` is only model-checked, and
does not hold in general (section 6, `parser.cpp:135`).

### Only model-checked

`Termination` of PassMan, which is liveness under fairness. Everything about programs and their
meaning (Optimize, Direct, RWPasses, Reshape, LLEmit), terms (Core, Math, Tuples, Checker, Parser, Dump) and
texts: their definitions recurse over the data with recursive operators, which the
provers cannot reason about. LoopTree and DepTree use recursive operators too. The properties of the small parts (Phases, Pipeline, Axiom, BitSet)
are statements about all data of a kind, or recurse over it.

## 6. Known divergences

Where the code does something else than a comment, an assertion or the documentation says.
`findings` in `PROJECT.json` quotes both sides; here in short, by run.

- `world_stale`: `def.cpp:384` answers `reduce` from a cache that no `set` clears.
- `world_frozen`: `world.h:485`, `insert` does not look at `is_frozen`.
- `opt_proxy`: `tail_rec_elim.cpp:42` copies a body with a proxy that is never resolved.
- `optimize`: `eta_red.cpp:27`, EtaRed goes back and forth between two functions that
  only call each other; `ssa_constr.cpp:171`, a block is taken for the only predecessor when
  two blocks share a branch target tuple, so a read gets a stale value.
- `rewrite`: `cps2ds.cpp:52`, a second body with the same call gets a Var bound in the first;
  `lam_spec.cpp:41` skips every Lam that uses a parameter; `reshape.cpp:38` and `:195` do not take
  apart arrays that equal elements have become, `:228` leaves an array of continuations.
- `compile`: `world.h:154`, the second external of a name is lost; `opt.cpp:36`, a pass that is
  selected is unknown to the passes that take it as an argument; `ll.cpp:769`, `free` comes after the
  branch of its block.
- `analyses`: `deptree.cpp:18` misses a dependency when nominals mention each other; `deptree.cpp:51`
  does not end for a nominal that mentions itself; `looptree.cpp:165` has other heads than its comment says.
- `normalize`, core: `core.h:144` swaps the table of binary operations, also when comparisons are merged;
  `normalizers.cpp:515` widens to I64 without the sign, and `types.h:58` a literal of Bool to anything; `:443` takes the size of I64
  for 0; `:442` keeps `nuw` when a subtraction becomes an addition; `:210` answers a comparison with a Nat. Literals that do
  not fit their type, so that `World::lit` fails: `:47` keeps the carry of a promoted addition; `:52`, `:76`, `:82` and `:84` the sign
  of a promoted difference, arithmetic shift, quotient or remainder; `:530` the sign of a literal that is widened; `:449` makes the
  literal 2 of Bool. `:82` and `:84` divide the least number by -1, which C++ does not define;
  `core.cpp:36`, the size of a converted Join is no multiple of its alignment; `ll.cpp:625`, `iff` and
  `niff` become the implications the other way round.
- `normalize`, math: `normalizers.cpp:288` asks for one of two mode bits; `:88` never orders the zeros;
  `:101` passes bit patterns to `pow`.
- `normalize`, tuples: `world.cpp:310` and `:331` take the number of dimensions for one of them when a shape is
  given as a pack (`Square`); `def.cpp:82` with `:248`, a pack of as many elements as an index selects is not rebuilt
  (`Selected`); an insert at an unknown index of a known tuple or pack fails an assertion (`OnlyUnknown`).
- `checker`: `check.cpp:66` takes the first pair with a binder, which may be an old one; `:67` swaps
  Vars by gid and not their nominals; `:40` remembers what was only assumed; `:49` never forgets binders;
  `:25` remembers the answer for a nominal that is not set yet; `scope.cpp:96`, `is_free` says no of a def without operands whose
  type depends on the Var; `:99`, it compares a Var with its own components.
- `frontend`, reading: `utf8.cpp:27` and `:20` read what is no character; `lexer.cpp:249`, `:217`, `:226`,
  `:179` on numbers; `lexer.h:54` on fences; `parser.cpp:507` binds the last name of a group only;
  `ast.cpp:39` leaves holes; `parser.cpp:199` and `def.cpp:412` on sigmas that become structural; `:739` parses a
  domain in the scope of a Pi; `:135` parses a module twice; `axiom.h:158` returns the sub as base;
  `parser.cpp:623` overwrites a normalizer; `:656` counts subs in a `u8`; `bootstrapper.cpp:34` takes the dialect from
  the file and not from the name.
- `frontend`, dumping: `dump.cpp:96` never writes parentheses; `:312` and `:301` put a `.let` or a declaration where it
  is not in scope.
- `frontend`, BitSet: `bitset.h:138`, `&=` keeps bits beyond the shorter operand; `bitset.cpp:81` shifts a word by
  its width; `bitset.cpp:59` reads outside when the range begins beyond the words.

## 7. What is not modelled

`components` in `PROJECT.json` has the reason, part by part. In short: the file system, loading of
libraries, the command line, logging and error messages, which keep no state; the dialects clos,
autodiff, affine, matrix, refly and demo; AddMem, Alloc2Malloc and RememElim of mem; zip and pe of
core; Vel, Test, Pick and Ac of the lattice; setjmp,
literals and type names in the LLVM back end; dot output; containers other than BitSet. RWPhase and Cleanup
rewrite the axioms before the externals (`phase.cpp:14`, `:35`); Phases has programs without axioms. The
factories of World keep their rules for tuples in Tuples only: the argument tuples of Optimize are not
simplified. That the use that `unset_type` removes is there (`def.cpp:338`) is a precondition of
`SetType`: a debug build ends otherwise. Rejecting a text is modelled for the first byte of a character, not for
overlong encodings.
