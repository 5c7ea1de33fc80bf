------------------------------- MODULE PassMan -------------------------------
(***************************************************************************)
(* The pass manager of thorin/pass/pass.{h,cpp}: it walks the nominals that *)
(* are reachable from the externals, rewrites the operands of each with     *)
(* every registered pass at once, analyzes the result, and backtracks when  *)
(* a pass finds that one of its optimistic guesses was wrong.               *)
(*                                                                          *)
(* A pass is a parameter of the code (virtual hooks) and of this module: a  *)
(* hook returns anything its contract allows.  What the hooks of a pass     *)
(* share is abstracted to GUESSES.  "lam f is called once", "argument 2 of  *)
(* f is dead" or "slot s needs no address" are guesses; the pass relies on  *)
(* a guess (its per-state Data), and may REFUTE it later (its keep_,        *)
(* irreducible_, expand_, lam2info_ ... members, which survive a rollback). *)
(***************************************************************************)
EXTENDS Integers, Sequences, FiniteSets

CONSTANTS
    Nom,        \* the nominals
    External,   \* the nominals the World lists as externals
    Unset,      \* the nominals without operands (Def::is_set is false)
    Def,        \* the structural defs that occur as operands of nominals
    Ops,        \* the operands of a nominal before the passes run
    Mentions,   \* the nominals a structural def mentions
    Guess,      \* what the passes may guess
    NoNom,      \* nullptr
    Subject,    \* the nominal a guess is about
    OnEnter,    \* the guesses that are undone with undo_enter, not undo_visit
    FixedPoint  \* is one of the passes an FPPass?

ASSUME NomAssumption == /\ IsFiniteSet(Nom)
                        /\ External \subseteq Nom
                        /\ Unset \subseteq Nom
                        /\ NoNom \notin Nom
ASSUME DefAssumption == Nom \cap Def = {}
ASSUME OpsAssumption == /\ Ops \in [Nom -> Seq(Def)]
                        /\ Mentions \in [Def -> SUBSET Nom]
ASSUME GuessAssumption == /\ Subject \in [Guess -> Nom]
                          /\ OnEnter \subseteq Guess
                          /\ FixedPoint \in BOOLEAN

VARIABLES
    states,     \* the deque states_; state number u of the code is states[u + 1]
    body,       \* the current operands of every nominal
    refuted,    \* the guesses the passes know to be wrong
    curr_nom,   \* PassMan::curr_nom_
    pc,         \* where run() stands
    pos,        \* the operand of curr_nom that is next
    undo,       \* the local variable undo of run()
    proxy       \* PassMan::proxy_

vars == <<states, body, refuted, curr_nom, pc, pos, undo, proxy>>

-----------------------------------------------------------------------------
No_Undo == -1       \* the code uses the largest size_t

(* An operand of a nominal: the nominals it mentions, the guesses its form   *)
(* relies on, and the guesses a proxy in it asks to give up.                 *)
Operand == [refs : SUBSET Nom, uses : SUBSET Guess, proxies : SUBSET Guess]

Original(d) == [refs |-> Mentions[d], uses |-> {}, proxies |-> {}]
Original_ops(n) == [i \in 1..Len(Ops[n]) |-> Original(Ops[n][i])]

(* struct State. nom2visit[n] is No_Undo where the map has no entry for n, and *)
(* old2new[d] holds the one result for d, or nothing.                         *)
State == [curr_nom  : Nom \cup {NoNom},
          old_ops   : Seq(Operand),
          stack     : Seq(Nom),
          nom2visit : [Nom -> Nat \cup {No_Undo}],
          data      : SUBSET Guess,
          old2new   : [Def -> SUBSET Operand],
          analyzed  : SUBSET (Nom \cup Def)]

Nothing == [d \in Def |-> {}]

curr_state == states[Len(states)]
curr_undo  == Len(states) - 1

Elems(s) == {s[i] : i \in 1..Len(s)}
Top(s)   == s[Len(s)]
Pop(s)   == SubSeq(s, 1, Len(s) - 1)

(* The orders in which a loop over a set of nominals may meet them.          *)
Orders(S) == {s \in [1..Cardinality(S) -> S] :
                 /\ Elems(s) = S
                 /\ \A i, j \in 1..Cardinality(S) : s[i] = s[j] => i = j}

Analyzed_current == curr_state.analyzed                      \* mutant of Analyzed
Analyzed == UNION {states[i].analyzed : i \in 1..Len(states)}

(* FPPass::undo_visit: just before the nominal was seen for the first time.  *)
Visited(s) == {n \in Nom : s.nom2visit[n] # No_Undo}
undo_visit_early(n) == IF curr_state.nom2visit[n] = No_Undo THEN No_Undo  \* mutant
                       ELSE curr_state.nom2visit[n] - 1
undo_visit(n) == curr_state.nom2visit[n]

(* FPPass::undo_enter: just before the body of the nominal was rewritten.    *)
undo_enter(n) ==
    LET entered == {i \in 1..Len(states) : states[i].curr_nom = n}
    IN  IF entered = {} THEN No_Undo
        ELSE (CHOOSE i \in entered : \A j \in entered : j <= i) - 1

UndoPoint(g) == IF g \in OnEnter THEN undo_enter(Subject[g]) ELSE undo_visit(Subject[g])

Later(u, v) == IF v = No_Undo THEN u ELSE v                  \* mutant of Earlier

(* std::min on undo_t, where No_Undo is larger than every state.             *)
Earlier(u, v) == IF u = No_Undo \/ (v # No_Undo /\ v < u) THEN v ELSE u

-----------------------------------------------------------------------------
Init ==
    /\ \E s \in Orders(External) :
         states = << [curr_nom |-> NoNom, old_ops |-> <<>>, stack |-> s,
                      nom2visit |-> [n \in Nom |-> No_Undo], data |-> {},
                      old2new |-> Nothing, analyzed |-> External] >>
    /\ body = [n \in Nom |-> Original_ops(n)]
    /\ refuted = {}
    /\ curr_nom = NoNom
    /\ pc = "loop"
    /\ pos = 1
    /\ undo = No_Undo
    /\ proxy = FALSE

(* Mutant of Enter: the nominal is popped from the stack of the old state.    *)
Enter_shared_stack ==
    /\ pc = "loop"
    /\ curr_state.stack # <<>>
    /\ LET nom == Top(curr_state.stack)
           old == [curr_state EXCEPT !.stack = Pop(@)] IN
         /\ curr_nom' = nom
         /\ states' = SubSeq(states, 1, Len(states) - 1) \o
                <<old, [old EXCEPT !.curr_nom = nom, !.old_ops = body[nom],
                                   !.old2new = Nothing, !.analyzed = {}]>>
         /\ pc' = IF nom \in Unset THEN "loop" ELSE "rewrite"
    /\ pos' = 1
    /\ UNCHANGED <<body, refuted, undo, proxy>>

(* The head of the loop of run(): push_state copies the current state, its   *)
(* memo tables excepted, and the nominal is popped from the copy of the      *)
(* stack.  A nominal without operands is done with that.                     *)
Enter ==
    /\ pc = "loop"
    /\ curr_state.stack # <<>>
    /\ LET nom == Top(curr_state.stack) IN
         /\ curr_nom' = nom
         /\ states' = IF FixedPoint
                      THEN Append(states, [curr_state EXCEPT
                               !.curr_nom = nom, !.old_ops = body[nom], !.stack = Pop(@),
                               !.old2new = Nothing, !.analyzed = {}])
                      ELSE [states EXCEPT ![Len(states)].stack = Pop(@)]
         /\ pc' = IF nom \in Unset THEN "loop" ELSE "rewrite"
    /\ pos' = 1
    /\ UNCHANGED <<body, refuted, undo, proxy>>

(* What rewriting the def d, not met before, may give, and the guesses G it  *)
(* newly relies on.  A guess must not be refuted, it is about a nominal seen *)
(* so far or, when undo_enter undoes it, about the one whose body this is.   *)
(* A proxy asks to give up a guess the program relies on already.            *)
MayRewrite(d, op, G) ==
    LET seen == Visited(curr_state) \cup Mentions[d] \cup op.refs
    IN  /\ G \cap (refuted \cup curr_state.data) = {}
        /\ \A g \in G : IF g \in OnEnter THEN Subject[g] = curr_nom ELSE Subject[g] \in seen
        /\ G \subseteq op.uses
        /\ op.uses \cup op.proxies \subseteq curr_state.data \cup G
        /\ FixedPoint \/ op.uses = {}

Visit_latest(nom2visit, S) ==                                \* mutant of Visit
    [n \in Nom |-> IF n \in S THEN curr_undo ELSE nom2visit[n]]

(* nom2visit.emplace(nom, curr_undo()): an entry that is there already stays. *)
Visit(nom2visit, S) ==
    [n \in Nom |-> IF n \in S /\ nom2visit[n] = No_Undo THEN curr_undo ELSE nom2visit[n]]

(* curr_nom_->set(i, rewrite(curr_nom_->op(i))): a def rewritten before, in  *)
(* this state or one below, is looked up; every other one is rewritten,      *)
(* every nominal met on the way is visited, and the result is remembered.    *)
RewriteOp ==
    /\ pc = "rewrite"
    /\ pos <= Len(Ops[curr_nom])
    /\ LET d    == Ops[curr_nom][pos]
           memo == {i \in 1..Len(states) : states[i].old2new[d] # {}}
       IN  \/ \E i \in memo : \E op \in states[i].old2new[d] :
                /\ \A j \in memo : j <= i
                /\ body' = [body EXCEPT ![curr_nom][pos] = op]
                /\ UNCHANGED states
           \/ /\ memo = {}
              /\ \E op \in Operand, G \in SUBSET Guess :
                   /\ MayRewrite(d, op, G)
                   /\ body' = [body EXCEPT ![curr_nom][pos] = op]
                   /\ states' = [states EXCEPT ![Len(states)] =
                        [curr_state EXCEPT !.nom2visit = Visit(@, Mentions[d] \cup op.refs),
                                           !.data      = @ \cup G,
                                           !.old2new   = [@ EXCEPT ![d] = {op}]]]
    /\ pos' = pos + 1
    /\ UNCHANGED <<refuted, curr_nom, pc, undo, proxy>>

StartAnalyze ==
    /\ pc = "rewrite"
    /\ pos > Len(Ops[curr_nom])
    /\ pc' = "analyze"
    /\ pos' = 1
    /\ undo' = No_Undo
    /\ proxy' = FALSE
    /\ UNCHANGED <<states, body, refuted, curr_nom>>

Refute_for_now(g) ==                                         \* mutant of Refute
    /\ FixedPoint
    /\ undo' = IF g \in curr_state.data THEN Earlier(undo, UndoPoint(g)) ELSE undo
    /\ UNCHANGED <<states, body, refuted, curr_nom, pc, pos, proxy>>

(* An FPPass learns for good that g is wrong, as keep_.emplace(lam).second tells *)
(* BetaRed.  It asks for an undo if the program relies on g; EtaExp and        *)
(* TailRecElim ask for one even if it does not.                               *)
Refute(g) ==
    /\ FixedPoint
    /\ refuted' = refuted \cup {g}
    /\ \/ undo' = Earlier(undo, UndoPoint(g))
       \/ g \notin curr_state.data /\ undo' = undo
    /\ UNCHANGED <<states, body, curr_nom, pc, pos, proxy>>

Analyzing == pc = "analyze" /\ pos <= Len(Ops[curr_nom])

(* The hook Pass::analyze of some pass, given a Def or a Var.                *)
AnalyzeDef(g) ==
    /\ Analyzing
    /\ Ops[curr_nom][pos] \notin Analyzed
    /\ g \notin refuted
    /\ Subject[g] \in Visited(curr_state) \cup {curr_nom}
    /\ Refute(g)

(* The hook Pass::analyze of the pass that made the proxy.                   *)
AnalyzeProxy(g) ==
    /\ Analyzing
    /\ Ops[curr_nom][pos] \notin Analyzed
    /\ g \in body[curr_nom][pos].proxies \ refuted
    /\ Refute(g)

(* PassMan::analyze(op) returns: the nominals the operand mentions and no    *)
(* state has met are on the stack, all its proxies have been looked at.      *)
AnalyzeOp ==
    /\ Analyzing
    /\ LET d   == Ops[curr_nom][pos]
           op  == body[curr_nom][pos]
           new == op.refs \ Analyzed
       IN  \/ d \in Analyzed /\ UNCHANGED <<states, proxy>>
           \/ /\ d \notin Analyzed
              /\ op.proxies \subseteq refuted
              /\ proxy' = (proxy \/ op.proxies # {})
              /\ \E s \in Orders(new) :
                   states' = [states EXCEPT ![Len(states)] =
                        [curr_state EXCEPT !.stack    = @ \o s,
                                           !.analyzed = @ \cup new \cup {d}]]
    /\ pos' = pos + 1
    /\ UNCHANGED <<body, refuted, curr_nom, pc, undo>>

pop_states_no_reset(u) == states' = SubSeq(states, 1, u) /\ body' = body  \* mutant

pop_states_reset_last(u) ==                                  \* mutant of pop_states
    /\ states' = SubSeq(states, 1, u)
    /\ body' = [body EXCEPT ![curr_nom] = curr_state.old_ops]

pop_states_keep_analyzed(u) ==                               \* mutant of pop_states
    /\ states' = [SubSeq(states, 1, u) EXCEPT ![u].analyzed = Analyzed]
    /\ body' = [n \in Nom |->
         IF \E i \in u+1..Len(states) : states[i].curr_nom = n THEN Original_ops(n) ELSE body[n]]

(* pop_states(undo): every state from number undo on gives the nominal it    *)
(* worked on its old operands back, the last state first.                    *)
pop_states(u) ==
    LET of(n) == {i \in u+1..Len(states) : states[i].curr_nom = n}
    IN  /\ body' = [n \in Nom |->
             IF of(n) = {} THEN body[n]
             ELSE states[CHOOSE i \in of(n) : \A j \in of(n) : i <= j].old_ops]
        /\ states' = SubSeq(states, 1, u)

Leave ==
    /\ pc = "analyze"
    /\ pos > Len(Ops[curr_nom])
    /\ IF undo = No_Undo THEN UNCHANGED <<states, body>> ELSE pop_states(undo)
    /\ pc' = "loop"
    /\ pos' = 1
    /\ undo' = No_Undo
    /\ proxy' = FALSE
    /\ UNCHANGED <<refuted, curr_nom>>

(* The stack is empty: the final pop_states(0) frees the data of every state *)
(* and keeps what the nominals have become.                                  *)
Finish ==
    /\ pc = "loop"
    /\ curr_state.stack = <<>>
    /\ states' = <<>>
    /\ pc' = "done"
    /\ UNCHANGED <<body, refuted, curr_nom, pos, undo, proxy>>

Next == \/ Enter \/ RewriteOp \/ StartAnalyze
        \/ \E g \in Guess : AnalyzeDef(g) \/ AnalyzeProxy(g)
        \/ AnalyzeOp \/ Leave \/ Finish

Spec == Init /\ [][Next]_vars

(* run() is a sequential loop: it takes its next step unless it is done.     *)
FairSpec == Spec /\ WF_vars(Next)

-----------------------------------------------------------------------------
TypeOK ==
    /\ states \in Seq(State)
    /\ body \in [Nom -> Seq(Operand)]
    /\ \A n \in Nom : Len(body[n]) = Len(Ops[n])
    /\ refuted \in SUBSET Guess
    /\ curr_nom \in Nom \cup {NoNom}
    /\ pc \in {"loop", "rewrite", "analyze", "done"}
    /\ pos \in Nat \ {0}
    /\ undo \in Nat \cup {No_Undo}
    /\ proxy \in BOOLEAN
    /\ pc # "done" => Len(states) > 0
    /\ pc \in {"rewrite", "analyze"} => curr_nom \in Nom

-----------------------------------------------------------------------------
(* The nominals whose bodies the current chain of states has worked on.      *)
Entered == IF FixedPoint THEN {states[i].curr_nom : i \in 2..Len(states)}
           ELSE (Analyzed \cap Nom) \ Elems(curr_state.stack)

(* No rewritten operand relies on a guess some pass has refuted: every undo   *)
(* goes back far enough for all guesses that were refuted with it, those that *)
(* reached the operand through a memoised rewrite included.                   *)
SoundGuesses ==
    pc \in {"loop", "done"} =>
        \A n \in Nom : \A i \in 1..Len(body[n]) : body[n][i].uses \cap refuted = {}

(* The assertion of run(): a nominal that is left without an undo has no      *)
(* proxy in its operands, and neither has any other nominal.                  *)
NoProxyLeft ==
    pc \in {"loop", "done"} =>
        \A n \in Nom : \A i \in 1..Len(body[n]) : body[n][i].proxies = {}

(* After any number of undos, a nominal that the remaining states have not    *)
(* worked on has its original operands.                                       *)
RollbackRestores ==
    FixedPoint /\ pc = "loop" =>
        \A n \in Nom \ Entered : body[n] = Original_ops(n)

(* When the stack is empty, every external and every nominal mentioned by the *)
(* operands of a nominal worked on has been worked on: backtracking loses no  *)
(* pending nominal.                                                           *)
NothingMissed ==
    pc = "loop" /\ curr_state.stack = <<>> =>
        /\ External \subseteq Entered
        /\ \A n \in Entered \ Unset : \A i \in 1..Len(body[n]) : body[n][i].refs \subseteq Entered

(* No nominal is worked on by two states of the chain, so that old_ops is what *)
(* the nominal was before any of them.                                         *)
EnteredOnce ==
    FixedPoint => \A i, j \in 2..Len(states) : states[i].curr_nom = states[j].curr_nom => i = j

(* An undo makes run() repeat the very nominal that the first undone state     *)
(* worked on.                                                                  *)
UndoRepeats ==
    [][ Len(states') < Len(states) /\ pc' # "done" =>
          /\ Len(states') > 0
          /\ states'[Len(states')].stack # <<>>
          /\ Top(states'[Len(states')].stack) = states[Len(states') + 1].curr_nom ]_vars

(* run() returns, whatever the passes guess: every undo has refuted a guess    *)
(* for good.                                                                   *)
Termination == <>(pc = "done")

-----------------------------------------------------------------------------
(* The pass manager implements Optimist: the guesses relied on are those of    *)
(* the current state or, once an undo is due, of the state it goes back to.    *)
InUse == IF pc = "done" THEN UNION {UNION {body[n][i].uses : i \in 1..Len(body[n])} : n \in Nom}
         ELSE IF undo = No_Undo THEN curr_state.data ELSE states[undo].data

Abstract == INSTANCE Optimist WITH relies <- InUse, done <- (pc = "done")

ImplementsOptimist == Abstract!Spec
-----------------------------------------------------------------------------
(* A program for model checking: main calls f; f calls itself and mentions g in a   *)
(* tuple; g mentions itself.  One guess is about f and one about g.               *)
SmallOps      == [n \in Nom |-> CASE n = "main" -> <<"call">> [] n = "f" -> <<"call", "tup">> [] OTHER -> <<"own">>]
SmallMentions == [d \in Def |-> IF d = "call" THEN {"f"} ELSE {"g"}]
SmallSubject  == [x \in Guess |-> IF x = "gf" THEN "f" ELSE "g"]
=============================================================================
