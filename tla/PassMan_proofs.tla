--------------------------- MODULE PassMan_proofs ---------------------------
(***************************************************************************)
(* What TLAPS proves of PassMan, for any nominals, passes and guesses.      *)
(***************************************************************************)
EXTENDS PassMan, FiniteSetTheorems, SequenceTheorems, TLAPS

(* Where the loop stands: while a body is in work the current state is the    *)
(* one entered for it, and an undo is pending only during its analysis.       *)
LoopInv ==
    /\ pc \in {"rewrite", "analyze"} /\ FixedPoint =>
         Len(states) > 1 /\ curr_state.curr_nom = curr_nom
    /\ undo # No_Undo => pc = "analyze" /\ FixedPoint /\ undo \in 1..Len(states)-1

(* Some state up to number i has met x.                                       *)
Met(sts, i, x) == \E k \in 1..i : x \in sts[k].analyzed

(* State i has seen a nominal for the first time in a state of the chain, and  *)
(* in no earlier one.                                                          *)
VisitOK(sts, i) == \A n \in Nom :
    /\ sts[i].nom2visit[n] # No_Undo =>
         /\ sts[i].nom2visit[n] < i
         /\ FixedPoint => sts[i].nom2visit[n] > 0
         /\ \A k \in 1..i : k <= sts[i].nom2visit[n] => sts[k].nom2visit[n] = No_Undo
    /\ sts[i].nom2visit[n] = No_Undo =>
         \A k \in 1..i : sts[k].nom2visit[n] = No_Undo

(* The nominals on its stack have been met, differ, and differ from those the  *)
(* chain has worked on.                                                        *)
StackOK(sts, i) ==
    /\ \A a \in 1..Len(sts[i].stack) : Met(sts, i, sts[i].stack[a])
    /\ \A a, b \in 1..Len(sts[i].stack) : sts[i].stack[a] = sts[i].stack[b] => a = b
    /\ \A j \in 2..i : \A a \in 1..Len(sts[i].stack) : sts[j].curr_nom # sts[i].stack[a]

(* What it works on is new to the chain and had its original operands.         *)
NomOK(sts, i) ==
    /\ i = 1 => sts[i].curr_nom = NoNom
    /\ i > 1 => /\ FixedPoint
                /\ sts[i].curr_nom \in Nom
                /\ Met(sts, i, sts[i].curr_nom)
                /\ \A j \in 2..i-1 : sts[j].curr_nom # sts[i].curr_nom
                /\ sts[i].old_ops = Original_ops(sts[i].curr_nom)

(* The guesses it relies on, those of earlier states and of its memo table     *)
(* among them, have a place to go back to.                                     *)
DataOK(sts, i) ==
    /\ ~FixedPoint => sts[i].data = {}
    /\ \A j \in 1..i : sts[j].data \subseteq sts[i].data
    /\ \A g \in sts[i].data :
         IF g \in OnEnter THEN \E j \in 2..i : sts[j].curr_nom = Subject[g]
         ELSE sts[i].nom2visit[Subject[g]] # No_Undo
    /\ \A d \in Def : \A op \in sts[i].old2new[d] : op.uses \subseteq sts[i].data

StateOK(sts, i) == VisitOK(sts, i) /\ StackOK(sts, i) /\ NomOK(sts, i) /\ DataOK(sts, i)
ChainInv == \A i \in 1..Len(states) : StateOK(states, i)

(* A refuted guess is relied on only by the states the pending undo removes.  *)
RefutedInv == \A i \in 1..Len(states) : \A g \in states[i].data \cap refuted :
    undo # No_Undo /\ undo < i

(* What a state has rewritten relies on its guesses only; what no state has   *)
(* worked on is original.                                                     *)
BodyInv ==
    /\ \A i \in 2..Len(states) : \A k \in 1..Len(body[states[i].curr_nom]) :
         body[states[i].curr_nom][k].uses \subseteq states[i].data
    /\ FixedPoint /\ pc # "done" =>
         \A n \in Nom : (\A i \in 2..Len(states) : states[i].curr_nom # n) => body[n] = Original_ops(n)
    /\ ~FixedPoint =>
         \A n \in Nom : \A k \in 1..Len(body[n]) : body[n][k].uses = {}
    /\ pc = "done" =>
         \A n \in Nom : \A k \in 1..Len(body[n]) : body[n][k].uses \cap refuted = {}

IInv == TypeOK /\ LoopInv /\ ChainInv /\ RefutedInv /\ BodyInv

(* Some state up to number i has looked into an operand: r holds the guesses its *)
(* proxies asked to give up, and the nominals it mentions have been met.          *)
Settled(sts, r, op, i) == op.proxies \subseteq r /\ \A x \in op.refs : Met(sts, i, x)

(* Every nominal that state i has met is worked on by the chain or waits on the *)
(* stack.  A def that has been analyzed has been rewritten, and what it became   *)
(* has been looked into.                                                        *)
MetOK(sts, r, i) ==
    /\ FixedPoint => \A x \in Nom : Met(sts, i, x) =>
         \/ \E j \in 2..i : sts[j].curr_nom = x
         \/ \E a \in 1..Len(sts[i].stack) : sts[i].stack[a] = x
    /\ \A d \in Def \cap sts[i].analyzed : \E j \in 1..i : \E op \in sts[j].old2new[d] :
         Settled(sts, r, op, i)

(* The chain remembers one result for a def.                                    *)
MemoOK(sts, i) == \A d \in Def : \A op \in sts[i].old2new[d] :
    /\ op.proxies \subseteq sts[i].data
    /\ \A j \in 1..i : \A op2 \in sts[j].old2new[d] : j = i /\ op2 = op

MetInv ==
    /\ Len(states) > 0 => External \subseteq states[1].analyzed
    /\ \A i \in 1..Len(states) : MetOK(states, refuted, i) /\ MemoOK(states, i)

(* Operand k of the nominal in work is what the chain remembers for its def.     *)
Memoised(k) == \E j \in 1..Len(states) : body[curr_nom][k] \in states[j].old2new[Ops[curr_nom][k]]

WorkInv ==
    /\ pc \in {"rewrite", "analyze"} => curr_nom \notin Unset
    /\ pc = "rewrite" => \A k \in 1..Len(Ops[curr_nom]) : k < pos => Memoised(k)
    /\ pc = "analyze" => \A k \in 1..Len(Ops[curr_nom]) :
         Memoised(k) /\ (k < pos => Settled(states, refuted, body[curr_nom][k], Len(states)))

Working(n) == pc \in {"rewrite", "analyze"} /\ n = curr_nom

(* So has every operand of a nominal the chain is done with.                     *)
SettledInv ==
    /\ \A i \in 2..Len(states) : states[i].curr_nom \notin Unset /\ ~Working(states[i].curr_nom) =>
         \A k \in 1..Len(body[states[i].curr_nom]) : Settled(states, refuted, body[states[i].curr_nom][k], i)
    /\ ~FixedPoint /\ pc # "done" => \A n \in Nom \ Unset :
         /\ Met(states, 1, n)
         /\ \A a \in 1..Len(states[1].stack) : states[1].stack[a] # n
         /\ ~Working(n)
         => \A k \in 1..Len(body[n]) : Settled(states, refuted, body[n][k], 1)

(* A proxy asks to give up a guess of the state that made it.                    *)
ProxyInv ==
    /\ \A i \in 2..Len(states) : \A k \in 1..Len(body[states[i].curr_nom]) :
         body[states[i].curr_nom][k].proxies \subseteq states[i].data
    /\ ~FixedPoint \/ pc = "done" =>
         \A n \in Nom : \A k \in 1..Len(body[n]) : body[n][k].proxies = {}
    /\ \A n \in Unset : body[n] = Original_ops(n)

(* The state before each one was about to work on its nominal.                   *)
RepeatInv == \A i \in 1..Len(states)-1 :
    states[i].stack # <<>> /\ Top(states[i].stack) = states[i+1].curr_nom

(* The second inductive invariant, next to IInv: what the chain of states has met, *)
(* rewritten and looked into.                                                    *)
LInv == MetInv /\ WorkInv /\ SettledInv /\ ProxyInv

-----------------------------------------------------------------------------
USE NomAssumption, OpsAssumption, GuessAssumption DEF No_Undo

(* The orders of a finite set of nominals are injective sequences of them.    *)
LEMMA OrdersSeq ==
    ASSUME NEW S \in SUBSET Nom, NEW s \in Orders(S)
    PROVE  /\ s \in Seq(Nom)
           /\ Elems(s) = S
           /\ \A a, b \in 1..Len(s) : s[a] = s[b] => a = b
<1>1. IsFiniteSet(S) /\ Cardinality(S) \in Nat
  BY FS_Subset, FS_CardinalityType
<1>2. s \in [1..Cardinality(S) -> S]
  BY DEF Orders
<1>3. s \in Seq(S) /\ Len(s) = Cardinality(S)
  BY <1>1, <1>2, SeqDef
<1> QED
  BY <1>3 DEF Orders

(* The original operands of a nominal rely on nothing.                        *)
LEMMA OriginalType ==
    ASSUME NEW n \in Nom
    PROVE  /\ Original_ops(n) \in Seq(Operand)
           /\ Len(Original_ops(n)) = Len(Ops[n])
           /\ \A k \in 1..Len(Ops[n]) : Original_ops(n)[k].uses = {}
<1>1. Ops[n] \in Seq(Def) /\ Len(Ops[n]) \in Nat
  OBVIOUS
<1>2. \A k \in 1..Len(Ops[n]) : Original(Ops[n][k]) \in Operand
  BY <1>1 DEF Original, Operand
<1> QED
  BY <1>1, <1>2 DEF Original_ops, Original

(* IInv holds before the first step, and every step keeps it.                   *)
LEMMA InitInv == Init => IInv
<1> SUFFICES ASSUME Init PROVE IInv
  OBVIOUS
<1>0. PICK s \in Orders(External) :
         states = << [curr_nom |-> NoNom, old_ops |-> <<>>, stack |-> s,
                      nom2visit |-> [n \in Nom |-> No_Undo], data |-> {},
                      old2new |-> Nothing, analyzed |-> External] >>
  BY DEF Init
<1>1. s \in Seq(Nom) /\ Elems(s) = External /\ \A a, b \in 1..Len(s) : s[a] = s[b] => a = b
  BY OrdersSeq
<1>2. Len(states) = 1 /\ states[1].curr_nom = NoNom /\ states[1].stack = s
      /\ states[1].data = {} /\ states[1].nom2visit = [n \in Nom |-> No_Undo]
      /\ states[1].old2new = [d \in Def |-> {}] /\ states[1].analyzed = External
  BY <1>0 DEF Nothing
<1>3. states[1] \in State
  <2>1. [n \in Nom |-> No_Undo] \in [Nom -> Nat \cup {No_Undo}]
    OBVIOUS
  <2>2. Nothing \in [Def -> SUBSET Operand]
    BY DEF Nothing
  <2>3. External \in SUBSET (Nom \cup Def) /\ <<>> \in Seq(Operand)
    OBVIOUS
  <2>4. states[1] = [curr_nom |-> NoNom, old_ops |-> <<>>, stack |-> s,
                     nom2visit |-> [n \in Nom |-> No_Undo], data |-> {},
                     old2new |-> Nothing, analyzed |-> External]
    BY <1>0
  <2> QED
    BY <1>1, <2>1, <2>2, <2>3, <2>4 DEF State
<1>4. states \in Seq(State)
  BY <1>0, <1>2, <1>3
<1>5. TypeOK
  <2>1. Len(states) > 0
    BY <1>2
  <2>2. body \in [Nom -> Seq(Operand)] /\ \A n \in Nom : Len(body[n]) = Len(Ops[n])
    BY OriginalType DEF Init
  <2>3. refuted = {} /\ curr_nom = NoNom /\ pc = "loop" /\ pos = 1 /\ undo = -1
    BY DEF Init
  <2>4. proxy \in BOOLEAN
    BY DEF Init
  <2> QED
    BY <1>4, <2>1, <2>2, <2>3, <2>4 DEF TypeOK
<1>6. LoopInv /\ RefutedInv
  BY <1>2 DEF LoopInv, RefutedInv, Init
<1>7. ChainInv
  <2>1. VisitOK(states, 1) /\ StackOK(states, 1) /\ NomOK(states, 1) /\ DataOK(states, 1)
    BY <1>1, <1>2 DEF VisitOK, StackOK, NomOK, DataOK, Met, Elems
  <2> QED
    BY <1>2, <2>1 DEF ChainInv, StateOK
<1>8. BodyInv
  BY <1>2, OriginalType DEF BodyInv, Init
<1> QED
  BY <1>5, <1>6, <1>7, <1>8 DEF IInv

(* A prefix of a sequence.                                                    *)
LEMMA PrefixSeq ==
    ASSUME NEW S, NEW s \in Seq(S), NEW m \in Int, 0 <= m, m <= Len(s)
    PROVE  /\ SubSeq(s, 1, m) \in Seq(S)
           /\ Len(SubSeq(s, 1, m)) = m
           /\ \A i \in 1..m : SubSeq(s, 1, m)[i] = s[i]
<1>1. SubSeq(s, 1, m) \in Seq(S) /\ Len(SubSeq(s, 1, m)) = m
  OBVIOUS
<1>2. ASSUME NEW i \in 1..m PROVE SubSeq(s, 1, m)[i] = s[i]
  OBVIOUS
<1> QED
  BY <1>1, <1>2

(* Popping the top of a stack.                                                *)
LEMMA PopSeq ==
    ASSUME NEW S, NEW s \in Seq(S), s # <<>>
    PROVE  /\ Len(s) \in Nat \ {0}
           /\ Top(s) \in S /\ Top(s) = s[Len(s)]
           /\ Pop(s) \in Seq(S) /\ Len(Pop(s)) = Len(s) - 1
           /\ \A i \in 1..Len(s)-1 : Pop(s)[i] = s[i]
<1>1. Len(s) \in Nat \ {0}
  BY EmptySeq
<1>2. Pop(s) \in Seq(S) /\ Len(Pop(s)) = Len(s) - 1 /\ \A i \in 1..Len(s)-1 : Pop(s)[i] = s[i]
  <2>1. Len(s) - 1 \in Int /\ 0 <= Len(s) - 1 /\ Len(s) - 1 <= Len(s)
    BY <1>1
  <2> QED
    BY <2>1, PrefixSeq DEF Pop
<1> QED
  BY <1>1, <1>2 DEF Top

(* The fields of the states on the deque.                                     *)
LEMMA StateFields ==
    ASSUME TypeOK, NEW i \in 1..Len(states)
    PROVE  /\ states[i] \in State
           /\ states[i].curr_nom \in Nom \cup {NoNom}
           /\ states[i].old_ops \in Seq(Operand)
           /\ states[i].stack \in Seq(Nom)
           /\ states[i].nom2visit \in [Nom -> Nat \cup {No_Undo}]
           /\ states[i].data \in SUBSET Guess
           /\ states[i].old2new \in [Def -> SUBSET Operand]
           /\ states[i].analyzed \in SUBSET (Nom \cup Def)
<1>1. states[i] \in State
  BY DEF TypeOK
<1> QED
  BY <1>1 DEF State

(* What is said of state i depends on the states up to i only.                *)
LEMMA PrefixOK ==
    ASSUME NEW sts, NEW sts2, NEW i \in Nat \ {0}, StateOK(sts, i),
           \A k \in 1..i : sts2[k] = sts[k]
    PROVE  StateOK(sts2, i)
<1>1. sts2[i] = sts[i]
  OBVIOUS
<1>2. VisitOK(sts2, i)
  BY <1>1 DEF StateOK, VisitOK
<1>3. \A x : Met(sts, i, x) => Met(sts2, i, x)
  BY DEF Met
<1>4. StackOK(sts2, i)
  BY <1>1, <1>3 DEF StateOK, StackOK
<1>5. NomOK(sts2, i)
  BY <1>1, <1>3 DEF StateOK, NomOK
<1>6. DataOK(sts2, i)
  <2>1. DataOK(sts, i)
    BY DEF StateOK
  <2>2. \A j \in 1..i : sts2[j].data \subseteq sts2[i].data
    BY <1>1, <2>1 DEF DataOK
  <2>3. \A n : (\E j \in 2..i : sts[j].curr_nom = n) => \E j \in 2..i : sts2[j].curr_nom = n
    OBVIOUS
  <2> QED
    BY <1>1, <2>1, <2>2, <2>3 DEF DataOK
<1> QED
  BY <1>2, <1>4, <1>5, <1>6 DEF StateOK

(* Replacing the current state.                                               *)
LEMMA UpdateLast ==
    ASSUME NEW sts \in Seq(State), NEW n \in Nat \ {0}, n = Len(sts), NEW new \in State
    PROVE  LET upd == [sts EXCEPT ![n] = new] IN
           /\ upd \in Seq(State) /\ Len(upd) = n
           /\ \A i \in 1..n-1 : upd[i] = sts[i]
           /\ upd[n] = new
OBVIOUS

(* It keeps what is said of the states below.                                 *)
LEMMA UpdateOK ==
    ASSUME NEW sts, NEW sts2, NEW n \in Nat \ {0},
           \A i \in 1..n : StateOK(sts, i), \A i \in 1..n-1 : sts2[i] = sts[i],
           StateOK(sts2, n)
    PROVE  \A i \in 1..n : StateOK(sts2, i)
<1> TAKE i \in 1..n
<1>1. CASE i = n
  BY <1>1
<1>2. CASE i # n
  <2>1. i \in Nat \ {0} /\ (\A k \in 1..i : sts2[k] = sts[k]) /\ StateOK(sts, i)
    BY <1>2
  <2> QED
    BY <2>1, PrefixOK
<1> QED
  BY <1>1, <1>2

(* A nominal that is entered is new to the chain: it comes from the stack.      *)
LEMMA EnterInv == IInv /\ Enter => IInv'
<1> SUFFICES ASSUME IInv, Enter PROVE IInv'
  OBVIOUS
<1> USE DEF IInv
<1>1. PICK n \in Nat \ {0} : n = Len(states)
  <2>1. states \in Seq(State) /\ Len(states) > 0
    BY DEF Enter, TypeOK
  <2> QED
    BY <2>1
<1>2. pc = "loop" /\ states \in Seq(State) /\ undo = No_Undo
  BY DEF Enter, TypeOK, LoopInv
<1>3. PICK stack \in Seq(Nom) : stack = states[n].stack
  BY <1>1, StateFields
<1>4. PICK nom, rest, top : nom = Top(stack) /\ rest = Pop(stack) /\ top = Len(stack)
  OBVIOUS
<1>5. /\ top \in Nat \ {0} /\ top = Len(stack) /\ nom \in Nom /\ nom = stack[top]
      /\ rest \in Seq(Nom) /\ Len(rest) = top - 1
      /\ \A a \in 1..top-1 : rest[a] = stack[a]
  <2>1. stack # <<>>
    BY <1>1, <1>3 DEF Enter, curr_state
  <2> QED
    BY <1>4, <2>1, PopSeq
<1>6. /\ body' = body /\ refuted' = refuted /\ undo' = undo /\ pos' = 1 /\ curr_nom' = nom
      /\ pc' \in {"loop", "rewrite"} /\ proxy' = proxy
  BY <1>1, <1>3, <1>4 DEF Enter, curr_state
<1>7. CASE FixedPoint
  <2>1. PICK new \in State :
           /\ states' = Append(states, new)
           /\ new.curr_nom = nom /\ new.old_ops = body[nom] /\ new.stack = rest
           /\ new.nom2visit = states[n].nom2visit /\ new.data = states[n].data
           /\ new.old2new = [d \in Def |-> {}] /\ new.analyzed = {}
    <3> DEFINE new == [curr_state EXCEPT !.curr_nom = nom, !.old_ops = body[nom], !.stack = rest,
                                         !.old2new = Nothing, !.analyzed = {}]
    <3>1. states' = Append(states, new)
      BY <1>1, <1>3, <1>4, <1>7 DEF Enter, curr_state
    <3>2. body[nom] \in Seq(Operand) /\ Nothing \in [Def -> SUBSET Operand]
      BY <1>5 DEF TypeOK, Nothing
    <3>3. curr_state \in State /\ curr_state = states[n]
      BY <1>1, <1>2 DEF curr_state
    <3>4. new \in State
      BY <1>5, <3>2, <3>3 DEF State
    <3>5. /\ new.curr_nom = nom /\ new.old_ops = body[nom] /\ new.stack = rest
          /\ new.nom2visit = states[n].nom2visit /\ new.data = states[n].data
          /\ new.old2new = [d \in Def |-> {}] /\ new.analyzed = {}
      BY <3>3 DEF State, Nothing
    <3> QED
      BY <3>1, <3>4, <3>5
  <2>2. /\ states' \in Seq(State) /\ Len(states') = n + 1
        /\ \A i \in 1..n : states'[i] = states[i]
        /\ states'[n+1] = new
    BY <1>1, <1>2, <2>1
  <2>3. TypeOK'
    <3>1. curr_nom' \in Nom /\ Len(states') > 0
      BY <1>1, <1>5, <1>6, <2>2
    <3> QED
      BY <1>6, <2>2, <3>1 DEF TypeOK
  <2>4. LoopInv'
    BY <1>1, <1>2, <1>5, <1>6, <2>1, <2>2 DEF LoopInv, curr_state
  <2>5. ASSUME NEW i \in 1..n PROVE StateOK(states', i)
    BY <1>1, <2>2, <2>5, PrefixOK DEF ChainInv
  <2>6. StateOK(states', n) /\ n \in 1..n
    BY <1>1, <2>5
  <2>7. VisitOK(states', n+1)
    <3>1. states'[n].nom2visit \in [Nom -> Nat \cup {No_Undo}]
      BY <1>1, <2>2, StateFields
    <3> QED
      BY <2>1, <2>2, <2>6, <3>1 DEF StateOK, VisitOK
  <2>8. StackOK(states', n+1)
    <3>1. \A x : Met(states', n, x) => Met(states', n+1, x)
      BY DEF Met
    <3>2. StackOK(states', n) /\ states'[n].stack = stack
      BY <1>1, <1>3, <2>2, <2>6 DEF StateOK
    <3> /\ \A a \in 1..top : Met(states', n, stack[a])
        /\ \A a, b \in 1..top : stack[a] = stack[b] => a = b
      BY <1>5, <3>2 DEF StackOK
    <3>3. ASSUME NEW a \in 1..top-1 PROVE Met(states', n+1, rest[a])
      <4>1. rest[a] = stack[a] /\ a \in 1..top
        BY <1>5
      <4> QED
        BY <3>1, <4>1
    <3>4. ASSUME NEW a \in 1..top-1, NEW b \in 1..top-1, rest[a] = rest[b] PROVE a = b
      <4>1. rest[a] = stack[a] /\ a \in 1..top
        BY <1>5
      <4>2. rest[b] = stack[b] /\ b \in 1..top
        BY <1>5
      <4> QED
        BY <3>4, <4>1, <4>2
    <3>5. \A j \in 2..n : \A a \in 1..top-1 : states'[j].curr_nom # rest[a]
      BY <1>5, <3>2 DEF StackOK
    <3>6. \A a \in 1..top-1 : nom # rest[a]
      BY <1>5, <3>2 DEF StackOK
    <3>7. ASSUME NEW j \in 2..n+1, NEW a \in 1..top-1 PROVE states'[j].curr_nom # rest[a]
      BY <2>1, <2>2, <3>5, <3>6
    <3>8. states'[n+1].stack = rest /\ 1..Len(rest) = 1..top-1
      BY <1>5, <2>1, <2>2
    <3> QED
      BY <3>3, <3>4, <3>7, <3>8 DEF StackOK
  <2>9. NomOK(states', n+1)
    <3>1. StackOK(states', n) /\ states'[n].stack = stack
      BY <1>1, <1>3, <2>2, <2>6 DEF StateOK
    <3>2. Met(states', n+1, nom)
      BY <1>5, <3>1 DEF StackOK, Met
    <3>3. \A j \in 2..n : states[j].curr_nom # nom
      BY <1>5, <2>2, <3>1 DEF StackOK
    <3>4. body[nom] = Original_ops(nom)
      BY <1>1, <1>2, <1>5, <1>7, <3>3 DEF BodyInv
    <3> QED
      BY <1>5, <1>7, <2>1, <2>2, <3>2, <3>3, <3>4 DEF NomOK
  <2>10. DataOK(states', n+1)
    <3>1. DataOK(states', n) /\ states'[n].data = states[n].data
          /\ states'[n].nom2visit = states[n].nom2visit
      BY <1>1, <2>2, <2>6 DEF StateOK
    <3>2. \A j \in 1..n+1 : states'[j].data \subseteq new.data
      BY <2>1, <2>2, <3>1 DEF DataOK
    <3>3. ASSUME NEW g \in new.data
          PROVE  IF g \in OnEnter THEN \E j \in 2..n+1 : states'[j].curr_nom = Subject[g]
                 ELSE new.nom2visit[Subject[g]] # No_Undo
      <4>1. g \in states'[n].data
        BY <2>1, <3>1
      <4>2. CASE g \in OnEnter
        <5>1. PICK j \in 2..n : states'[j].curr_nom = Subject[g]
          BY <3>1, <4>1, <4>2 DEF DataOK
        <5> QED
          BY <4>2, <5>1
      <4>3. CASE g \notin OnEnter
        BY <2>1, <3>1, <4>1, <4>3 DEF DataOK
      <4> QED
        BY <4>2, <4>3
    <3> QED
      BY <1>7, <2>1, <2>2, <3>2, <3>3 DEF DataOK
  <2>11. ChainInv'
    BY <2>2, <2>5, <2>7, <2>8, <2>9, <2>10 DEF ChainInv, StateOK
  <2>12. RefutedInv'
    <3>1. \A i \in 1..n : states[i].data \cap refuted = {}
      BY <1>1, <1>2 DEF RefutedInv
    <3> QED
      BY <1>6, <2>1, <2>2, <3>1 DEF RefutedInv
  <2>13. BodyInv'
    <3>1. ASSUME NEW k \in 1..Len(body[nom]) PROVE body[nom][k].uses = {}
      <4>1. body[nom] = Original_ops(nom)
        BY <1>5, <2>2, <2>1, <2>9, <1>6 DEF NomOK
      <4> QED
        BY <1>5, <3>1, <4>1, OriginalType
    <3>2. ASSUME NEW i \in 2..n+1, NEW k \in 1..Len(body[states'[i].curr_nom])
          PROVE  body[states'[i].curr_nom][k].uses \subseteq states'[i].data
      <4>1. CASE i = n+1
        BY <2>1, <2>2, <3>1, <3>2, <4>1
      <4>2. CASE i \in 2..n
        <5>1. states'[i] = states[i]
          BY <2>2, <4>2
        <5> QED
          BY <1>1, <3>2, <4>2, <5>1 DEF BodyInv
      <4> QED
        BY <4>1, <4>2
    <3>3. ASSUME NEW m \in Nom, \A i \in 2..n+1 : states'[i].curr_nom # m
          PROVE  body[m] = Original_ops(m)
      <4>1. \A i \in 2..n : states[i].curr_nom # m
        BY <2>2, <3>3
      <4> QED
        BY <1>1, <1>2, <1>7, <4>1 DEF BodyInv
    <3> QED
      BY <1>6, <1>7, <2>2, <3>2, <3>3 DEF BodyInv
  <2> QED
    BY <2>3, <2>4, <2>11, <2>12, <2>13
<1>8. CASE ~FixedPoint
  <2>1. n = 1
    BY <1>1, <1>8 DEF ChainInv, StateOK, NomOK
  <2>2. PICK new \in State :
           /\ states' = [states EXCEPT ![n] = new]
           /\ new.curr_nom = states[1].curr_nom /\ new.old_ops = states[1].old_ops
           /\ new.stack = rest /\ new.nom2visit = states[1].nom2visit
           /\ new.data = states[1].data /\ new.old2new = states[1].old2new
           /\ new.analyzed = states[1].analyzed
    <3> DEFINE new == [states[1] EXCEPT !.stack = rest]
    <3>1. states[1] \in State
      <4>1. 1 \in 1..Len(states)
        BY <1>1, <2>1
      <4> QED
        BY <4>1, StateFields
    <3>2. states' = [states EXCEPT ![n] = new]
      BY <1>1, <1>3, <1>4, <1>8, <2>1 DEF Enter, curr_state
    <3>3. new \in State
      BY <1>5, <3>1 DEF State
    <3>4. /\ new.curr_nom = states[1].curr_nom /\ new.old_ops = states[1].old_ops
          /\ new.stack = rest /\ new.nom2visit = states[1].nom2visit
          /\ new.data = states[1].data /\ new.old2new = states[1].old2new
          /\ new.analyzed = states[1].analyzed
      BY <3>1 DEF State
    <3> QED
      BY <3>2, <3>3, <3>4
  <2>3. states' \in Seq(State) /\ Len(states') = 1 /\ states'[1] = new
    <3>1. states' \in Seq(State) /\ Len(states') = n /\ states'[n] = new
      BY <1>1, <1>2, <2>2, UpdateLast
    <3> QED
      BY <2>1, <3>1
  <2>4. TypeOK'
    BY <1>5, <1>6, <2>3 DEF TypeOK
  <2>5. LoopInv'
    BY <1>2, <1>6, <1>8, <2>3 DEF LoopInv
  <2>6. StateOK(states, 1)
    BY <1>1, <2>1 DEF ChainInv
  <2>7. VisitOK(states', 1)
    BY <2>2, <2>3, <2>6 DEF StateOK, VisitOK
  <2>8. StackOK(states', 1)
    <3>1. ASSUME NEW a \in 1..top-1 PROVE a \in 1..top /\ rest[a] = stack[a]
      <4>1. a \in 1..top
        BY <1>5
      <4> QED
        BY <1>5, <4>1
    <3>2. \A a \in 1..top : stack[a] \in new.analyzed
      BY <1>3, <1>5, <2>1, <2>2, <2>6 DEF StateOK, StackOK, Met
    <3>3. \A a, b \in 1..top : stack[a] = stack[b] => a = b
      BY <1>3, <1>5, <2>1, <2>6 DEF StateOK, StackOK
    <3>4. Len(rest) = top-1
      BY <1>5
    <3>5. \A a \in 1..top-1 : Met(states', 1, rest[a])
      BY <2>3, <3>1, <3>2 DEF Met
    <3>6. \A a, b \in 1..top-1 : rest[a] = rest[b] => a = b
      BY <3>1, <3>3
    <3>7. \A j \in 2..1 : FALSE
      OBVIOUS
    <3> QED
      <4>1. states'[1].stack = rest /\ 1..Len(rest) = 1..top-1
        BY <2>2, <2>3, <3>4
      <4> QED
        BY <3>5, <3>6, <3>7, <4>1 DEF StackOK
  <2>9. NomOK(states', 1)
    BY <2>2, <2>3, <2>6 DEF StateOK, NomOK
  <2>10. DataOK(states', 1)
    BY <1>8, <2>2, <2>3, <2>6 DEF StateOK, DataOK
  <2>11. ChainInv'
    BY <2>3, <2>7, <2>8, <2>9, <2>10 DEF ChainInv, StateOK
  <2>12. RefutedInv'
    <3>1. states[1].data = {}
      BY <1>8, <2>6 DEF StateOK, DataOK
    <3> QED
      <4>1. ASSUME NEW i \in 1..Len(states') PROVE states'[i].data = {}
        <5>1. i = 1
          BY <2>3
        <5>2. new.data = {}
          BY <2>2, <3>1
        <5> QED
          BY <2>3, <5>1, <5>2
      <4> QED
        BY <4>1 DEF RefutedInv
  <2>13. BodyInv'
    <3>1. \A i \in 2..1 : FALSE
      OBVIOUS
    <3>2. pc' # "done" /\ Len(states') = 1
      BY <1>6, <2>3
    <3> QED
      BY <1>6, <1>8, <3>1, <3>2 DEF BodyInv
  <2> QED
    BY <2>4, <2>5, <2>11, <2>12, <2>13
<1> QED
  BY <1>7, <1>8
-----------------------------------------------------------------------------
(* Where RewriteOp, the analysis and Leave act.                               *)
LEMMA InWork ==
    ASSUME IInv, pc \in {"rewrite", "analyze"}
    PROVE  /\ curr_nom \in Nom
           /\ Len(states) \in Nat \ {0} /\ states \in Seq(State)
           /\ curr_state = states[Len(states)] /\ curr_state \in State
           /\ FixedPoint => Len(states) > 1 /\ states[Len(states)].curr_nom = curr_nom
           /\ ~FixedPoint => Len(states) = 1
           /\ \A i \in 1..Len(states) : StateOK(states, i)
<1>1. Len(states) > 0 /\ states \in Seq(State) /\ curr_nom \in Nom
  BY DEF IInv, TypeOK
<1>2. Len(states) \in Nat \ {0}
  BY <1>1
<1>3. \A i \in 1..Len(states) : StateOK(states, i)
  BY DEF IInv, ChainInv
<1>4. ~FixedPoint => Len(states) = 1
  <2>1. PICK m \in Nat \ {0} : m = Len(states)
    BY <1>2
  <2>2. m \in 1..m /\ (m > 1 => FixedPoint)
    BY <1>3, <2>1 DEF StateOK, NomOK
  <2>3. m > 1 \/ m = 1
    BY <2>1
  <2> QED
    BY <2>1, <2>2, <2>3, Zenon
<1>5. FixedPoint => Len(states) > 1 /\ states[Len(states)].curr_nom = curr_nom
  BY DEF IInv, LoopInv, curr_state
<1> QED
  BY <1>1, <1>2, <1>3, <1>4, <1>5 DEF curr_state

(* Replacing an operand of the nominal in work by one that relies on guesses   *)
(* of the current state.                                                       *)
LEMMA BodyStep ==
    ASSUME IInv, pc = "rewrite", pc' = pc, refuted' = refuted,
           NEW op \in Operand, NEW k \in 1..Len(Ops[curr_nom]),
           body' = [body EXCEPT ![curr_nom] = [@ EXCEPT ![k] = op]],
           Len(states') = Len(states),
           \A i \in 1..Len(states) : states'[i].curr_nom = states[i].curr_nom,
           \A i \in 1..Len(states) : states[i].data \subseteq states'[i].data,
           op.uses \subseteq states'[Len(states)].data,
           ~FixedPoint => op.uses = {}
    PROVE  /\ BodyInv'
           /\ body' \in [Nom -> Seq(Operand)]
           /\ \A m \in Nom : Len(body'[m]) = Len(Ops[m])
<1>1. PICK n \in Nat \ {0} : n = Len(states)
  BY InWork
<1>2. curr_nom \in Nom /\ body \in [Nom -> Seq(Operand)] /\ \A m \in Nom : Len(body[m]) = Len(Ops[m])
  BY InWork DEF IInv, TypeOK
<1>3. PICK old \in Seq(Operand) : old = body[curr_nom]
  BY <1>2
<1>4. PICK upd \in Seq(Operand) : /\ upd = [old EXCEPT ![k] = op]
                                  /\ Len(upd) = Len(old)
                                  /\ \A j \in 1..Len(old) : upd[j] = IF j = k THEN op ELSE old[j]
  <2>1. k \in 1..Len(old)
    BY <1>2, <1>3
  <2>2. /\ [old EXCEPT ![k] = op] \in Seq(Operand)
        /\ Len([old EXCEPT ![k] = op]) = Len(old)
        /\ \A j \in 1..Len(old) : [old EXCEPT ![k] = op][j] = IF j = k THEN op ELSE old[j]
    BY <2>1
  <2> QED
    BY <2>2
<1>5. body' = [body EXCEPT ![curr_nom] = upd]
  BY <1>2, <1>3, <1>4
<1>6. body' \in [Nom -> Seq(Operand)] /\ \A m \in Nom : Len(body'[m]) = Len(Ops[m])
  BY <1>2, <1>3, <1>4, <1>5
<1>7. ASSUME NEW i \in 2..n, NEW j \in 1..Len(body'[states'[i].curr_nom])
      PROVE  body'[states'[i].curr_nom][j].uses \subseteq states'[i].data
  <2>1. PICK m : m = states[i].curr_nom /\ m = states'[i].curr_nom
    BY <1>1
  <2>2. i \in 1..n /\ FixedPoint /\ m \in Nom
    <3>1. StateOK(states, i) /\ i > 1
      BY <1>1, InWork
    <3> QED
      BY <2>1, <3>1 DEF StateOK, NomOK
  <2>3. ASSUME NEW l \in 1..Len(body[m]) PROVE body[m][l].uses \subseteq states'[i].data
    BY <1>1, <2>1, <2>2 DEF IInv, BodyInv
  <2>4. CASE m # curr_nom
    BY <1>2, <1>5, <2>1, <2>2, <2>3, <2>4
  <2>5. CASE m = curr_nom
    <3>1. i = n
      <4>1. StateOK(states, n) /\ n \in Nat \ {0} /\ states[n].curr_nom = m /\ n > 1
        BY <1>1, <2>2, <2>5, InWork
      <4>2. i \notin 2..n-1
        BY <2>1, <4>1 DEF StateOK, NomOK
      <4> QED
        BY <1>1, <4>2
    <3>2. body'[m] = upd /\ body[m] = old
      BY <1>2, <1>3, <1>5, <2>2, <2>5
    <3>3. j \in 1..Len(old)
      BY <1>4, <2>1, <3>2
    <3>4. CASE j = k
      BY <1>1, <1>4, <2>1, <3>1, <3>2, <3>3, <3>4
    <3>5. CASE j # k
      BY <1>4, <2>1, <2>3, <3>2, <3>3, <3>5
    <3> QED
      BY <3>4, <3>5
  <2> QED
    BY <2>4, <2>5
<1>8. ASSUME FixedPoint, NEW m \in Nom, \A i \in 2..n : states'[i].curr_nom # m
      PROVE  body'[m] = Original_ops(m)
  <2>1. \A i \in 2..n : states[i].curr_nom # m
    BY <1>1, <1>8
  <2>2. m # curr_nom
    BY <1>1, <1>8, <2>1, InWork
  <2>3. body[m] = Original_ops(m)
    BY <1>1, <1>8, <2>1 DEF IInv, BodyInv
  <2> QED
    BY <1>2, <1>5, <2>2, <2>3
<1>9. ASSUME ~FixedPoint, NEW m \in Nom, NEW j \in 1..Len(body'[m])
      PROVE  body'[m][j].uses = {}
  <2>1. \A l \in 1..Len(body[m]) : body[m][l].uses = {}
    BY <1>9 DEF IInv, BodyInv
  <2>2. CASE m # curr_nom
    BY <1>2, <1>5, <1>9, <2>1, <2>2
  <2>3. CASE m = curr_nom
    BY <1>2, <1>3, <1>4, <1>5, <1>9, <2>1, <2>3
  <2> QED
    BY <2>2, <2>3
<1> QED
  BY <1>1, <1>6, <1>7, <1>8, <1>9 DEF BodyInv
(* A rewrite relies on guesses no pass has refuted, or on those of a memoised   *)
(* one.                                                                         *)
LEMMA RewriteOpInv == IInv /\ RewriteOp => IInv'
<1> SUFFICES ASSUME IInv, RewriteOp PROVE IInv'
  OBVIOUS
<1>1. /\ pc = "rewrite" /\ pos \in 1..Len(Ops[curr_nom]) /\ undo = No_Undo
      /\ pos' = pos + 1 /\ refuted' = refuted /\ curr_nom' = curr_nom /\ pc' = pc
      /\ undo' = undo /\ proxy' = proxy
  <2>1. pos \in Nat \ {0} /\ undo = No_Undo
    BY DEF RewriteOp, IInv, TypeOK, LoopInv
  <2>2. /\ pc = "rewrite" /\ pos <= Len(Ops[curr_nom])
        /\ pos' = pos + 1 /\ refuted' = refuted /\ curr_nom' = curr_nom /\ pc' = pc
        /\ undo' = undo /\ proxy' = proxy
    BY Zenon DEF RewriteOp
  <2>3. curr_nom \in Nom
    BY <2>2, InWork
  <2>4. pos \in 1..Len(Ops[curr_nom])
    BY <2>1, <2>2, <2>3
  <2> QED
    BY <2>1, <2>2, <2>4
<1>2. PICK n \in Nat \ {0} : n = Len(states)
  BY <1>1, InWork
<1>3. /\ states \in Seq(State) /\ curr_nom \in Nom /\ states[n] \in State
      /\ FixedPoint => n > 1 /\ states[n].curr_nom = curr_nom
      /\ ~FixedPoint => n = 1
      /\ \A i \in 1..n : StateOK(states, i)
  BY <1>1, <1>2, InWork
<1>4. PICK d \in Def : d = Ops[curr_nom][pos]
  BY <1>1, <1>3
<1>5. CASE \E i \in 1..n : \E op \in states[i].old2new[d] :
             body' = [body EXCEPT ![curr_nom][pos] = op] /\ UNCHANGED states
  <2>1. PICK i \in 1..n : \E op \in states[i].old2new[d] :
             body' = [body EXCEPT ![curr_nom][pos] = op] /\ UNCHANGED states
    BY <1>5
  <2>2. PICK op \in states[i].old2new[d] :
             body' = [body EXCEPT ![curr_nom][pos] = op] /\ UNCHANGED states
    BY <2>1
  <2>3. op \in Operand
    BY <1>2, <2>2, StateFields DEF IInv
  <2>4. op.uses \subseteq states[n].data /\ (~FixedPoint => op.uses = {})
    <3>1. op.uses \subseteq states[i].data
      BY <1>3, <2>2 DEF StateOK, DataOK
    <3>2. states[i].data \subseteq states[n].data /\ (~FixedPoint => states[n].data = {})
      BY <1>2, <1>3 DEF StateOK, DataOK
    <3> QED
      BY <3>1, <3>2
  <2>5. /\ BodyInv'
        /\ body' \in [Nom -> Seq(Operand)]
        /\ \A m \in Nom : Len(body'[m]) = Len(Ops[m])
    BY <1>1, <1>2, <2>2, <2>3, <2>4, BodyStep
  <2>6. TypeOK'
    BY <1>1, <2>2, <2>5 DEF IInv, TypeOK
  <2>7. LoopInv' /\ ChainInv' /\ RefutedInv'
    BY <1>1, <2>2 DEF IInv, LoopInv, ChainInv, RefutedInv, curr_state
  <2> QED
    BY <2>5, <2>6, <2>7 DEF IInv
<1>6. CASE \E op \in Operand, G \in SUBSET Guess :
             /\ MayRewrite(d, op, G)
             /\ body' = [body EXCEPT ![curr_nom][pos] = op]
             /\ states' = [states EXCEPT ![Len(states)] =
                  [curr_state EXCEPT !.nom2visit = Visit(@, Mentions[d] \cup op.refs),
                            !.data      = @ \cup G,
                            !.old2new   = [@ EXCEPT ![d] = {op}]]]
  <2>1. PICK op \in Operand, G \in SUBSET Guess :
             /\ MayRewrite(d, op, G)
             /\ body' = [body EXCEPT ![curr_nom][pos] = op]
             /\ states' = [states EXCEPT ![Len(states)] =
                  [curr_state EXCEPT !.nom2visit = Visit(@, Mentions[d] \cup op.refs),
                            !.data      = @ \cup G,
                            !.old2new   = [@ EXCEPT ![d] = {op}]]]
    BY <1>6
  <2>2. PICK new \in State :
             /\ states' = [states EXCEPT ![n] = new]
             /\ new.curr_nom = states[n].curr_nom /\ new.old_ops = states[n].old_ops
             /\ new.stack = states[n].stack /\ new.analyzed = states[n].analyzed
             /\ \A m \in Nom : new.nom2visit[m] =
                  IF m \in Mentions[d] \cup op.refs /\ states[n].nom2visit[m] = No_Undo
                  THEN n - 1 ELSE states[n].nom2visit[m]
             /\ new.data = states[n].data \cup G
             /\ \A e \in Def : new.old2new[e] = IF e = d THEN {op} ELSE states[n].old2new[e]
    <3> DEFINE new == [states[n] EXCEPT !.nom2visit = Visit(@, Mentions[d] \cup op.refs),
                                        !.data      = @ \cup G,
                                        !.old2new   = [@ EXCEPT ![d] = {op}]]
    <3>1. states' = [states EXCEPT ![n] = new]
      BY <1>2, <2>1 DEF curr_state
    <3>2. PICK visit : visit = Visit(states[n].nom2visit, Mentions[d] \cup op.refs)
      OBVIOUS
    <3>3. /\ visit \in [Nom -> Nat \cup {No_Undo}]
          /\ \A m \in Nom : visit[m] =
               IF m \in Mentions[d] \cup op.refs /\ states[n].nom2visit[m] = No_Undo
               THEN n - 1 ELSE states[n].nom2visit[m]
      <4>1. states[n].nom2visit \in [Nom -> Nat \cup {No_Undo}]
        BY <1>3 DEF State
      <4> QED
        BY <1>2, <3>2, <4>1 DEF Visit, curr_undo
    <3>4. new = [states[n] EXCEPT !.nom2visit = visit, !.data = @ \cup G,
                                  !.old2new = [@ EXCEPT ![d] = {op}]]
      BY <3>2
    <3>5. new \in State
      BY <1>3, <2>1, <3>3, <3>4 DEF State
    <3>6. /\ new.curr_nom = states[n].curr_nom /\ new.old_ops = states[n].old_ops
          /\ new.stack = states[n].stack /\ new.analyzed = states[n].analyzed
          /\ new.nom2visit = visit
          /\ new.data = states[n].data \cup G
          /\ new.old2new = [states[n].old2new EXCEPT ![d] = {op}]
      BY <1>3, <3>4 DEF State
    <3>7. \A e \in Def : new.old2new[e] = IF e = d THEN {op} ELSE states[n].old2new[e]
      <4>1. states[n].old2new \in [Def -> SUBSET Operand]
        BY <1>3 DEF State
      <4> QED
        BY <3>6, <4>1
    <3> HIDE DEF new
    <3> QED
      BY <3>1, <3>3, <3>5, <3>6, <3>7
  <2>3. /\ states' \in Seq(State) /\ Len(states') = n
        /\ \A i \in 1..n-1 : states'[i] = states[i]
        /\ states'[n] = new
    BY <1>2, <1>3, <2>2, UpdateLast
  <2>4. StateOK(states, n)
    BY <1>3
  <2>5. \A i \in 1..n : states'[i].curr_nom = states[i].curr_nom
                     /\ states'[i].analyzed = states[i].analyzed
                     /\ states[i].data \subseteq states'[i].data
    <3> TAKE i \in 1..n
    <3>1. i = n \/ i \in 1..n-1
      OBVIOUS
    <3> QED
      BY <2>2, <2>3, <3>1
  <2>6. VisitOK(states', n)
    <3>1. VisitOK(states, n) /\ (FixedPoint => n > 1)
      BY <1>3, <2>4 DEF StateOK
    <3>2. states[n].nom2visit \in [Nom -> Nat \cup {No_Undo}]
      BY <1>3 DEF State
    <3> SUFFICES ASSUME NEW m \in Nom
                 PROVE  /\ new.nom2visit[m] # No_Undo =>
                             /\ new.nom2visit[m] < n
                             /\ FixedPoint => new.nom2visit[m] > 0
                             /\ \A k \in 1..n : k <= new.nom2visit[m] =>
                                    states'[k].nom2visit[m] = No_Undo
                        /\ new.nom2visit[m] = No_Undo =>
                             \A k \in 1..n : states'[k].nom2visit[m] = No_Undo
      BY <2>3 DEF VisitOK
    <3>3. CASE m \in Mentions[d] \cup op.refs /\ states[n].nom2visit[m] = No_Undo
      <4>1. new.nom2visit[m] = n - 1
        BY <2>2, <3>3
      <4>2. \A k \in 1..n-1 : states'[k].nom2visit[m] = No_Undo
        BY <2>3, <3>1, <3>3 DEF VisitOK
      <4> QED
        BY <3>1, <4>1, <4>2
    <3>4. CASE ~(m \in Mentions[d] \cup op.refs /\ states[n].nom2visit[m] = No_Undo)
      <4>1. new.nom2visit[m] = states[n].nom2visit[m]
        BY <2>2, <3>4
      <4>2. \A k \in 1..n : states'[k].nom2visit[m] = states[k].nom2visit[m]
        <5> TAKE k \in 1..n
        <5>1. k = n \/ k \in 1..n-1
          OBVIOUS
        <5> QED
          BY <2>3, <4>1, <5>1
      <4> QED
        BY <3>1, <4>1, <4>2 DEF VisitOK
    <3> QED
      BY <3>3, <3>4
  <2>7. StackOK(states', n)
    <3>1. \A x : Met(states, n, x) => Met(states', n, x)
      BY <2>5 DEF Met
    <3>2. \A j \in 2..n : states'[j].curr_nom = states[j].curr_nom
      BY <2>5
    <3>3. states'[n].stack = states[n].stack
      BY <2>2, <2>3
    <3> QED
      BY <2>4, <3>1, <3>2, <3>3 DEF StateOK, StackOK
  <2>8. NomOK(states', n)
    <3>1. \A x : Met(states, n, x) => Met(states', n, x)
      BY <2>5 DEF Met
    <3>2. \A j \in 2..n-1 : states'[j].curr_nom = states[j].curr_nom
      BY <2>5
    <3>3. states'[n].curr_nom = states[n].curr_nom /\ states'[n].old_ops = states[n].old_ops
      BY <2>2, <2>3
    <3> QED
      BY <2>4, <3>1, <3>2, <3>3 DEF StateOK, NomOK
  <2>9. DataOK(states', n)
    <3>1. DataOK(states, n)
      BY <2>4 DEF StateOK
    <3>2. \A j \in 1..n : states'[j].data \subseteq new.data
      <4> TAKE j \in 1..n
      <4>1. j = n \/ j \in 1..n-1
        OBVIOUS
      <4> QED
        BY <2>2, <2>3, <3>1, <4>1 DEF DataOK
    <3>3. ASSUME NEW g \in states[n].data
          PROVE  IF g \in OnEnter THEN \E j \in 2..n : states'[j].curr_nom = Subject[g]
                 ELSE new.nom2visit[Subject[g]] # No_Undo
      <4>1. g \in Guess /\ Subject[g] \in Nom
        BY <1>3 DEF State
      <4>2. CASE g \in OnEnter
        <5>1. PICK j \in 2..n : states[j].curr_nom = Subject[g]
          BY <3>1, <4>2 DEF DataOK
        <5>2. j \in 1..n
          OBVIOUS
        <5> QED
          BY <2>5, <4>2, <5>1, <5>2
      <4>3. CASE g \notin OnEnter
        <5>1. states[n].nom2visit[Subject[g]] # No_Undo
          BY <3>1, <4>3 DEF DataOK
        <5> QED
          BY <2>2, <4>1, <4>3, <5>1
      <4> QED
        BY <4>2, <4>3
    <3>4. ASSUME NEW g \in G
          PROVE  IF g \in OnEnter THEN \E j \in 2..n : states'[j].curr_nom = Subject[g]
                 ELSE new.nom2visit[Subject[g]] # No_Undo
      <4>1. FixedPoint /\ n > 1 /\ states[n].curr_nom = curr_nom
        <5>1. FixedPoint
          BY <2>1 DEF MayRewrite
        <5> QED
          BY <1>3, <5>1
      <4>2. Subject[g] \in Nom
        OBVIOUS
      <4>3. CASE g \in OnEnter
        <5>1. Subject[g] = curr_nom
          BY <2>1, <4>3 DEF MayRewrite
        <5>2. n \in 2..n /\ states'[n].curr_nom = Subject[g]
          BY <2>2, <2>3, <4>1, <5>1
        <5> QED
          BY <4>3, <5>2
      <4>4. CASE g \notin OnEnter
        <5>1. \/ states[n].nom2visit[Subject[g]] # No_Undo
              \/ Subject[g] \in Mentions[d] \cup op.refs
          BY <1>2, <2>1, <4>4 DEF MayRewrite, Visited, curr_state
        <5> QED
          BY <2>2, <4>2, <4>4, <5>1
      <4> QED
        BY <4>3, <4>4
    <3>5. \A g \in new.data :
             IF g \in OnEnter THEN \E j \in 2..n : states'[j].curr_nom = Subject[g]
             ELSE new.nom2visit[Subject[g]] # No_Undo
      BY <2>2, <3>3, <3>4
    <3>6. ~FixedPoint => new.data = {}
      <4>1. ~FixedPoint => G = {}
        BY <2>1 DEF MayRewrite
      <4> QED
        BY <2>2, <3>1, <4>1 DEF DataOK
    <3>7. \A e \in Def : \A o \in new.old2new[e] : o.uses \subseteq new.data
      <4>1. op.uses \subseteq new.data
        BY <1>2, <2>1, <2>2 DEF MayRewrite, curr_state
      <4> QED
        BY <2>2, <3>1, <4>1 DEF DataOK
    <3> QED
      BY <2>3, <3>2, <3>5, <3>6, <3>7 DEF DataOK
  <2>10. ChainInv'
    <3>1. StateOK(states', n)
      BY <2>6, <2>7, <2>8, <2>9 DEF StateOK
    <3> QED
      BY <1>2, <1>3, <2>3, <3>1, UpdateOK DEF ChainInv
  <2>11. RefutedInv'
    <3>1. \A i \in 1..n : states[i].data \cap refuted = {}
      BY <1>1, <1>2 DEF IInv, RefutedInv
    <3>2. G \cap refuted = {}
      BY <2>1 DEF MayRewrite
    <3>3. ASSUME NEW i \in 1..n PROVE states'[i].data \cap refuted = {}
      <4>1. i = n \/ i \in 1..n-1
        OBVIOUS
      <4> QED
        BY <2>2, <2>3, <3>1, <3>2, <4>1
    <3> QED
      BY <1>1, <2>3, <3>3 DEF RefutedInv
  <2>12. /\ BodyInv'
         /\ body' \in [Nom -> Seq(Operand)]
         /\ \A m \in Nom : Len(body'[m]) = Len(Ops[m])
    <3>1. op.uses \subseteq new.data /\ (~FixedPoint => op.uses = {})
      BY <1>2, <2>1, <2>2 DEF MayRewrite, curr_state
    <3> QED
      BY <1>1, <1>2, <2>1, <2>3, <2>5, <3>1, BodyStep
  <2>13. TypeOK'
    BY <1>1, <2>3, <2>12 DEF IInv, TypeOK
  <2>14. LoopInv'
    BY <1>1, <1>2, <1>3, <2>2, <2>3 DEF LoopInv, curr_state
  <2> QED
    BY <2>10, <2>11, <2>12, <2>13, <2>14 DEF IInv
<1> QED
  BY <1>2, <1>4, <1>5, <1>6 DEF RewriteOp
(* The analysis starts without an undo.                                         *)
LEMMA StartAnalyzeInv == IInv /\ StartAnalyze => IInv'
<1> SUFFICES ASSUME IInv, StartAnalyze PROVE IInv'
  OBVIOUS
<1>1. /\ pc = "rewrite" /\ pc' = "analyze" /\ pos' = 1 /\ undo' = No_Undo
      /\ states' = states /\ body' = body /\ refuted' = refuted /\ curr_nom' = curr_nom
  BY DEF StartAnalyze
<1>2. proxy' \in BOOLEAN
  BY DEF StartAnalyze
<1>3. undo = No_Undo
  BY <1>1 DEF IInv, LoopInv
<1>4. TypeOK'
  BY <1>1, <1>2 DEF IInv, TypeOK
<1>5. LoopInv' /\ ChainInv' /\ RefutedInv' /\ BodyInv'
  BY <1>1, <1>3 DEF IInv, LoopInv, ChainInv, RefutedInv, BodyInv, curr_state
<1> QED
  BY <1>4, <1>5 DEF IInv

(* No two states work on the same nominal.                                    *)
LEMMA NomUnique ==
    ASSUME IInv, NEW i \in 1..Len(states), NEW j \in 1..Len(states),
           states[i].curr_nom = states[j].curr_nom, states[i].curr_nom \in Nom
    PROVE  i = j
<1>1. PICK n \in Nat : n = Len(states)
  BY DEF IInv, TypeOK
<1>2. NomOK(states, i) /\ NomOK(states, j)
  BY DEF IInv, ChainInv, StateOK
<1>3. i # 1 /\ j # 1
  BY <1>2 DEF NomOK
<1>4. ~(i < j)
  BY <1>1, <1>2, <1>3 DEF NomOK
<1>5. ~(j < i)
  BY <1>1, <1>2, <1>3 DEF NomOK
<1> QED
  BY <1>1, <1>4, <1>5

(* The heart of the matter: the point an undo goes back to lies before every   *)
(* state that relies on the guess.                                             *)
LEMMA UndoPointOK ==
    ASSUME IInv, pc = "analyze", NEW g \in curr_state.data
    PROVE  /\ FixedPoint
           /\ UndoPoint(g) \in 1..Len(states)-1
           /\ \A i \in 1..Len(states) : g \in states[i].data => UndoPoint(g) < i
<1>1. PICK n \in Nat \ {0} : n = Len(states)
  BY InWork
<1>2. /\ states[n] \in State
      /\ FixedPoint => n > 1
      /\ \A i \in 1..n : StateOK(states, i)
      /\ curr_state = states[n]
  BY <1>1, InWork
<1>3. FixedPoint /\ g \in states[n].data /\ g \in Guess /\ Subject[g] \in Nom
  BY <1>2 DEF StateOK, DataOK, State
<1>4. CASE g \notin OnEnter
  <2>1. PICK v : v = states[n].nom2visit[Subject[g]]
    OBVIOUS
  <2>2. v # No_Undo /\ v \in Nat \cup {No_Undo}
    BY <1>2, <1>3, <1>4, <2>1 DEF StateOK, DataOK, State
  <2>3. v \in 1..n-1 /\ \A k \in 1..n : k <= v => states[k].nom2visit[Subject[g]] = No_Undo
    BY <1>2, <1>3, <2>1, <2>2 DEF StateOK, VisitOK
  <2>4. ASSUME NEW i \in 1..n, g \in states[i].data PROVE v < i
    BY <1>2, <1>4, <2>3, <2>4 DEF StateOK, DataOK
  <2>5. UndoPoint(g) = v
    BY <1>2, <1>4, <2>1 DEF UndoPoint, undo_visit
  <2> QED
    BY <1>1, <1>3, <2>3, <2>4, <2>5
<1>5. CASE g \in OnEnter
  <2>1. PICK j \in 2..n : states[j].curr_nom = Subject[g]
    BY <1>2, <1>3, <1>5 DEF StateOK, DataOK
  <2>2. ASSUME NEW i \in 1..n, states[i].curr_nom = Subject[g] PROVE i = j
    <3>1. i \in 1..Len(states) /\ j \in 1..Len(states)
      BY <1>1
    <3> QED
      BY <1>3, <2>1, <2>2, <3>1, NomUnique
  <2>3. UndoPoint(g) = j - 1
    <3>1. j \in 1..n
      OBVIOUS
    <3>2. {i \in 1..Len(states) : states[i].curr_nom = Subject[g]} = {j}
      BY <1>1, <2>1, <2>2, <3>1
    <3>3. (CHOOSE i \in {j} : \A k \in {j} : k <= i) = j
      OBVIOUS
    <3>4. undo_enter(Subject[g]) = j - 1
      BY <3>2, <3>3 DEF undo_enter
    <3> QED
      BY <1>5, <3>4 DEF UndoPoint
  <2>4. ASSUME NEW i \in 1..n, g \in states[i].data PROVE j <= i
    <3>1. PICK k \in 2..i : states[k].curr_nom = Subject[g]
      BY <1>2, <1>5, <2>4 DEF StateOK, DataOK
    <3> QED
      BY <2>2, <3>1
  <2> QED
    BY <1>1, <1>3, <2>3, <2>4
<1> QED
  BY <1>4, <1>5

(* Whatever the guess, an undo goes back to a state that has something to redo. *)
LEMMA UndoPointType ==
    ASSUME IInv, pc = "analyze", FixedPoint, NEW g \in Guess
    PROVE  UndoPoint(g) \in {No_Undo} \cup 1..Len(states)-1
<1>1. PICK n \in Nat \ {0} : n = Len(states)
  BY InWork
<1>2. /\ states[n] \in State /\ n \in 1..n
      /\ \A i \in 1..n : StateOK(states, i)
      /\ curr_state = states[n]
  BY <1>1, InWork
<1>3. Subject[g] \in Nom
  OBVIOUS
<1>4. CASE g \notin OnEnter
  <2>1. PICK v \in Nat \cup {No_Undo} : v = states[n].nom2visit[Subject[g]]
    BY <1>2, <1>3 DEF State
  <2>2. v # No_Undo => v \in 1..n-1
    BY <1>2, <1>3, <2>1 DEF StateOK, VisitOK
  <2>3. UndoPoint(g) = v
    BY <1>2, <1>4, <2>1 DEF UndoPoint, undo_visit
  <2> QED
    BY <1>1, <2>2, <2>3
<1>5. CASE g \in OnEnter
  <2>1. UndoPoint(g) = undo_enter(Subject[g])
    BY <1>5 DEF UndoPoint
  <2>2. CASE {i \in 1..Len(states) : states[i].curr_nom = Subject[g]} = {}
    BY <2>1, <2>2 DEF undo_enter
  <2>3. CASE {i \in 1..Len(states) : states[i].curr_nom = Subject[g]} # {}
    <3>1. PICK j \in 1..n : states[j].curr_nom = Subject[g]
      BY <1>1, <2>3
    <3>2. \A i \in 1..n : states[i].curr_nom = Subject[g] => i = j
      BY <1>1, <1>3, <3>1, NomUnique
    <3>3. {i \in 1..Len(states) : states[i].curr_nom = Subject[g]} = {j}
      BY <1>1, <3>1, <3>2
    <3>4. (CHOOSE i \in {j} : \A k \in {j} : k <= i) = j
      OBVIOUS
    <3>5. undo_enter(Subject[g]) = j - 1
      BY <3>3, <3>4 DEF undo_enter
    <3>6. j # 1
      BY <1>2, <1>3, <3>1 DEF StateOK, NomOK
    <3> QED
      BY <1>1, <2>1, <3>5, <3>6
  <2> QED
    BY <2>2, <2>3
<1> QED
  BY <1>4, <1>5

(* A pass refutes a guess: the pending undo now covers every state that       *)
(* relies on it.                                                              *)
LEMMA RefuteInv ==
    ASSUME IInv, pc = "analyze", NEW g \in Guess, Refute(g)
    PROVE  IInv'
<1>1. /\ refuted' = refuted \cup {g}
      /\ undo' = Earlier(undo, UndoPoint(g)) \/ (g \notin curr_state.data /\ undo' = undo)
      /\ states' = states /\ body' = body /\ curr_nom' = curr_nom /\ pc' = pc /\ pos' = pos
      /\ proxy' = proxy
  BY Zenon DEF Refute
<1>2. PICK n \in Nat \ {0} : n = Len(states)
  BY InWork
<1>3. \A i \in 1..n : StateOK(states, i)
  BY <1>2, InWork
<1>4. undo = No_Undo \/ (undo \in 1..n-1 /\ FixedPoint)
  BY <1>2 DEF IInv, LoopInv
<1>5. undo' = No_Undo \/ (undo' \in 1..n-1 /\ FixedPoint)
  <2>1. FixedPoint
    BY DEF Refute
  <2>2. UndoPoint(g) \in {No_Undo} \cup 1..n-1
    BY <1>2, <2>1, UndoPointType
  <2> QED
    BY <1>1, <1>4, <2>1, <2>2 DEF Earlier
<1>6. undo # No_Undo => undo' # No_Undo /\ undo' <= undo
  <2>1. UndoPoint(g) \in {No_Undo} \cup 1..n-1
    <3>1. FixedPoint
      BY DEF Refute
    <3> QED
      BY <1>2, <3>1, UndoPointType
  <2> QED
    BY <1>1, <1>4, <2>1 DEF Earlier
<1>7. ASSUME NEW i \in 1..n, g \in states[i].data
      PROVE  undo' # No_Undo /\ undo' < i
  <2>1. g \in curr_state.data
    <3>1. DataOK(states, n) /\ n \in 1..n
      BY <1>3 DEF StateOK
    <3>2. states[i].data \subseteq states[n].data
      BY <3>1 DEF DataOK
    <3> QED
      BY <1>2, <1>7, <3>2 DEF curr_state
  <2>2. UndoPoint(g) \in 1..n-1 /\ UndoPoint(g) < i
    BY <1>2, <1>7, <2>1, UndoPointOK
  <2> QED
    BY <1>1, <1>4, <2>1, <2>2 DEF Earlier
<1>8. RefutedInv'
  <2>1. ASSUME NEW i \in 1..n, NEW h \in states[i].data, h \in refuted
        PROVE  undo' # No_Undo /\ undo' < i
    <3>1. undo # No_Undo /\ undo < i
      BY <1>2, <2>1 DEF IInv, RefutedInv
    <3> QED
      BY <1>4, <1>5, <1>6, <3>1
  <2> QED
    BY <1>1, <1>2, <1>7, <2>1 DEF RefutedInv
<1>9. LoopInv'
  BY <1>1, <1>2, <1>5 DEF IInv, LoopInv, curr_state
<1>10. TypeOK'
  <2>1. undo' \in Nat \cup {No_Undo}
    BY <1>5
  <2> QED
    BY <1>1, <2>1 DEF IInv, TypeOK
<1>11. ChainInv' /\ BodyInv'
  BY <1>1 DEF IInv, ChainInv, BodyInv
<1> QED
  BY <1>8, <1>9, <1>10, <1>11 DEF IInv

(* What an analysis pushes on the stack no state has met.                       *)
LEMMA AnalyzeOpInv == IInv /\ AnalyzeOp => IInv'
<1> SUFFICES ASSUME IInv, AnalyzeOp PROVE IInv'
  OBVIOUS
<1>1. /\ pc = "analyze" /\ pos \in Nat \ {0} /\ pos <= Len(Ops[curr_nom])
      /\ pos' = pos + 1 /\ body' = body /\ refuted' = refuted /\ curr_nom' = curr_nom
      /\ pc' = pc /\ undo' = undo
  <2>1. pos \in Nat \ {0}
    BY DEF IInv, TypeOK
  <2> QED
    BY <2>1, Zenon DEF AnalyzeOp, Analyzing
<1>2. PICK n \in Nat \ {0} : n = Len(states)
  BY <1>1, InWork
<1>3. /\ states \in Seq(State) /\ curr_nom \in Nom /\ states[n] \in State
      /\ \A i \in 1..n : StateOK(states, i)
  BY <1>1, <1>2, InWork
<1>4. PICK d \in Def : d = Ops[curr_nom][pos]
  BY <1>1, <1>3
<1>5. PICK op \in Operand : op = body[curr_nom][pos]
  BY <1>1, <1>3 DEF IInv, TypeOK
<1>6. proxy' \in BOOLEAN
  BY DEF AnalyzeOp, IInv, TypeOK
<1>7. CASE UNCHANGED states
  <2>1. LoopInv' /\ ChainInv' /\ RefutedInv' /\ BodyInv'
    BY <1>1, <1>7 DEF IInv, LoopInv, ChainInv, RefutedInv, BodyInv, curr_state
  <2>2. TypeOK'
    BY <1>1, <1>6, <1>7 DEF IInv, TypeOK
  <2> QED
    BY <2>1, <2>2 DEF IInv
<1>8. CASE \E s \in Orders(op.refs \ Analyzed) :
             states' = [states EXCEPT ![Len(states)] =
                  [curr_state EXCEPT !.stack    = @ \o s,
                                     !.analyzed = @ \cup (op.refs \ Analyzed) \cup {d}]]
  <2>1. PICK S \in SUBSET Nom : S = op.refs \ Analyzed
    BY DEF Operand
  <2>2. PICK s \in Orders(S) :
             states' = [states EXCEPT ![n] =
                  [states[n] EXCEPT !.stack = @ \o s, !.analyzed = @ \cup S \cup {d}]]
    BY <1>2, <1>8, <2>1 DEF curr_state
  <2>3. PICK l \in Nat : l = Len(s)
    BY OrdersSeq
  <2>4. /\ s \in Seq(Nom) /\ \A a \in 1..l : s[a] \in S
        /\ \A a, b \in 1..l : s[a] = s[b] => a = b
    <3>1. s \in Seq(Nom) /\ Elems(s) = S /\ \A a, b \in 1..Len(s) : s[a] = s[b] => a = b
      BY OrdersSeq
    <3>2. \A a \in 1..l : s[a] \in Elems(s)
      BY <2>3 DEF Elems
    <3> QED
      BY <2>3, <3>1, <3>2
  <2>5. PICK stack \in Seq(Nom) : stack = states[n].stack
    BY <1>3 DEF State
  <2>6. PICK top \in Nat : top = Len(stack)
    OBVIOUS
  <2>7. PICK longer \in Seq(Nom) :
           /\ longer = stack \o s /\ Len(longer) = top + l
           /\ \A a \in 1..top : longer[a] = stack[a]
           /\ \A a \in 1..l : longer[top + a] = s[a]
    <3> DEFINE longer == stack \o s
    <3>1. longer \in Seq(Nom) /\ Len(longer) = top + l
      BY <2>3, <2>4, <2>6
    <3>2. \A a \in 1..top : longer[a] = stack[a]
      BY <2>3, <2>4, <2>6
    <3>3. ASSUME NEW a \in 1..l PROVE longer[top + a] = s[a]
      BY <2>3, <2>4, <2>6
    <3> QED
      BY <3>1, <3>2, <3>3
  <2>8. PICK new \in State :
           /\ states' = [states EXCEPT ![n] = new]
           /\ new.curr_nom = states[n].curr_nom /\ new.old_ops = states[n].old_ops
           /\ new.nom2visit = states[n].nom2visit /\ new.data = states[n].data
           /\ new.old2new = states[n].old2new
           /\ new.stack = longer /\ new.analyzed = states[n].analyzed \cup S \cup {d}
    <3> DEFINE new == [states[n] EXCEPT !.stack = longer, !.analyzed = @ \cup S \cup {d}]
    <3>1. states' = [states EXCEPT ![n] = new]
      BY <2>2, <2>5, <2>7
    <3>2. new \in State
      BY <1>3 DEF State
    <3>3. /\ new.curr_nom = states[n].curr_nom /\ new.old_ops = states[n].old_ops
          /\ new.nom2visit = states[n].nom2visit /\ new.data = states[n].data
          /\ new.old2new = states[n].old2new
          /\ new.stack = longer /\ new.analyzed = states[n].analyzed \cup S \cup {d}
      BY <1>3 DEF State
    <3> HIDE DEF new
    <3> QED
      BY <3>1, <3>2, <3>3
  <2>9. /\ states' \in Seq(State) /\ Len(states') = n
        /\ \A i \in 1..n-1 : states'[i] = states[i]
        /\ states'[n] = new
    BY <1>2, <1>3, <2>8, UpdateLast
  <2>10. \A i \in 1..n : /\ states'[i].curr_nom = states[i].curr_nom
                         /\ states'[i].old_ops = states[i].old_ops
                         /\ states'[i].nom2visit = states[i].nom2visit
                         /\ states'[i].data = states[i].data
                         /\ states'[i].old2new = states[i].old2new
                         /\ states[i].analyzed \subseteq states'[i].analyzed
    <3> TAKE i \in 1..n
    <3>1. i = n \/ i \in 1..n-1
      OBVIOUS
    <3> QED
      BY <2>8, <2>9, <3>1
  <2>11. StateOK(states, n) /\ n \in 1..n
    BY <1>3
  <2>12. VisitOK(states', n)
    BY <2>10, <2>11 DEF StateOK, VisitOK
  <2>13. \A x : Met(states, n, x) => Met(states', n, x)
    BY <2>10 DEF Met
  <2>14. NomOK(states', n)
    BY <2>10, <2>11, <2>13 DEF StateOK, NomOK
  <2>15. DataOK(states', n)
    <3>1. \A j \in 2..n : states'[j].curr_nom = states[j].curr_nom
      BY <2>10
    <3> QED
      BY <2>10, <2>11, <3>1 DEF StateOK, DataOK
  <2>16. \A x \in S : ~Met(states, n, x) /\ Met(states', n, x)
    <3>1. \A x \in S : x \notin Analyzed /\ x \in new.analyzed
      BY <2>1, <2>8
    <3> QED
      <4> SUFFICES ASSUME NEW x \in S PROVE ~Met(states, n, x) /\ Met(states', n, x)
        OBVIOUS
      <4>1. \A k \in 1..n : x \notin states[k].analyzed
        BY <1>2, <3>1 DEF Analyzed
      <4>2. x \in states'[n].analyzed
        BY <2>9, <3>1
      <4> QED
        BY <2>11, <4>1, <4>2 DEF Met
  <2>17. StackOK(states', n)
    <3>1. /\ \A a \in 1..top : Met(states, n, stack[a])
          /\ \A a, b \in 1..top : stack[a] = stack[b] => a = b
          /\ \A j \in 2..n : \A a \in 1..top : states[j].curr_nom # stack[a]
      BY <2>5, <2>6, <2>11 DEF StateOK, StackOK
    <3>2. ASSUME NEW a \in 1..top+l
          PROVE  \/ a \in 1..top /\ longer[a] = stack[a]
                 \/ \E b \in 1..l : a = top + b /\ longer[a] = s[b] /\ longer[a] \in S
      <4>1. CASE a \in 1..top
        BY <2>7, <4>1
      <4>2. CASE a \notin 1..top
        <5>1. PICK b \in 1..l : a = top + b
          <6>1. a - top \in 1..l /\ a = top + (a - top)
            BY <4>2
          <6> QED
            BY <6>1
        <5> QED
          BY <2>4, <2>7, <5>1
      <4> QED
        BY <4>1, <4>2
    <3>3. ASSUME NEW a \in 1..top+l PROVE Met(states', n, longer[a])
      BY <2>13, <2>16, <3>1, <3>2
    <3>4. ASSUME NEW a \in 1..top+l, NEW b \in 1..top+l, longer[a] = longer[b] PROVE a = b
      <4>1. CASE a \in 1..top /\ b \in 1..top
        BY <2>7, <3>1, <3>4, <4>1
      <4>2. CASE a \in 1..top /\ b \notin 1..top
        BY <2>7, <2>16, <3>1, <3>2, <3>4, <4>2
      <4>3. CASE a \notin 1..top /\ b \in 1..top
        BY <2>7, <2>16, <3>1, <3>2, <3>4, <4>3
      <4>4. CASE a \notin 1..top /\ b \notin 1..top
        <5>1. PICK c \in 1..l : a = top + c /\ longer[a] = s[c]
          BY <3>2, <4>4
        <5>2. PICK e \in 1..l : b = top + e /\ longer[b] = s[e]
          BY <3>2, <4>4
        <5> QED
          BY <2>4, <3>4, <5>1, <5>2
      <4> QED
        BY <4>1, <4>2, <4>3, <4>4
    <3>5. ASSUME NEW j \in 2..n, NEW a \in 1..top+l
          PROVE  states'[j].curr_nom # longer[a]
      <4>1. j \in 1..n /\ states'[j].curr_nom = states[j].curr_nom
        <5>1. j \in 1..n
          OBVIOUS
        <5> QED
          BY <2>10, <5>1
      <4>2. Met(states, n, states[j].curr_nom)
        <5>1. Met(states, j, states[j].curr_nom)
          BY <1>3, <4>1 DEF StateOK, NomOK
        <5> QED
          BY <4>1, <5>1 DEF Met
      <4> QED
        BY <2>16, <3>1, <3>2, <4>1, <4>2
    <3>6. states'[n].stack = longer /\ 1..Len(longer) = 1..top+l
      BY <2>7, <2>8, <2>9
    <3> QED
      BY <3>3, <3>4, <3>5, <3>6 DEF StackOK
  <2>18. ChainInv'
    <3>1. StateOK(states', n)
      BY <2>12, <2>14, <2>15, <2>17 DEF StateOK
    <3> QED
      BY <1>2, <1>3, <2>9, <3>1, UpdateOK DEF ChainInv
  <2>19. RefutedInv'
    BY <1>1, <1>2, <2>9, <2>10 DEF IInv, RefutedInv
  <2>20. BodyInv'
    <3>1. ASSUME NEW i \in 2..n
          PROVE  states'[i].curr_nom = states[i].curr_nom /\ states'[i].data = states[i].data
      <4>1. i \in 1..n
        OBVIOUS
      <4> QED
        BY <2>10, <4>1
    <3> QED
      BY <1>1, <1>2, <2>9, <3>1 DEF IInv, BodyInv
  <2>21. TypeOK'
    BY <1>1, <1>2, <1>6, <2>9 DEF IInv, TypeOK
  <2>22. LoopInv'
    BY <1>1, <1>2, <2>9, <2>10, <2>11 DEF IInv, LoopInv, curr_state
  <2> QED
    BY <2>18, <2>19, <2>20, <2>21, <2>22 DEF IInv
<1> QED
  BY <1>4, <1>5, <1>7, <1>8, Zenon DEF AnalyzeOp

(* Without a pending undo, no body relies on a refuted guess.                 *)
LEMMA BodySound ==
    ASSUME IInv, pc # "done", undo = No_Undo, NEW m \in Nom, NEW k \in 1..Len(body[m])
    PROVE  body[m][k].uses \cap refuted = {}
<1>1. CASE ~FixedPoint
  BY <1>1 DEF IInv, BodyInv
<1>2. CASE FixedPoint /\ \E i \in 2..Len(states) : states[i].curr_nom = m
  <2>1. PICK i \in 2..Len(states) : states[i].curr_nom = m
    BY <1>2
  <2>2. body[m][k].uses \subseteq states[i].data
    BY <2>1 DEF IInv, BodyInv
  <2>3. i \in 1..Len(states)
    BY <2>1 DEF IInv, TypeOK
  <2> QED
    BY <2>2, <2>3 DEF IInv, RefutedInv
<1>3. CASE FixedPoint /\ \A i \in 2..Len(states) : states[i].curr_nom # m
  <2>1. body[m] = Original_ops(m) /\ Len(body[m]) = Len(Ops[m])
    BY <1>3 DEF IInv, BodyInv, TypeOK
  <2> QED
    BY <2>1, OriginalType
<1> QED
  BY <1>1, <1>2, <1>3

(* An undo leaves a chain whose guesses are not refuted, and original bodies    *)
(* above it.                                                                    *)
LEMMA LeaveInv == IInv /\ Leave => IInv'
<1> SUFFICES ASSUME IInv, Leave PROVE IInv'
  OBVIOUS
<1>1. /\ pc = "analyze" /\ pc' = "loop" /\ pos' = 1 /\ undo' = No_Undo
      /\ refuted' = refuted /\ curr_nom' = curr_nom
  BY DEF Leave
<1>2. proxy' \in BOOLEAN
  BY DEF Leave
<1>3. CASE undo = No_Undo
  <2>1. states' = states /\ body' = body
    BY <1>3 DEF Leave
  <2>2. LoopInv' /\ ChainInv' /\ RefutedInv' /\ BodyInv'
    BY <1>1, <1>3, <2>1 DEF IInv, LoopInv, ChainInv, RefutedInv, BodyInv
  <2>3. TypeOK'
    BY <1>1, <1>2, <2>1 DEF IInv, TypeOK
  <2> QED
    BY <2>2, <2>3 DEF IInv
<1>4. CASE undo # No_Undo
  <2>1. PICK n \in Nat \ {0} : n = Len(states)
    BY <1>1, InWork
  <2>2. PICK u \in 1..n-1 : u = undo
    BY <1>4, <2>1 DEF IInv, LoopInv
  <2>3. /\ FixedPoint /\ states \in Seq(State)
        /\ \A i \in 1..n : StateOK(states, i)
    BY <1>1, <1>4, <2>1, InWork DEF IInv, LoopInv
  <2>4. pop_states(u)
    BY <1>4, <2>2 DEF Leave
  <2>5. /\ states' \in Seq(State) /\ Len(states') = u
        /\ \A i \in 1..u : states'[i] = states[i]
    BY <2>1, <2>2, <2>3, <2>4, PrefixSeq DEF pop_states
  <2>6. ASSUME NEW m \in Nom, \A i \in u+1..n : states[i].curr_nom # m
        PROVE  body'[m] = body[m]
    BY <2>1, <2>4, <2>6 DEF pop_states
  <2>7. ASSUME NEW m \in Nom, NEW i \in u+1..n, states[i].curr_nom = m
        PROVE  body'[m] = Original_ops(m)
    <3>1. \A j \in u+1..n : states[j].curr_nom = m => j = i
      <4> TAKE j \in u+1..n
      <4>1. i \in 1..n /\ j \in 1..n
        OBVIOUS
      <4> QED
        BY <2>1, <2>7, <4>1, NomUnique
    <3>2. {j \in u+1..Len(states) : states[j].curr_nom = m} = {i}
      BY <2>1, <2>7, <3>1
    <3>3. (CHOOSE j \in {i} : \A k \in {i} : j <= k) = i
      OBVIOUS
    <3>4. body'[m] = states[i].old_ops
      BY <2>4, <3>2, <3>3 DEF pop_states
    <3>5. NomOK(states, i) /\ i > 1
      BY <2>3 DEF StateOK
    <3> QED
      BY <2>7, <3>4, <3>5 DEF NomOK
  <2>8. TypeOK'
    <3>1. \A m \in Nom : body'[m] = body[m] \/ body'[m] = Original_ops(m)
      BY <2>6, <2>7
    <3>2. \A m \in Nom : body'[m] \in Seq(Operand) /\ Len(body'[m]) = Len(Ops[m])
      BY <3>1, OriginalType DEF IInv, TypeOK
    <3>3. body' \in [Nom -> Seq(Operand)]
      <4>1. body' = [m \in Nom |-> body'[m]]
        BY <2>4 DEF pop_states
      <4> QED
        BY <3>2, <4>1
    <3>4. Len(states') > 0
      BY <2>5
    <3> QED
      BY <1>1, <1>2, <2>5, <3>2, <3>3, <3>4 DEF IInv, TypeOK
  <2>9. LoopInv'
    BY <1>1 DEF LoopInv
  <2>10. ChainInv'
    <3>1. ASSUME NEW i \in 1..u PROVE StateOK(states', i)
      <4>1. i \in Nat \ {0} /\ StateOK(states, i) /\ \A k \in 1..i : states'[k] = states[k]
        BY <2>3, <2>5
      <4> QED
        BY <4>1, PrefixOK
    <3> QED
      BY <2>5, <3>1 DEF ChainInv
  <2>11. RefutedInv'
    <3>1. ASSUME NEW i \in 1..u, NEW g \in states[i].data, g \in refuted PROVE FALSE
      <4>1. undo < i
        BY <2>1, <3>1 DEF IInv, RefutedInv
      <4> QED
        BY <2>2, <4>1
    <3> QED
      BY <1>1, <2>5, <3>1 DEF RefutedInv
  <2>12. BodyInv'
    <3>1. ASSUME NEW i \in 2..u, NEW k \in 1..Len(body'[states'[i].curr_nom])
          PROVE  body'[states'[i].curr_nom][k].uses \subseteq states'[i].data
      <4>1. PICK m : m = states[i].curr_nom /\ m = states'[i].curr_nom
        BY <2>5
      <4>2. m \in Nom /\ i \in 1..n /\ i > 1
        <5>1. NomOK(states, i) /\ i \in 1..n /\ i > 1
          BY <2>3 DEF StateOK
        <5> QED
          BY <4>1, <5>1 DEF NomOK
      <4>3. \A j \in u+1..n : states[j].curr_nom # m
        <5> SUFFICES ASSUME NEW j \in u+1..n, states[j].curr_nom = m PROVE FALSE
          OBVIOUS
        <5>1. j \in 1..n /\ j # i
          OBVIOUS
        <5> QED
          BY <2>1, <4>1, <4>2, <5>1, NomUnique
      <4>4. body'[m] = body[m] /\ states'[i] = states[i]
        BY <2>5, <2>6, <4>2, <4>3
      <4>5. i \in 2..Len(states)
        BY <2>1
      <4>6. \A l \in 1..Len(body[m]) : body[m][l].uses \subseteq states[i].data
        BY <4>1, <4>5 DEF IInv, BodyInv
      <4> QED
        BY <3>1, <4>1, <4>4, <4>6
    <3>2. ASSUME NEW m \in Nom, \A i \in 2..u : states'[i].curr_nom # m
          PROVE  body'[m] = Original_ops(m)
      <4>1. CASE \E i \in u+1..n : states[i].curr_nom = m
        BY <2>7, <4>1
      <4>2. CASE \A i \in u+1..n : states[i].curr_nom # m
        <5>1. \A i \in 2..n : states[i].curr_nom # m
          <6> TAKE i \in 2..n
          <6>1. i \in 2..u \/ i \in u+1..n
            OBVIOUS
          <6> QED
            BY <2>5, <3>2, <4>2, <6>1
        <5>2. body[m] = Original_ops(m)
          BY <1>1, <2>1, <2>3, <5>1 DEF IInv, BodyInv
        <5> QED
          BY <2>6, <4>2, <5>2
      <4> QED
        BY <4>1, <4>2
    <3> QED
      BY <1>1, <2>3, <2>5, <3>1, <3>2 DEF BodyInv
  <2> QED
    BY <2>8, <2>9, <2>10, <2>11, <2>12 DEF IInv
<1> QED
  BY <1>3, <1>4

(* What the last state leaves relies on no refuted guess.                       *)
LEMMA FinishInv == IInv /\ Finish => IInv'
<1> SUFFICES ASSUME IInv, Finish PROVE IInv'
  OBVIOUS
<1>1. /\ pc = "loop" /\ pc' = "done" /\ states' = <<>> /\ body' = body /\ refuted' = refuted
      /\ curr_nom' = curr_nom /\ pos' = pos /\ undo' = undo /\ proxy' = proxy
  BY DEF Finish
<1>2. undo = No_Undo
  BY <1>1 DEF IInv, LoopInv
<1>3. Len(states') = 0 /\ states' \in Seq(State)
  BY <1>1
<1>4. TypeOK'
  BY <1>1, <1>3 DEF IInv, TypeOK
<1>5. LoopInv' /\ ChainInv' /\ RefutedInv'
  BY <1>1, <1>2, <1>3 DEF LoopInv, ChainInv, RefutedInv
<1>6. BodyInv'
  <2>1. \A m \in Nom : \A k \in 1..Len(body[m]) : body[m][k].uses \cap refuted = {}
    BY <1>1, <1>2, BodySound
  <2>2. ~FixedPoint => \A m \in Nom : \A k \in 1..Len(body[m]) : body[m][k].uses = {}
    BY DEF IInv, BodyInv
  <2>3. \A i \in 2..Len(states') : FALSE
    BY <1>3
  <2> QED
    BY <1>1, <2>1, <2>2, <2>3 DEF BodyInv
<1> QED
  BY <1>4, <1>5, <1>6 DEF IInv

-----------------------------------------------------------------------------
(* IInv is inductive: the pass manager keeps it whatever its passes do.       *)
THEOREM Invariance == Spec => []IInv
<1>1. Init => IInv
  BY InitInv
<1>2. IInv /\ [Next]_vars => IInv'
  <2> SUFFICES ASSUME IInv, [Next]_vars PROVE IInv'
    OBVIOUS
  <2>1. CASE Enter
    BY <2>1, EnterInv
  <2>2. CASE RewriteOp
    BY <2>2, RewriteOpInv
  <2>3. CASE StartAnalyze
    BY <2>3, StartAnalyzeInv
  <2>4. ASSUME NEW g \in Guess, AnalyzeDef(g) PROVE IInv'
    <3>1. pc = "analyze" /\ Refute(g)
      BY <2>4 DEF AnalyzeDef, Analyzing
    <3> QED
      BY <3>1, RefuteInv
  <2>5. ASSUME NEW g \in Guess, AnalyzeProxy(g) PROVE IInv'
    <3>1. pc = "analyze" /\ Refute(g)
      BY <2>5 DEF AnalyzeProxy, Analyzing
    <3> QED
      BY <3>1, RefuteInv
  <2>6. CASE AnalyzeOp
    BY <2>6, AnalyzeOpInv
  <2>7. CASE Leave
    BY <2>7, LeaveInv
  <2>8. CASE Finish
    BY <2>8, FinishInv
  <2>9. CASE UNCHANGED vars
    BY <2>9 DEF vars, IInv, TypeOK, LoopInv, ChainInv, RefutedInv, BodyInv, curr_state
  <2> QED
    BY <2>1, <2>2, <2>3, <2>4, <2>5, <2>6, <2>7, <2>8, <2>9 DEF Next
<1> QED
  BY <1>1, <1>2, PTL DEF Spec

(* The state of the pass manager has its types, for any program and passes.   *)
THEOREM Types == Spec => []TypeOK
<1>1. IInv => TypeOK
  BY DEF IInv
<1> QED
  BY <1>1, Invariance, PTL

(* The optimized program never relies on a guess that a pass has refuted.     *)
THEOREM Soundness == Spec => []SoundGuesses
<1>1. IInv => SoundGuesses
  <2> SUFFICES ASSUME IInv, pc \in {"loop", "done"},
                      NEW n \in Nom, NEW i \in 1..Len(body[n])
               PROVE  body[n][i].uses \cap refuted = {}
    BY DEF SoundGuesses
  <2>1. CASE pc = "loop"
    <3>1. undo = No_Undo
      BY <2>1 DEF IInv, LoopInv
    <3> QED
      BY <2>1, <3>1, BodySound
  <2>2. CASE pc = "done"
    BY <2>2 DEF IInv, BodyInv
  <2> QED
    BY <2>1, <2>2
<1> QED
  BY <1>1, Invariance, PTL

(* An undo gives every nominal it takes back its original operands.           *)
THEOREM Rollback == Spec => []RollbackRestores
<1>1. IInv => RollbackRestores
  BY DEF IInv, BodyInv, RollbackRestores, Entered
<1> QED
  BY <1>1, Invariance, PTL

(* No nominal is in work twice: old_ops is what it was before the passes ran. *)
THEOREM Distinct == Spec => []EnteredOnce
<1>1. IInv => EnteredOnce
  <2> SUFFICES ASSUME IInv, NEW i \in 2..Len(states), NEW j \in 2..Len(states),
                      states[i].curr_nom = states[j].curr_nom
               PROVE  i = j
    BY DEF EnteredOnce
  <2>1. i \in 1..Len(states) /\ j \in 1..Len(states) /\ i > 1
    BY DEF IInv, TypeOK
  <2>2. states[i].curr_nom \in Nom
    BY <2>1 DEF IInv, ChainInv, StateOK, NomOK
  <2> QED
    BY <2>1, <2>2, NomUnique
<1> QED
  BY <1>1, Invariance, PTL

-----------------------------------------------------------------------------
USE DefAssumption

(* What a step does to the states and the bodies.                              *)
LEMMA EnterStep ==
    ASSUME IInv, Enter, NEW n, n = Len(states)
    PROVE  /\ n \in Nat \ {0} /\ pc = "loop" /\ undo = No_Undo /\ undo' = No_Undo
           /\ body' = body /\ refuted' = refuted /\ pos' = 1 /\ curr_nom' \in Nom
           /\ pc' = IF curr_nom' \in Unset THEN "loop" ELSE "rewrite"
           /\ \A i \in 1..n : StateOK(states, i)
           /\ states[n].stack \in Seq(Nom) /\ states[n].stack # <<>>
           /\ curr_nom' = Top(states[n].stack)
           /\ FixedPoint =>
                /\ Len(states') = n + 1 /\ \A i \in 1..n : states'[i] = states[i]
                /\ states'[n+1].curr_nom = curr_nom' /\ states'[n+1].stack = Pop(states[n].stack)
                /\ states'[n+1].data = states[n].data /\ states'[n+1].analyzed = {}
                /\ states'[n+1].old2new = [d \in Def |-> {}]
           /\ ~FixedPoint =>
                /\ n = 1 /\ Len(states') = 1 /\ states'[1].stack = Pop(states[1].stack)
                /\ states'[1].data = states[1].data /\ states'[1].analyzed = states[1].analyzed
                /\ states'[1].old2new = states[1].old2new
<1>1. states \in Seq(State) /\ n \in Nat \ {0} /\ \A i \in 1..n : StateOK(states, i)
  BY DEF Enter, IInv, TypeOK, ChainInv
<1>2. states[n] \in State /\ curr_state = states[n]
  BY <1>1 DEF curr_state
<1>3. states[n].stack \in Seq(Nom) /\ states[n].stack # <<>>
  BY <1>2 DEF Enter, State
<1>4. /\ pc = "loop" /\ undo' = undo /\ body' = body /\ refuted' = refuted /\ pos' = 1
      /\ curr_nom' = Top(states[n].stack)
      /\ pc' = IF curr_nom' \in Unset THEN "loop" ELSE "rewrite"
  BY <1>2 DEF Enter
<1>5. undo = No_Undo /\ curr_nom' \in Nom
  BY <1>3, <1>4, PopSeq DEF IInv, LoopInv
<1>6. CASE FixedPoint
  <2> DEFINE new == [states[n] EXCEPT !.curr_nom = curr_nom', !.old_ops = body[curr_nom'],
                                      !.stack = Pop(@), !.old2new = Nothing, !.analyzed = {}]
  <2>1. states' = Append(states, new)
    BY <1>2, <1>4, <1>6 DEF Enter
  <2>2. /\ new.curr_nom = curr_nom' /\ new.stack = Pop(states[n].stack) /\ new.data = states[n].data
        /\ new.analyzed = {} /\ new.old2new = [d \in Def |-> {}]
    BY <1>2 DEF State, Nothing
  <2> HIDE DEF new
  <2>3. Len(states') = n + 1 /\ (\A i \in 1..n : states'[i] = states[i]) /\ states'[n+1] = new
    BY <1>1, <2>1
  <2> QED
    BY <1>1, <1>3, <1>4, <1>5, <1>6, <2>2, <2>3
<1>7. CASE ~FixedPoint
  <2>1. n = 1
    <3>1. n \in 1..n /\ (n > 1 => FixedPoint)
      BY <1>1 DEF StateOK, NomOK
    <3> QED
      BY <1>1, <1>7, <3>1
  <2> DEFINE new == [states[n] EXCEPT !.stack = Pop(@)]
  <2>2. states' = [states EXCEPT ![n] = new]
    BY <1>1, <1>2, <1>7 DEF Enter
  <2>3. /\ new.stack = Pop(states[n].stack) /\ new.data = states[n].data
        /\ new.analyzed = states[n].analyzed /\ new.old2new = states[n].old2new
    BY <1>2 DEF State
  <2> HIDE DEF new
  <2>4. Len(states') = n /\ states'[n] = new
    BY <1>1, <2>2
  <2> QED
    BY <1>1, <1>3, <1>4, <1>5, <1>7, <2>1, <2>3, <2>4
<1> QED
  BY <1>6, <1>7

(* RewriteOp gives the operand the form op, and relies on G for it: the form the *)
(* chain remembers, or else a new one, which the current state remembers.       *)
Rewritten(n, op, G) ==
    /\ \A k \in 1..Len(Ops[curr_nom]) :
         body'[curr_nom][k] = IF k = pos THEN op ELSE body[curr_nom][k]
    /\ states'[n].data = states[n].data \cup G
    /\ ~FixedPoint => G = {}
    /\ \/ states' = states /\ \E i \in 1..n : op \in states[i].old2new[Ops[curr_nom][pos]]
       \/ /\ \A i \in 1..n : states[i].old2new[Ops[curr_nom][pos]] = {}
          /\ op.proxies \subseteq states'[n].data
          /\ \A e \in Def : states'[n].old2new[e] =
               IF e = Ops[curr_nom][pos] THEN {op} ELSE states[n].old2new[e]

(* RewriteOp touches the current state and one operand of the nominal in work.  *)
LEMMA RewriteStep ==
    ASSUME IInv, RewriteOp, NEW n, n = Len(states)
    PROVE  /\ pc = "rewrite" /\ pc' = "rewrite" /\ undo = No_Undo /\ undo' = No_Undo
           /\ curr_nom' = curr_nom /\ refuted' = refuted /\ pos' = pos + 1
           /\ pos \in 1..Len(Ops[curr_nom])
           /\ Len(states') = n /\ \A i \in 1..n-1 : states'[i] = states[i]
           /\ states'[n].curr_nom = states[n].curr_nom /\ states'[n].stack = states[n].stack
           /\ states'[n].analyzed = states[n].analyzed
           /\ \A m \in Nom \ {curr_nom} : body'[m] = body[m]
           /\ Len(body'[curr_nom]) = Len(Ops[curr_nom])
           /\ \E op \in Operand, G \in SUBSET (Guess \ refuted) : Rewritten(n, op, G)
<1>1. /\ pc = "rewrite" /\ pos <= Len(Ops[curr_nom]) /\ pos' = pos + 1 /\ refuted' = refuted
      /\ curr_nom' = curr_nom /\ pc' = pc /\ undo' = undo
  BY Zenon DEF RewriteOp
<1>2. /\ n \in Nat \ {0} /\ states \in Seq(State) /\ curr_nom \in Nom
      /\ curr_state = states[n] /\ states[n] \in State
  BY <1>1, InWork
<1>3. undo = No_Undo /\ pos \in 1..Len(Ops[curr_nom])
  <2>1. pos \in Nat \ {0} /\ undo = No_Undo
    BY <1>1 DEF IInv, TypeOK, LoopInv
  <2> QED
    BY <1>1, <1>2, <2>1
<1>4. PICK d \in Def : d = Ops[curr_nom][pos]
  BY <1>2, <1>3
<1>5. body[curr_nom] \in Seq(Operand) /\ Len(body[curr_nom]) = Len(Ops[curr_nom]) /\ body \in [Nom -> Seq(Operand)]
  BY <1>2 DEF IInv, TypeOK
<1>6. ASSUME NEW op, body' = [body EXCEPT ![curr_nom][pos] = op]
      PROVE  /\ \A m \in Nom \ {curr_nom} : body'[m] = body[m]
             /\ Len(body'[curr_nom]) = Len(Ops[curr_nom])
             /\ \A k \in 1..Len(Ops[curr_nom]) :
                     body'[curr_nom][k] = IF k = pos THEN op ELSE body[curr_nom][k]
  <2>1. PICK old \in Seq(Operand) : old = body[curr_nom] /\ Len(old) = Len(Ops[curr_nom])
    BY <1>5
  <2>2. body' = [body EXCEPT ![curr_nom] = [old EXCEPT ![pos] = op]]
    BY <1>6, <2>1
  <2>3. body'[curr_nom] = [old EXCEPT ![pos] = op] /\ \A m \in Nom \ {curr_nom} : body'[m] = body[m]
    BY <1>2, <1>5, <2>2
  <2> QED
    BY <1>3, <2>1, <2>3
<1>7. CASE \E i \in {i \in 1..n : states[i].old2new[d] # {}} : \E op \in states[i].old2new[d] :
             body' = [body EXCEPT ![curr_nom][pos] = op] /\ UNCHANGED states
  <2>1. PICK i \in 1..n : \E op \in states[i].old2new[d] :
             body' = [body EXCEPT ![curr_nom][pos] = op] /\ UNCHANGED states
    BY <1>7
  <2>2. PICK op \in states[i].old2new[d] :
             body' = [body EXCEPT ![curr_nom][pos] = op] /\ states' = states
    BY <2>1
  <2>3. op \in Operand
    BY <2>2, StateFields DEF IInv
  <2>4. {} \in SUBSET (Guess \ refuted) /\ states'[n].data = states[n].data \cup {}
    BY <2>2
  <2>5. \E o \in Operand, G \in SUBSET (Guess \ refuted) : Rewritten(n, o, G)
    <3>1. Rewritten(n, op, {})
      BY <1>4, <1>6, <2>2, <2>4 DEF Rewritten
    <3> QED
      BY <2>3, <2>4, <3>1
  <2>6. Len(states') = n /\ \A m \in 1..n : states'[m] = states[m]
    BY <2>2
  <2>7. /\ \A m \in Nom \ {curr_nom} : body'[m] = body[m]
        /\ Len(body'[curr_nom]) = Len(Ops[curr_nom])
    BY <1>6, <2>2
  <2> QED
    BY <1>1, <1>2, <1>3, <1>4, <2>5, <2>6, <2>7
<1>8. CASE /\ {i \in 1..n : states[i].old2new[d] # {}} = {}
           /\ \E op \in Operand, G \in SUBSET Guess :
             /\ MayRewrite(d, op, G)
             /\ body' = [body EXCEPT ![curr_nom][pos] = op]
             /\ states' = [states EXCEPT ![n] =
                  [states[n] EXCEPT !.nom2visit = Visit(@, Mentions[d] \cup op.refs),
                            !.data      = @ \cup G,
                            !.old2new   = [@ EXCEPT ![d] = {op}]]]
  <2>1. PICK op \in Operand, G \in SUBSET Guess :
             /\ MayRewrite(d, op, G)
             /\ body' = [body EXCEPT ![curr_nom][pos] = op]
             /\ states' = [states EXCEPT ![n] =
                  [states[n] EXCEPT !.nom2visit = Visit(@, Mentions[d] \cup op.refs),
                            !.data      = @ \cup G,
                            !.old2new   = [@ EXCEPT ![d] = {op}]]]
    BY <1>8
  <2> DEFINE new == [states[n] EXCEPT !.nom2visit = Visit(@, Mentions[d] \cup op.refs),
                                      !.data      = @ \cup G,
                                      !.old2new   = [@ EXCEPT ![d] = {op}]]
  <2>2. /\ new.curr_nom = states[n].curr_nom /\ new.stack = states[n].stack
        /\ new.analyzed = states[n].analyzed /\ new.data = states[n].data \cup G
        /\ new.old2new = [states[n].old2new EXCEPT ![d] = {op}]
    BY <1>2 DEF State
  <2>3. \A e \in Def : new.old2new[e] = IF e = d THEN {op} ELSE states[n].old2new[e]
    <3>1. states[n].old2new \in [Def -> SUBSET Operand]
      BY <1>2 DEF State
    <3> QED
      BY <2>2, <3>1
  <2>4. states' = [states EXCEPT ![n] = new]
    BY <2>1
  <2> HIDE DEF new
  <2>5. Len(states') = n /\ (\A i \in 1..n-1 : states'[i] = states[i]) /\ states'[n] = new
    BY <1>2, <2>4
  <2>6. G \in SUBSET (Guess \ refuted) /\ op.proxies \subseteq new.data /\ (~FixedPoint => G = {})
    BY <1>2, <2>1, <2>2 DEF MayRewrite
  <2>7. \A i \in 1..n : states[i].old2new[d] = {}
    BY <1>8
  <2>8. \E o \in Operand, H \in SUBSET (Guess \ refuted) : Rewritten(n, o, H)
    <3>1. /\ \A k \in 1..Len(Ops[curr_nom]) : body'[curr_nom][k] = IF k = pos THEN op ELSE body[curr_nom][k]
          /\ states'[n].data = states[n].data \cup G
          /\ ~FixedPoint => G = {}
      BY <1>6, <2>1, <2>2, <2>5, <2>6
    <3>2. /\ \A i \in 1..n : states[i].old2new[Ops[curr_nom][pos]] = {}
          /\ op.proxies \subseteq states'[n].data
          /\ \A e \in Def : states'[n].old2new[e] =
               IF e = Ops[curr_nom][pos] THEN {op} ELSE states[n].old2new[e]
      BY <1>4, <2>3, <2>5, <2>6, <2>7
    <3>3. Rewritten(n, op, G)
      BY <3>1, <3>2 DEF Rewritten
    <3> QED
      BY <2>6, <3>3
  <2>9. /\ \A m \in Nom \ {curr_nom} : body'[m] = body[m]
        /\ Len(body'[curr_nom]) = Len(Ops[curr_nom])
    BY <1>6, <2>1
  <2>10. /\ states'[n].curr_nom = states[n].curr_nom /\ states'[n].stack = states[n].stack
         /\ states'[n].analyzed = states[n].analyzed
    BY <2>2, <2>5
  <2> QED
    BY <1>1, <1>3, <2>5, <2>8, <2>9, <2>10, Zenon
<1> QED
  BY <1>2, <1>4, <1>7, <1>8 DEF RewriteOp

(* AnalyzeOp touches the stack and the analyzed set of the current state.       *)
LEMMA AnalyzeStep ==
    ASSUME IInv, AnalyzeOp, NEW n, n = Len(states)
    PROVE  /\ pc = "analyze" /\ pc' = "analyze" /\ undo' = undo /\ body' = body
           /\ curr_nom' = curr_nom /\ refuted' = refuted /\ pos' = pos + 1
           /\ pos \in 1..Len(Ops[curr_nom])
           /\ \/ states' = states /\ Ops[curr_nom][pos] \in Analyzed
              \/ /\ Ops[curr_nom][pos] \notin Analyzed
                 /\ body[curr_nom][pos].proxies \subseteq refuted
                 /\ Len(states') = n /\ \A i \in 1..n-1 : states'[i] = states[i]
                 /\ states'[n].curr_nom = states[n].curr_nom /\ states'[n].data = states[n].data
                 /\ states'[n].old2new = states[n].old2new
                 /\ states'[n].analyzed = states[n].analyzed \cup (body[curr_nom][pos].refs \ Analyzed)
                                          \cup {Ops[curr_nom][pos]}
                 /\ \E s \in Seq(Nom) : states'[n].stack = states[n].stack \o s
                                        /\ Elems(s) = body[curr_nom][pos].refs \ Analyzed
<1>1. /\ pc = "analyze" /\ pos <= Len(Ops[curr_nom]) /\ pos' = pos + 1 /\ body' = body
      /\ refuted' = refuted /\ curr_nom' = curr_nom /\ pc' = pc /\ undo' = undo
  BY Zenon DEF AnalyzeOp, Analyzing
<1>2. /\ n \in Nat \ {0} /\ states \in Seq(State) /\ curr_nom \in Nom
      /\ curr_state = states[n] /\ states[n] \in State
  BY <1>1, InWork
<1>3. pos \in 1..Len(Ops[curr_nom])
  BY <1>1, <1>2 DEF IInv, TypeOK
<1>4. PICK d \in Def, op \in Operand, S \in SUBSET Nom :
         d = Ops[curr_nom][pos] /\ op = body[curr_nom][pos] /\ S = op.refs \ Analyzed
  <2>1. body[curr_nom][pos] \in Operand
    BY <1>2, <1>3 DEF IInv, TypeOK
  <2>2. body[curr_nom][pos].refs \ Analyzed \in SUBSET Nom
    BY <2>1 DEF Operand
  <2>3. Ops[curr_nom][pos] \in Def
    BY <1>2, <1>3
  <2> QED
    BY <2>1, <2>2, <2>3
<1>5. CASE d \in Analyzed /\ UNCHANGED states
  BY <1>1, <1>3, <1>4, <1>5
<1>6. CASE /\ d \notin Analyzed /\ op.proxies \subseteq refuted
           /\ \E s \in Orders(S) : states' = [states EXCEPT ![n] =
                [states[n] EXCEPT !.stack = @ \o s, !.analyzed = @ \cup S \cup {d}]]
  <2>1. PICK s \in Orders(S) : states' = [states EXCEPT ![n] =
                [states[n] EXCEPT !.stack = @ \o s, !.analyzed = @ \cup S \cup {d}]]
    BY <1>6
  <2> DEFINE new == [states[n] EXCEPT !.stack = @ \o s, !.analyzed = @ \cup S \cup {d}]
  <2>2. /\ new.curr_nom = states[n].curr_nom /\ new.data = states[n].data
        /\ new.old2new = states[n].old2new /\ new.stack = states[n].stack \o s
        /\ new.analyzed = states[n].analyzed \cup S \cup {d}
    BY <1>2 DEF State
  <2>3. states' = [states EXCEPT ![n] = new]
    BY <2>1
  <2> HIDE DEF new
  <2>4. Len(states') = n /\ (\A i \in 1..n-1 : states'[i] = states[i]) /\ states'[n] = new
    BY <1>2, <2>3
  <2>5. s \in Seq(Nom) /\ Elems(s) = S
    BY OrdersSeq
  <2>6. \E t \in Seq(Nom) : states'[n].stack = states[n].stack \o t /\ Elems(t) = S
    BY <2>2, <2>4, <2>5
  <2> QED
    BY <1>1, <1>3, <1>4, <1>6, <2>2, <2>4, <2>6
<1> QED
  BY <1>2, <1>4, <1>5, <1>6 DEF AnalyzeOp

(* A nominal that one of the popped states worked on.                         *)
LEMMA PopBody ==
    ASSUME NEW u, pop_states(u), NEW m \in Nom, NEW i,
           {j \in u+1..Len(states) : states[j].curr_nom = m} = {i}, i \in Nat
    PROVE  body'[m] = states[i].old_ops
<1>1. (CHOOSE j \in {i} : \A k \in {i} : j <= k) = i
  OBVIOUS
<1> QED
  BY <1>1 DEF pop_states

(* Leave changes nothing, or cuts the chain and resets the nominals above the   *)
(* cut.                                                                         *)
LEMMA LeaveStep ==
    ASSUME IInv, Leave, NEW n \in Nat, n = Len(states)
    PROVE  /\ pc = "analyze" /\ pc' = "loop" /\ undo' = No_Undo
           /\ curr_nom' = curr_nom /\ refuted' = refuted /\ pos > Len(Ops[curr_nom])
           /\ undo = No_Undo => states' = states /\ body' = body
           /\ undo # No_Undo =>
                /\ undo \in 1..n-1 /\ FixedPoint
                /\ Len(states') = undo /\ \A i \in 1..undo : states'[i] = states[i]
                /\ \A m \in Nom : body'[m] = body[m] \/ body'[m] = Original_ops(m)
                /\ \A m \in Nom : (\A i \in undo+1..n : states[i].curr_nom # m) => body'[m] = body[m]
<1>1. /\ pc = "analyze" /\ pc' = "loop" /\ undo' = No_Undo /\ pos > Len(Ops[curr_nom])
      /\ curr_nom' = curr_nom /\ refuted' = refuted
      /\ undo = No_Undo => states' = states /\ body' = body
  BY DEF Leave
<1>2. CASE undo # No_Undo
  <2>1. n \in Nat \ {0} /\ states \in Seq(State) /\ \A i \in 1..n : StateOK(states, i)
    BY <1>1, InWork
  <2>2. PICK u \in 1..n-1 : u = undo
    BY <1>2 DEF IInv, LoopInv
  <2>3. pop_states(u) /\ FixedPoint
    BY <1>2, <2>2 DEF IInv, LoopInv, Leave
  <2>7. pop_states(u)
    BY <2>3
  <2>4. Len(states') = u /\ \A i \in 1..u : states'[i] = states[i]
    BY <2>1, <2>3, PrefixSeq DEF pop_states
  <2>5. ASSUME NEW m \in Nom, \A i \in u+1..n : states[i].curr_nom # m
        PROVE  body'[m] = body[m]
    BY <2>3, <2>5 DEF pop_states
  <2>6. ASSUME NEW m \in Nom, NEW i \in u+1..n, states[i].curr_nom = m
        PROVE  body'[m] = Original_ops(m)
    <3>1. \A j \in u+1..n : states[j].curr_nom = m => j = i
      <4> TAKE j \in u+1..n
      <4>1. i \in 1..n /\ j \in 1..n
        BY <2>1
      <4> QED
        BY <2>6, <4>1, NomUnique
    <3>2. {j \in u+1..Len(states) : states[j].curr_nom = m} = {i}
      BY <2>6, <3>1
    <3>4. body'[m] = states[i].old_ops
      BY <2>7, <3>2, PopBody
    <3>5. NomOK(states, i) /\ i > 1
      BY <2>1 DEF StateOK
    <3> QED
      BY <2>6, <3>4, <3>5 DEF NomOK
  <2> QED
    BY <1>1, <1>2, <2>2, <2>3, <2>4, <2>5, <2>6
<1> QED
  BY <1>1, <1>2

(* The two hooks that refute a guess are one case of a step.                    *)
LEMMA NextCases ==
    ASSUME Next
    PROVE  \/ Enter \/ RewriteOp \/ StartAnalyze \/ AnalyzeOp \/ Leave \/ Finish
           \/ \E g \in Guess \ refuted : pc = "analyze" /\ Refute(g)
BY Zenon DEF Next, AnalyzeDef, AnalyzeProxy, Analyzing

-----------------------------------------------------------------------------
-----------------------------------------------------------------------------
(* An undo goes back to a state whose stack still has the nominal on top that *)
(* the first undone state has worked on.                                      *)
THEOREM Repeats == Spec => UndoRepeats
<1>1. Init => RepeatInv
  BY DEF Init, RepeatInv
<1>2. ASSUME IInv, RepeatInv, [Next]_vars
      PROVE  /\ RepeatInv'
             /\ Len(states') < Len(states) /\ pc' # "done" =>
                  /\ Len(states') > 0
                  /\ states'[Len(states')].stack # <<>>
                  /\ Top(states'[Len(states')].stack) = states[Len(states') + 1].curr_nom
  <2>1. PICK n \in Nat : n = Len(states)
    BY <1>2 DEF IInv, TypeOK
  <2>2. \A i \in 1..n-1 : states[i].stack # <<>> /\ Top(states[i].stack) = states[i+1].curr_nom
    BY <1>2, <2>1 DEF RepeatInv
  <2>3. ASSUME Len(states') = n,
               \A i \in 1..n-1 : states'[i] = states[i],
               states'[n].curr_nom = states[n].curr_nom
        PROVE  RepeatInv' /\ ~(Len(states') < Len(states))
    <3>1. ASSUME NEW i \in 1..n-1 PROVE states'[i].stack = states[i].stack /\ states'[i+1].curr_nom = states[i+1].curr_nom
      <4>1. i + 1 = n \/ i + 1 \in 1..n-1
        BY <2>1
      <4> QED
        BY <2>3, <4>1
    <3> QED
      BY <2>1, <2>2, <2>3, <3>1 DEF RepeatInv
  <2>4. CASE Enter
    <3>1. CASE FixedPoint
      <4>1. /\ Len(states') = n + 1 /\ \A i \in 1..n : states'[i] = states[i]
            /\ states'[n+1].curr_nom = Top(states[n].stack) /\ states[n].stack # <<>>
        BY <1>2, <2>1, <2>4, <3>1, EnterStep
      <4>2. ASSUME NEW i \in 1..n
            PROVE  states'[i].stack # <<>> /\ Top(states'[i].stack) = states'[i+1].curr_nom
        <5>1. i = n \/ (i \in 1..n-1 /\ i + 1 \in 1..n)
          BY <2>1
        <5> QED
          BY <2>2, <4>1, <5>1
      <4> QED
        BY <2>1, <4>1, <4>2 DEF RepeatInv
    <3>2. CASE ~FixedPoint
      <4>1. n = 1 /\ Len(states') = 1
        BY <1>2, <2>1, <2>4, <3>2, EnterStep
      <4> QED
        BY <2>1, <4>1 DEF RepeatInv
    <3> QED
      BY <3>1, <3>2
  <2>5. CASE RewriteOp
    <3>1. Len(states') = n /\ (\A i \in 1..n-1 : states'[i] = states[i]) /\ states'[n].curr_nom = states[n].curr_nom
      BY <1>2, <2>1, <2>5, RewriteStep
    <3> QED
      BY <2>3, <3>1
  <2>6. CASE AnalyzeOp
    <3>1. \/ states' = states
          \/ Len(states') = n /\ (\A i \in 1..n-1 : states'[i] = states[i]) /\ states'[n].curr_nom = states[n].curr_nom
      BY <1>2, <2>1, <2>6, AnalyzeStep
    <3> QED
      BY <2>1, <2>3, <3>1
  <2>7. CASE Leave /\ undo # No_Undo
    <3>1. undo \in 1..n-1 /\ Len(states') = undo /\ \A i \in 1..undo : states'[i] = states[i]
      BY <1>2, <2>1, <2>7, LeaveStep
    <3>2. ASSUME NEW i \in 1..undo-1
          PROVE  states'[i].stack # <<>> /\ Top(states'[i].stack) = states'[i+1].curr_nom
      <4>1. i \in 1..n-1 /\ i \in 1..undo /\ i + 1 \in 1..undo
        BY <2>1, <3>1
      <4> QED
        BY <2>2, <3>1, <4>1
    <3>3. undo \in 1..undo /\ states'[undo] = states[undo] /\ undo > 0
      BY <2>1, <3>1
    <3> QED
      BY <2>2, <3>1, <3>2, <3>3 DEF RepeatInv
  <2>8. CASE Finish
    <3>1. pc' = "done" /\ Len(states') = 0
      BY <2>8 DEF Finish
    <3> QED
      BY <3>1 DEF RepeatInv
  <2>9. CASE states' = states
    BY <2>1, <2>3, <2>9
  <2>10. \/ Enter \/ RewriteOp \/ AnalyzeOp \/ (Leave /\ undo # No_Undo) \/ Finish \/ states' = states
    <3>1. StartAnalyze \/ (Leave /\ undo = No_Undo) \/ (\E g \in Guess : Refute(g)) \/ UNCHANGED vars => states' = states
      BY DEF StartAnalyze, Leave, Refute, vars
    <3> QED
      BY <1>2, <3>1, NextCases
  <2> QED
    BY <2>4, <2>5, <2>6, <2>7, <2>8, <2>9, <2>10
<1>3. IInv /\ RepeatInv /\ [Next]_vars => RepeatInv'
  BY <1>2
<1>4. IInv /\ RepeatInv /\ [Next]_vars =>
        [ Len(states') < Len(states) /\ pc' # "done" =>
            /\ Len(states') > 0
            /\ states'[Len(states')].stack # <<>>
            /\ Top(states'[Len(states')].stack) = states[Len(states') + 1].curr_nom ]_vars
  BY <1>2
<1> QED
  BY <1>1, <1>3, <1>4, Invariance, PTL DEF Spec, UndoRepeats

-----------------------------------------------------------------------------
(* What a state has met, and what has been looked into, stays so.               *)
LEMMA MetMono ==
    ASSUME NEW sts, NEW sts2, NEW i \in Nat, NEW i2 \in Nat, i <= i2,
           \A k \in 1..i : sts[k].analyzed \subseteq sts2[k].analyzed,
           NEW x, Met(sts, i, x)
    PROVE  Met(sts2, i2, x)
<1>1. PICK k \in 1..i : x \in sts[k].analyzed
  BY DEF Met
<1>2. k \in 1..i2 /\ x \in sts2[k].analyzed
  BY <1>1
<1> QED
  BY <1>2 DEF Met

(* What has been looked into stays so.                                          *)
LEMMA SettledMono ==
    ASSUME NEW sts, NEW sts2, NEW i \in Nat, NEW i2 \in Nat, i <= i2,
           \A k \in 1..i : sts[k].analyzed \subseteq sts2[k].analyzed,
           NEW r, NEW r2, r \subseteq r2, NEW op, Settled(sts, r, op, i)
    PROVE  Settled(sts2, r2, op, i2)
<1>1. ASSUME NEW x \in op.refs PROVE Met(sts2, i2, x)
  <2>1. Met(sts, i, x)
    BY DEF Settled
  <2> QED
    BY <2>1, MetMono
<1> QED
  BY <1>1 DEF Settled

(* What is said of state i depends on the states up to i only.                  *)
LEMMA KeepMet ==
    ASSUME NEW sts, NEW sts2, NEW i \in Nat \ {0}, \A k \in 1..i : sts2[k] = sts[k],
           NEW r, NEW r2, r \subseteq r2, MetOK(sts, r, i), MemoOK(sts, i)
    PROVE  MetOK(sts2, r2, i) /\ MemoOK(sts2, i)
<1>1. sts2[i] = sts[i]
  OBVIOUS
<1>2. \A x : Met(sts2, i, x) => Met(sts, i, x)
  BY DEF Met
<1>3. ASSUME NEW op, Settled(sts, r, op, i) PROVE Settled(sts2, r2, op, i)
  <2>1. i <= i /\ \A k \in 1..i : sts[k].analyzed \subseteq sts2[k].analyzed
    OBVIOUS
  <2> QED
    BY <1>3, <2>1, SettledMono
<1>4. ASSUME FixedPoint, NEW x \in Nom, Met(sts2, i, x)
      PROVE  \/ \E j \in 2..i : sts2[j].curr_nom = x
             \/ \E a \in 1..Len(sts2[i].stack) : sts2[i].stack[a] = x
  <2>1. \/ \E j \in 2..i : sts[j].curr_nom = x
        \/ \E a \in 1..Len(sts[i].stack) : sts[i].stack[a] = x
    BY <1>2, <1>4 DEF MetOK
  <2>2. \A j \in 2..i : sts2[j] = sts[j]
    OBVIOUS
  <2> QED
    BY <1>1, <2>1, <2>2
<1>5. ASSUME NEW d \in Def \cap sts2[i].analyzed
      PROVE  \E j \in 1..i : \E op \in sts2[j].old2new[d] : Settled(sts2, r2, op, i)
  <2>1. PICK j \in 1..i : \E op \in sts[j].old2new[d] : Settled(sts, r, op, i)
    BY <1>1 DEF MetOK
  <2> QED
    BY <1>3, <2>1
<1>6. MetOK(sts2, r2, i)
  BY <1>4, <1>5 DEF MetOK
<1>7. MemoOK(sts2, i)
  BY <1>1 DEF MemoOK
<1> QED
  BY <1>6, <1>7

(* The chain remembers one result for a def.                                    *)
LEMMA MemoUnique ==
    ASSUME NEW n \in Nat, \A i \in 1..n : MemoOK(states, i), NEW d \in Def,
           NEW i \in 1..n, NEW op \in states[i].old2new[d],
           NEW j \in 1..n, NEW op2 \in states[j].old2new[d]
    PROVE  op = op2
<1>1. CASE j <= i
  <2>1. MemoOK(states, i) /\ j \in 1..i
    BY <1>1
  <2> QED
    BY <2>1 DEF MemoOK
<1>2. CASE i <= j
  <2>1. MemoOK(states, j) /\ i \in 1..j
    BY <1>2
  <2> QED
    BY <2>1 DEF MemoOK
<1> QED
  BY <1>1, <1>2

(* Each step keeps MetInv.                                                      *)
LEMMA EnterMet == IInv /\ MetInv /\ Enter => MetInv'
<1> SUFFICES ASSUME IInv, MetInv, Enter PROVE MetInv'
  OBVIOUS
<1>1. PICK n : n = Len(states)
  OBVIOUS
<1>2. /\ n \in Nat \ {0} /\ refuted' = refuted
      /\ states[n].stack \in Seq(Nom) /\ states[n].stack # <<>>
      /\ curr_nom' = Top(states[n].stack)
  BY <1>1, EnterStep
<1>3. \A i \in 1..n : MetOK(states, refuted, i) /\ MemoOK(states, i)
  BY <1>1 DEF MetInv
<1>4. External \subseteq states[1].analyzed
  BY <1>1, <1>2 DEF MetInv
<1>5. CASE FixedPoint
  <2>1. /\ Len(states') = n + 1 /\ \A i \in 1..n : states'[i] = states[i]
        /\ states'[n+1].curr_nom = curr_nom' /\ states'[n+1].stack = Pop(states[n].stack)
        /\ states'[n+1].data = states[n].data /\ states'[n+1].analyzed = {}
        /\ states'[n+1].old2new = [d \in Def |-> {}]
    BY <1>1, <1>5, EnterStep
  <2>2. \A i \in 1..n : MetOK(states', refuted', i) /\ MemoOK(states', i)
    <3> TAKE i \in 1..n
    <3>1. i \in Nat \ {0} /\ (\A k \in 1..i : states'[k] = states[k]) /\ refuted \subseteq refuted'
      BY <1>2, <2>1
    <3> QED
      BY <1>3, <3>1, KeepMet
  <2>3. ASSUME NEW x \in Nom, Met(states', n+1, x)
        PROVE  \/ \E j \in 2..n+1 : states'[j].curr_nom = x
               \/ \E a \in 1..Len(states'[n+1].stack) : states'[n+1].stack[a] = x
    <3>1. PICK k \in 1..n+1 : x \in states'[k].analyzed
      BY <2>3 DEF Met
    <3>2. k \in 1..n /\ x \in states[k].analyzed
      BY <1>2, <2>1, <3>1
    <3>3. Met(states, n, x) /\ n \in 1..n
      BY <1>2, <3>2 DEF Met
    <3>4. CASE \E j \in 2..n : states[j].curr_nom = x
      BY <1>2, <2>1, <3>4
    <3>5. CASE \E a \in 1..Len(states[n].stack) : states[n].stack[a] = x
      <4>1. PICK a \in 1..Len(states[n].stack) : states[n].stack[a] = x
        BY <3>5
      <4>2. CASE a = Len(states[n].stack)
        <5>1. states'[n+1].curr_nom = x /\ n+1 \in 2..n+1
          BY <1>2, <2>1, <4>1, <4>2 DEF Top
        <5> QED
          BY <5>1
      <4>3. CASE a # Len(states[n].stack)
        <5>1. Len(states'[n+1].stack) = Len(states[n].stack) - 1 /\ Len(states[n].stack) \in Nat
              /\ \A b \in 1..Len(states[n].stack)-1 : states'[n+1].stack[b] = states[n].stack[b]
          <6>1. PICK s \in Seq(Nom) : s = states[n].stack /\ s # <<>>
            BY <1>2
          <6>2. Len(s) \in Nat /\ Len(Pop(s)) = Len(s) - 1 /\ \A b \in 1..Len(s)-1 : Pop(s)[b] = s[b]
            <7> HIDE <6>1
            <7>1. s # <<>>
              BY <6>1
            <7> QED
              BY <7>1, PopSeq
          <6> QED
            BY <2>1, <6>1, <6>2
        <5>2. a \in 1..Len(states[n].stack)-1
          BY <4>3, <5>1
        <5> QED
          BY <4>1, <5>1, <5>2
      <4> QED
        BY <4>2, <4>3
    <3> QED
      BY <1>3, <1>5, <3>3, <3>4, <3>5 DEF MetOK
  <2>4. MetOK(states', refuted', n+1)
    BY <2>1, <2>3 DEF MetOK
  <2>5. MemoOK(states', n+1)
    BY <2>1 DEF MemoOK
  <2>6. \A i \in 1..n+1 : MetOK(states', refuted', i) /\ MemoOK(states', i)
    BY <1>2, <2>2, <2>4, <2>5
  <2>7. External \subseteq states'[1].analyzed
    <3>1. 1 \in 1..n
      BY <1>2
    <3> QED
      BY <1>4, <2>1, <3>1
  <2> QED
    BY <2>1, <2>6, <2>7 DEF MetInv
<1>6. CASE ~FixedPoint
  <2>1. /\ n = 1 /\ Len(states') = 1 /\ states'[1].data = states[1].data
        /\ states'[1].analyzed = states[1].analyzed /\ states'[1].old2new = states[1].old2new
    BY <1>1, <1>6, EnterStep
  <2>2. ASSUME NEW op, Settled(states, refuted, op, 1) PROVE Settled(states', refuted', op, 1)
    <3>1. 1 <= 1 /\ \A k \in 1..1 : states[k].analyzed \subseteq states'[k].analyzed
      BY <2>1
    <3> QED
      BY <1>2, <2>2, <3>1, SettledMono
  <2>3. MetOK(states', refuted', 1)
    <3>1. MetOK(states, refuted, 1)
      BY <1>3, <2>1
    <3> QED
      BY <1>6, <2>1, <2>2, <3>1 DEF MetOK
  <2>4. MemoOK(states', 1)
    <3>1. MemoOK(states, 1)
      BY <1>3, <2>1
    <3> QED
      BY <2>1, <3>1 DEF MemoOK
  <2> QED
    BY <1>4, <2>1, <2>3, <2>4 DEF MetInv
<1> QED
  BY <1>5, <1>6

(* Replacing the current state by one that has met no less.                     *)
LEMMA UpdateMet ==
    ASSUME NEW n \in Nat \ {0}, n = Len(states), MetInv, Len(states') = n,
           \A i \in 1..n-1 : states'[i] = states[i], refuted' = refuted,
           states[n].analyzed \subseteq states'[n].analyzed,
           MetOK(states', refuted', n), MemoOK(states', n)
    PROVE  MetInv'
<1>1. \A i \in 1..n : MetOK(states', refuted', i) /\ MemoOK(states', i)
  <2> TAKE i \in 1..n
  <2>1. CASE i = n
    BY <2>1
  <2>2. CASE i # n
    <3>1. i \in Nat \ {0} /\ (\A k \in 1..i : states'[k] = states[k]) /\ refuted \subseteq refuted'
      BY <2>2
    <3>2. MetOK(states, refuted, i) /\ MemoOK(states, i)
      BY DEF MetInv
    <3> QED
      BY <3>1, <3>2, KeepMet
  <2> QED
    BY <2>1, <2>2
<1>2. External \subseteq states'[1].analyzed
  <2>1. External \subseteq states[1].analyzed
    BY DEF MetInv
  <2>2. n = 1 \/ 1 \in 1..n-1
    OBVIOUS
  <2> QED
    BY <2>1, <2>2
<1> QED
  BY <1>1, <1>2 DEF MetInv

(* A rewrite adds one entry to the memo of the current state, for a new def.    *)
LEMMA RewriteOpMet == IInv /\ MetInv /\ RewriteOp => MetInv'
<1> SUFFICES ASSUME IInv, MetInv, RewriteOp PROVE MetInv'
  OBVIOUS
<1>1. PICK n \in Nat \ {0} : n = Len(states)
  BY InWork DEF RewriteOp
<1>2. /\ Len(states') = n /\ \A i \in 1..n-1 : states'[i] = states[i]
      /\ states'[n].curr_nom = states[n].curr_nom /\ states'[n].stack = states[n].stack
      /\ states'[n].analyzed = states[n].analyzed /\ refuted' = refuted
      /\ pos \in 1..Len(Ops[curr_nom])
  BY <1>1, RewriteStep
<1>3. PICK op \in Operand, G \in SUBSET (Guess \ refuted) : Rewritten(n, op, G)
  BY <1>1, RewriteStep
<1>4. CASE states' = states
  BY <1>2, <1>4 DEF MetInv
<1>5. CASE /\ \A i \in 1..n : states[i].old2new[Ops[curr_nom][pos]] = {}
           /\ op.proxies \subseteq states'[n].data
           /\ \A e \in Def : states'[n].old2new[e] =
                IF e = Ops[curr_nom][pos] THEN {op} ELSE states[n].old2new[e]
  <2>1. MetOK(states, refuted, n) /\ MemoOK(states, n) /\ n \in 1..n
    BY <1>1 DEF MetInv
  <2> \A i \in 1..n : i = n \/ i \in 1..n-1
    OBVIOUS
  <2>2. \A i \in 1..n : states'[i].analyzed = states[i].analyzed /\ states'[i].curr_nom = states[i].curr_nom
    BY <1>2
  <2>3. \A e \in Def : e # Ops[curr_nom][pos] => \A i \in 1..n : states'[i].old2new[e] = states[i].old2new[e]
    BY <1>2, <1>5
  <2>4. ASSUME NEW op2, Settled(states, refuted, op2, n) PROVE Settled(states', refuted', op2, n)
    <3>1. n <= n /\ \A k \in 1..n : states[k].analyzed \subseteq states'[k].analyzed
      BY <2>2
    <3> QED
      BY <1>2, <2>4, <3>1, SettledMono
  <2>5. MetOK(states', refuted', n)
    <3>1. ASSUME FixedPoint, NEW x \in Nom, Met(states', n, x)
          PROVE  \/ \E j \in 2..n : states'[j].curr_nom = x
                 \/ \E a \in 1..Len(states'[n].stack) : states'[n].stack[a] = x
      <4>1. Met(states, n, x)
        BY <2>2, <3>1 DEF Met
      <4>2. \A j \in 2..n : states'[j].curr_nom = states[j].curr_nom
        BY <1>1, <2>2
      <4> QED
        <5>1. \/ \E j \in 2..n : states[j].curr_nom = x
              \/ \E a \in 1..Len(states[n].stack) : states[n].stack[a] = x
          BY <2>1, <3>1, <4>1 DEF MetOK
        <5> QED
          BY <1>2, <4>2, <5>1
    <3>2. ASSUME NEW e \in Def \cap states'[n].analyzed
          PROVE  \E j \in 1..n : \E op2 \in states'[j].old2new[e] : Settled(states', refuted', op2, n)
      <4>1. PICK j \in 1..n : \E op2 \in states[j].old2new[e] : Settled(states, refuted, op2, n)
        BY <1>2, <2>1 DEF MetOK
      <4>2. e # Ops[curr_nom][pos]
        BY <1>5, <4>1
      <4> QED
        BY <2>3, <2>4, <4>1, <4>2
    <3> QED
      BY <3>1, <3>2 DEF MetOK
  <2>6. MemoOK(states', n)
    <3>1. ASSUME NEW e \in Def, NEW op1 \in states'[n].old2new[e]
          PROVE  /\ op1.proxies \subseteq states'[n].data
                 /\ \A j \in 1..n : \A op2 \in states'[j].old2new[e] : j = n /\ op2 = op1
      <4>1. CASE e = Ops[curr_nom][pos]
        <5>1. op1 = op
          BY <1>5, <4>1
        <5>2. ASSUME NEW j \in 1..n, NEW op2 \in states'[j].old2new[e] PROVE j = n /\ op2 = op1
          <6>1. j # n => states'[j].old2new[e] = {}
            BY <1>1, <1>2, <1>5, <4>1
          <6> QED
            BY <1>5, <4>1, <5>1, <5>2, <6>1
        <5> QED
          BY <1>5, <5>1, <5>2
      <4>2. CASE e # Ops[curr_nom][pos]
        <5>1. op1 \in states[n].old2new[e]
          BY <2>1, <2>3, <3>1, <4>2
        <5>2. op1.proxies \subseteq states'[n].data
          BY <1>3, <2>1, <5>1 DEF MemoOK, Rewritten
        <5> QED
          BY <2>1, <2>3, <4>2, <5>1, <5>2 DEF MemoOK
      <4> QED
        BY <4>1, <4>2
    <3> QED
      BY <3>1 DEF MemoOK
  <2> QED
    BY <1>1, <1>2, <2>5, <2>6, UpdateMet
<1> QED
  BY <1>3, <1>4, <1>5 DEF Rewritten

(* The operand that is in turn becomes settled.                                 *)
LEMMA AnalyzeSettles ==
    ASSUME IInv, MetInv, WorkInv, AnalyzeOp, NEW n \in Nat \ {0}, n = Len(states)
    PROVE  /\ Len(states') = n /\ \A i \in 1..n : states[i].analyzed \subseteq states'[i].analyzed
           /\ \A i \in 1..n : states'[i].old2new = states[i].old2new /\ states'[i].data = states[i].data
           /\ \A i \in 1..n : states'[i].curr_nom = states[i].curr_nom
           /\ Settled(states', refuted, body[curr_nom][pos], n)
<1>1. PICK d, op : d = Ops[curr_nom][pos] /\ op = body[curr_nom][pos]
  OBVIOUS
<1>2. pc = "analyze" /\ pos \in 1..Len(Ops[curr_nom])
  BY AnalyzeStep
<1>3. d \in Def
  BY <1>1, <1>2, InWork
<1>4. PICK j \in 1..n : op \in states[j].old2new[d]
  BY <1>1, <1>2 DEF WorkInv, Memoised
<1>5. CASE states' = states /\ d \in Analyzed
  <2>1. PICK i \in 1..n : d \in states[i].analyzed
    BY <1>5 DEF Analyzed
  <2>2. /\ MetOK(states, refuted, i)
        /\ \A l \in 1..n : MemoOK(states, l)
    BY DEF MetInv
  <2>3. PICK k \in 1..i : \E op2 \in states[k].old2new[d] : Settled(states, refuted, op2, i)
    BY <1>3, <2>1, <2>2 DEF MetOK
  <2>4. PICK op2 \in states[k].old2new[d] : Settled(states, refuted, op2, i)
    BY <2>3
  <2>5. op2 = op
    <3>1. k \in 1..n /\ n \in Nat
      OBVIOUS
    <3> QED
      BY <1>3, <1>4, <2>2, <3>1, MemoUnique
  <2>6. Settled(states', refuted, op, n)
    <3>1. i \in Nat /\ n \in Nat /\ i <= n /\ (\A l \in 1..i : states[l].analyzed \subseteq states'[l].analyzed)
          /\ refuted \subseteq refuted /\ Settled(states, refuted, op, i)
      BY <1>5, <2>4, <2>5
    <3> QED
      BY <3>1, SettledMono
  <2> QED
    BY <1>1, <1>5, <2>6
<1>6. CASE /\ op.proxies \subseteq refuted
           /\ Len(states') = n /\ \A i \in 1..n-1 : states'[i] = states[i]
           /\ states'[n].curr_nom = states[n].curr_nom /\ states'[n].data = states[n].data
           /\ states'[n].old2new = states[n].old2new
           /\ states'[n].analyzed = states[n].analyzed \cup (op.refs \ Analyzed) \cup {d}
  <2> \A i \in 1..n : i = n \/ i \in 1..n-1
    OBVIOUS
  <2>1. \A i \in 1..n : /\ states[i].analyzed \subseteq states'[i].analyzed
                        /\ states'[i].old2new = states[i].old2new /\ states'[i].data = states[i].data
                        /\ states'[i].curr_nom = states[i].curr_nom
    BY <1>6
  <2>2. ASSUME NEW x \in op.refs PROVE Met(states', n, x)
    <3>1. CASE x \in Analyzed
      <4>1. PICK i \in 1..n : x \in states[i].analyzed
        BY <3>1 DEF Analyzed
      <4> QED
        BY <2>1, <4>1 DEF Met
    <3>2. CASE x \notin Analyzed
      BY <1>6, <3>2 DEF Met
    <3> QED
      BY <3>1, <3>2
  <2> QED
    BY <1>1, <1>6, <2>1, <2>2 DEF Settled
<1> QED
  <2>1. \/ states' = states /\ d \in Analyzed
        \/ /\ op.proxies \subseteq refuted
           /\ Len(states') = n /\ \A i \in 1..n-1 : states'[i] = states[i]
           /\ states'[n].curr_nom = states[n].curr_nom /\ states'[n].data = states[n].data
           /\ states'[n].old2new = states[n].old2new
           /\ states'[n].analyzed = states[n].analyzed \cup (op.refs \ Analyzed) \cup {d}
    BY <1>1, AnalyzeStep
  <2> QED
    BY <1>5, <1>6, <2>1

(* What an analysis meets waits on the stack.                                   *)
LEMMA AnalyzeOpMet == IInv /\ MetInv /\ WorkInv /\ AnalyzeOp => MetInv'
<1> SUFFICES ASSUME IInv, MetInv, WorkInv, AnalyzeOp PROVE MetInv'
  OBVIOUS
<1>1. PICK n \in Nat \ {0} : n = Len(states)
  BY InWork DEF AnalyzeOp, Analyzing
<1>2. PICK d, op : d = Ops[curr_nom][pos] /\ op = body[curr_nom][pos]
  OBVIOUS
<1>3. /\ pc = "analyze" /\ pos \in 1..Len(Ops[curr_nom]) /\ refuted' = refuted
      /\ \/ states' = states
         \/ /\ Len(states') = n /\ \A i \in 1..n-1 : states'[i] = states[i]
            /\ states'[n].analyzed = states[n].analyzed \cup (op.refs \ Analyzed) \cup {d}
            /\ \E s \in Seq(Nom) : states'[n].stack = states[n].stack \o s
                                   /\ Elems(s) = op.refs \ Analyzed
  BY <1>1, <1>2, AnalyzeStep
<1>4. /\ \A i \in 1..n : states[i].analyzed \subseteq states'[i].analyzed
      /\ \A i \in 1..n : states'[i].old2new = states[i].old2new /\ states'[i].data = states[i].data
      /\ \A i \in 1..n : states'[i].curr_nom = states[i].curr_nom
      /\ Settled(states', refuted, op, n)
  BY <1>1, <1>2, AnalyzeSettles
<1>5. CASE states' = states
  BY <1>3, <1>5 DEF MetInv
<1>6. CASE /\ Len(states') = n /\ \A i \in 1..n-1 : states'[i] = states[i]
           /\ states'[n].analyzed = states[n].analyzed \cup (op.refs \ Analyzed) \cup {d}
           /\ \E s \in Seq(Nom) : states'[n].stack = states[n].stack \o s
                                  /\ Elems(s) = op.refs \ Analyzed
  <2>1. PICK s \in Seq(Nom) : states'[n].stack = states[n].stack \o s /\ Elems(s) = op.refs \ Analyzed
    BY <1>6
  <2>2. PICK t \in Seq(Nom) : t = states[n].stack
    <3>1. states[n] \in State
      BY <1>1 DEF IInv, TypeOK
    <3> QED
      BY <3>1 DEF State
  <2>3. MetOK(states, refuted, n) /\ MemoOK(states, n) /\ n \in 1..n
    BY <1>1 DEF MetInv
  <2>4. \A x \in Nom : Met(states', n, x) => Met(states, n, x) \/ x \in op.refs \ Analyzed
    <3> SUFFICES ASSUME NEW x \in Nom, NEW k \in 1..n, x \in states'[k].analyzed
                 PROVE  Met(states, n, x) \/ x \in op.refs \ Analyzed
      BY DEF Met
    <3>1. d \in Def
      BY <1>2, <1>3, InWork
    <3>2. k = n \/ k \in 1..n-1
      OBVIOUS
    <3>3. x \in states[k].analyzed \/ x \in op.refs \ Analyzed
      BY <1>6, <3>1, <3>2
    <3> QED
      BY <3>3 DEF Met
  <2>5. \A e \in Def : e \in states'[n].analyzed => e \in states[n].analyzed \/ e = d
    <3>1. op.refs \subseteq Nom
      <4>1. op \in Operand
        BY <1>2, <1>3, InWork DEF IInv, TypeOK
      <4> QED
        BY <4>1 DEF Operand
    <3> QED
      BY <1>6, <3>1
  <2>6. ASSUME FixedPoint, NEW x \in Nom, Met(states', n, x)
        PROVE  \/ \E j \in 2..n : states'[j].curr_nom = x
               \/ \E a \in 1..Len(states'[n].stack) : states'[n].stack[a] = x
    <3>1. PICK st \in Seq(Nom) : st = t \o s /\ states'[n].stack = st
      <4>1. t \o s \in Seq(Nom)
        OBVIOUS
      <4> QED
        BY <2>1, <2>2, <4>1
    <3>2. Len(st) = Len(t) + Len(s) /\ (\A a \in 1..Len(t) : a \in 1..Len(st) /\ st[a] = t[a])
          /\ \A a \in 1..Len(s) : Len(t) + a \in 1..Len(st) /\ st[Len(t) + a] = s[a]
      BY <3>1
    <3>3. CASE Met(states, n, x)
      <4>1. \/ \E j \in 2..n : states[j].curr_nom = x
            \/ \E a \in 1..Len(states[n].stack) : states[n].stack[a] = x
        BY <2>3, <2>6, <3>3 DEF MetOK
      <4>2. \A j \in 2..n : states'[j].curr_nom = states[j].curr_nom
        BY <1>4
      <4> QED
        BY <2>2, <3>1, <3>2, <4>1, <4>2
    <3>4. CASE x \in op.refs \ Analyzed
      <4>1. PICK a \in 1..Len(s) : s[a] = x
        BY <2>1, <3>4 DEF Elems
      <4> QED
        BY <3>1, <3>2, <4>1
    <3> QED
      BY <2>4, <2>6, <3>3, <3>4
  <2>7. ASSUME NEW e \in Def \cap states'[n].analyzed
        PROVE  \E j \in 1..n : \E op2 \in states'[j].old2new[e] : Settled(states', refuted', op2, n)
    <3>1. CASE e \in states[n].analyzed
      <4>1. PICK j \in 1..n : \E op2 \in states[j].old2new[e] : Settled(states, refuted, op2, n)
        BY <2>3, <3>1 DEF MetOK
      <4>2. PICK op2 \in states[j].old2new[e] : Settled(states, refuted, op2, n)
        BY <4>1
      <4>3. Settled(states', refuted', op2, n)
        <5>1. n <= n /\ refuted \subseteq refuted'
          BY <1>3
        <5> QED
          BY <1>4, <4>2, <5>1, SettledMono
      <4> QED
        BY <1>4, <4>2, <4>3
    <3>2. CASE e = d
      <4>1. PICK j \in 1..n : op \in states[j].old2new[d]
        BY <1>1, <1>2, <1>3 DEF WorkInv, Memoised
      <4> QED
        BY <1>3, <1>4, <3>2, <4>1
    <3> QED
      BY <2>5, <3>1, <3>2
  <2>8. MetOK(states', refuted', n)
    BY <2>6, <2>7 DEF MetOK
  <2>9. MemoOK(states', n)
    BY <1>4, <2>3 DEF MemoOK
  <2> QED
    BY <1>1, <1>3, <1>4, <1>6, <2>3, <2>8, <2>9, UpdateMet
<1> QED
  BY <1>3, <1>5, <1>6

(* The chain gets no longer, and no nominal, guess or def is forgotten.         *)
LEMMA KeepMetInv ==
    ASSUME MetInv, NEW m \in Nat, m <= Len(states), Len(states) \in Nat, Len(states') = m,
           \A i \in 1..m : states'[i] = states[i], refuted \subseteq refuted'
    PROVE  MetInv'
<1>1. ASSUME NEW i \in 1..m PROVE MetOK(states', refuted', i) /\ MemoOK(states', i)
  <2>1. i \in Nat \ {0} /\ (\A k \in 1..i : states'[k] = states[k])
    OBVIOUS
  <2>2. MetOK(states, refuted, i) /\ MemoOK(states, i)
    BY DEF MetInv
  <2> QED
    BY <2>1, <2>2, KeepMet
<1>2. m > 0 => External \subseteq states'[1].analyzed
  BY DEF MetInv
<1> QED
  BY <1>1, <1>2 DEF MetInv

(* At first all that has been met, the externals, is on the stack.              *)
LEMMA InitMet == Init => MetInv
<1> SUFFICES ASSUME Init PROVE MetInv
  OBVIOUS
<1>1. PICK s \in Orders(External) :
         states = << [curr_nom |-> NoNom, old_ops |-> <<>>, stack |-> s,
                      nom2visit |-> [n \in Nom |-> No_Undo], data |-> {},
                      old2new |-> Nothing, analyzed |-> External] >>
  BY Zenon DEF Init
<1>2. /\ Len(states) = 1 /\ states[1].stack = s /\ states[1].analyzed = External
      /\ \A d \in Def : states[1].old2new[d] = {}
  BY <1>1 DEF Nothing
<1>3. \A x : Met(states, 1, x) => \E a \in 1..Len(s) : s[a] = x
  <2>1. IsFiniteSet(External)
    BY FS_Subset
  <2>2. Elems(s) = External
    BY <1>1 DEF Orders
  <2>3. \A x : Met(states, 1, x) => x \in External
    BY <1>2 DEF Met
  <2> QED
    BY <2>2, <2>3 DEF Elems
<1>4. MetOK(states, refuted, 1)
  <2>1. Def \cap states[1].analyzed = {}
    BY <1>2
  <2> QED
    BY <1>2, <1>3, <2>1 DEF MetOK
<1>5. MemoOK(states, 1)
  BY <1>2 DEF MemoOK
<1> QED
  BY <1>2, <1>4, <1>5 DEF MetInv

(* Every step keeps MetInv.                                                     *)
LEMMA NextMet == IInv /\ MetInv /\ WorkInv /\ Next => MetInv'
<1> SUFFICES ASSUME IInv, MetInv, WorkInv, Next PROVE MetInv'
  OBVIOUS
<1>1. PICK n \in Nat : n = Len(states)
  BY DEF IInv, TypeOK
<1>2. CASE Leave /\ undo # No_Undo
  <2>1. undo \in 1..n-1 /\ Len(states') = undo /\ (\A i \in 1..undo : states'[i] = states[i]) /\ refuted' = refuted
    BY <1>1, <1>2, LeaveStep
  <2>2. undo \in Nat /\ undo <= n /\ refuted \subseteq refuted'
    BY <2>1
  <2> QED
    BY <1>1, <2>1, <2>2, KeepMetInv
<1>3. CASE Finish
  <2>1. Len(states') = 0 /\ refuted' = refuted
    BY <1>3 DEF Finish
  <2> QED
    BY <2>1 DEF MetInv
<1>4. CASE states' = states /\ refuted \subseteq refuted'
  <2>1. n <= n /\ Len(states') = n /\ \A i \in 1..n : states'[i] = states[i]
    BY <1>1, <1>4
  <2> QED
    BY <1>1, <1>4, <2>1, KeepMetInv
<1>5. \/ Enter \/ RewriteOp \/ AnalyzeOp \/ (Leave /\ undo # No_Undo) \/ Finish
      \/ states' = states /\ refuted \subseteq refuted'
  <2>1. StartAnalyze \/ (Leave /\ undo = No_Undo) \/ (\E g \in Guess : Refute(g)) => states' = states /\ refuted \subseteq refuted'
    BY DEF StartAnalyze, Leave, Refute
  <2> QED
    BY <2>1, NextCases
<1> QED
  BY <1>2, <1>3, <1>4, <1>5, EnterMet, RewriteOpMet, AnalyzeOpMet

(* While a body is in work, what has been done of it stays done.                *)
LEMMA NextWork == IInv /\ MetInv /\ WorkInv /\ Next => WorkInv'
<1> SUFFICES ASSUME IInv, MetInv, WorkInv, Next PROVE WorkInv'
  OBVIOUS
<1>1. PICK n \in Nat : n = Len(states)
  BY DEF IInv, TypeOK
<1>2. CASE Enter
  <2>1. pos' = 1 /\ pc' = (IF curr_nom' \in Unset THEN "loop" ELSE "rewrite")
    BY <1>1, <1>2, EnterStep
  <2> QED
    BY <2>1 DEF WorkInv
<1>3. CASE RewriteOp
  <2>1. /\ pc = "rewrite" /\ pc' = "rewrite" /\ curr_nom' = curr_nom /\ pos' = pos + 1
        /\ pos \in 1..Len(Ops[curr_nom]) /\ n \in Nat \ {0}
        /\ Len(states') = n /\ \A i \in 1..n-1 : states'[i] = states[i]
    BY <1>1, <1>3, RewriteStep, InWork
  <2>2. PICK op \in Operand, G \in SUBSET (Guess \ refuted) : Rewritten(n, op, G)
    BY <1>1, <1>3, RewriteStep
  <2>3. \A k \in 1..Len(Ops[curr_nom]) : Ops[curr_nom][k] \in Def
    BY <2>1, InWork
  <2>4. \A k \in 1..Len(Ops[curr_nom]) : \A i \in 1..n :
           states[i].old2new[Ops[curr_nom][k]] \subseteq states'[i].old2new[Ops[curr_nom][k]]
    <3> TAKE k \in 1..Len(Ops[curr_nom])
    <3> TAKE i \in 1..n
    <3>1. CASE states' = states \/ i \in 1..n-1
      BY <2>1, <3>1
    <3>2. CASE i = n /\ states' # states
      <4>1. \A j \in 1..n : states[j].old2new[Ops[curr_nom][pos]] = {}
        BY <2>2, <3>2 DEF Rewritten
      <4>2. \A e \in Def : e # Ops[curr_nom][pos] => states'[n].old2new[e] = states[n].old2new[e]
        BY <2>2, <3>2 DEF Rewritten
      <4> QED
        BY <2>3, <3>2, <4>1, <4>2
    <3>3. i = n \/ i \in 1..n-1
      OBVIOUS
    <3> QED
      BY <3>1, <3>2, <3>3
  <2>5. ASSUME NEW k \in 1..Len(Ops[curr_nom]), k < pos + 1
        PROVE  \E j \in 1..n : body'[curr_nom][k] \in states'[j].old2new[Ops[curr_nom][k]]
    <3>1. CASE k = pos
      <4>1. body'[curr_nom][k] = op
        BY <2>2, <3>1 DEF Rewritten
      <4>2. CASE states' = states /\ \E i \in 1..n : op \in states[i].old2new[Ops[curr_nom][pos]]
        BY <3>1, <4>1, <4>2
      <4>3. CASE op \in states'[n].old2new[Ops[curr_nom][pos]]
        BY <2>1, <3>1, <4>1, <4>3
      <4> QED
        BY <2>1, <2>2, <2>3, <4>2, <4>3 DEF Rewritten
    <3>2. CASE k < pos
      <4>1. PICK j \in 1..n : body[curr_nom][k] \in states[j].old2new[Ops[curr_nom][k]]
        BY <1>1, <2>1, <3>2 DEF WorkInv, Memoised
      <4>2. body'[curr_nom][k] = body[curr_nom][k]
        BY <2>1, <2>2, <3>2 DEF Rewritten
      <4> QED
        BY <2>4, <4>1, <4>2
    <3> QED
      BY <2>1, <2>5, <3>1, <3>2
  <2> QED
    BY <2>1, <2>5 DEF WorkInv, Memoised
<1>4. CASE StartAnalyze
  <2>1. /\ pc = "rewrite" /\ pc' = "analyze" /\ pos > Len(Ops[curr_nom]) /\ pos' = 1
        /\ curr_nom' = curr_nom /\ states' = states /\ body' = body
    BY <1>4 DEF StartAnalyze
  <2>2. pos \in Nat \ {0} /\ Len(Ops[curr_nom]) \in Nat
    BY <2>1, InWork DEF IInv, TypeOK
  <2>3. \A k \in 1..Len(Ops[curr_nom]) : k < pos /\ ~(k < pos')
    BY <2>1, <2>2
  <2> QED
    BY <2>1, <2>3 DEF WorkInv, Memoised
<1>5. CASE AnalyzeOp
  <2>1. /\ pc = "analyze" /\ pc' = "analyze" /\ curr_nom' = curr_nom /\ pos' = pos + 1
        /\ refuted' = refuted /\ body' = body /\ pos \in 1..Len(Ops[curr_nom]) /\ n \in Nat \ {0}
    BY <1>1, <1>5, AnalyzeStep, InWork
  <2>2. /\ Len(states') = n /\ \A i \in 1..n : states[i].analyzed \subseteq states'[i].analyzed
        /\ \A i \in 1..n : states'[i].old2new = states[i].old2new
        /\ Settled(states', refuted, body[curr_nom][pos], n)
    BY <1>1, <1>5, <2>1, AnalyzeSettles
  <2>3. ASSUME NEW k \in 1..Len(Ops[curr_nom])
        PROVE  /\ \E j \in 1..n : body[curr_nom][k] \in states'[j].old2new[Ops[curr_nom][k]]
               /\ k < pos + 1 => Settled(states', refuted, body[curr_nom][k], n)
    <3>1. Memoised(k) /\ (k < pos => Settled(states, refuted, body[curr_nom][k], n))
      BY <1>1, <2>1 DEF WorkInv
    <3>2. ASSUME k < pos PROVE Settled(states', refuted, body[curr_nom][k], n)
      <4>1. n <= n /\ refuted \subseteq refuted
        OBVIOUS
      <4> QED
        BY <2>2, <3>1, <3>2, <4>1, SettledMono
    <3>3. k < pos + 1 => k < pos \/ k = pos
      BY <2>1
    <3> QED
      BY <1>1, <2>2, <3>1, <3>2, <3>3 DEF Memoised
  <2> QED
    BY <2>1, <2>2, <2>3 DEF WorkInv, Memoised
<1>6. CASE Leave \/ Finish
  <2>1. pc' \in {"loop", "done"}
    BY <1>6 DEF Leave, Finish
  <2> QED
    BY <2>1 DEF WorkInv
<1>7. CASE \E g \in Guess \ refuted : pc = "analyze" /\ Refute(g)
  <2>1. /\ states' = states /\ body' = body /\ curr_nom' = curr_nom /\ pos' = pos /\ pc' = pc
        /\ refuted \subseteq refuted' /\ pc = "analyze"
    BY <1>7 DEF Refute
  <2>2. \A op : Settled(states, refuted, op, n) => Settled(states, refuted', op, n)
    BY <2>1 DEF Settled
  <2> QED
    BY <1>1, <2>1, <2>2 DEF WorkInv, Memoised
<1> QED
  BY <1>2, <1>3, <1>4, <1>5, <1>6, <1>7, NextCases

(* What a nominal the chain is done with mentions stays met.                    *)
LEMMA ChainNom ==
    ASSUME IInv, NEW n \in Nat, n = Len(states), NEW i \in 2..n
    PROVE  FixedPoint /\ states[i].curr_nom \in Nom
<1>1. NomOK(states, i) /\ i > 1
  BY DEF IInv, ChainInv, StateOK
<1> QED
  BY <1>1 DEF NomOK

(* Conjunct 1 of SettledInv, when the chain keeps its states, loses no nominal  *)
(* met, and what is new of the bodies and the nominal in work is settled.       *)
LEMMA ChainSettled ==
    ASSUME SettledInv, NEW n \in Nat, n = Len(states), NEW m \in Nat, m <= n,
           \A i \in 1..m : states[i].analyzed \subseteq states'[i].analyzed /\ states'[i].curr_nom = states[i].curr_nom,
           refuted \subseteq refuted',
           NEW i \in 2..m, states[i].curr_nom \notin Unset, ~Working(states[i].curr_nom),
           body'[states[i].curr_nom] = body[states[i].curr_nom],
           NEW k \in 1..Len(body'[states'[i].curr_nom])
    PROVE  Settled(states', refuted', body'[states'[i].curr_nom][k], i)
<1>1. i \in 2..Len(states) /\ i \in 1..m /\ i \in Nat /\ i <= i /\ \A l \in 1..i : l \in 1..m
  OBVIOUS
<1>2. states'[i].curr_nom = states[i].curr_nom
  BY <1>1
<1>3. Settled(states, refuted, body[states[i].curr_nom][k], i)
  BY <1>1, <1>2 DEF SettledInv
<1>4. \A l \in 1..i : states[l].analyzed \subseteq states'[l].analyzed
  BY <1>1
<1>5. Settled(states', refuted', body[states[i].curr_nom][k], i)
  <2>1. i \in Nat /\ i <= i /\ refuted \subseteq refuted'
    BY <1>1
  <2>2. PICK op : op = body[states[i].curr_nom][k]
    OBVIOUS
  <2>3. Settled(states, refuted, op, i)
    BY <1>3, <2>2
  <2>4. Settled(states', refuted', op, i)
    BY <1>4, <2>1, <2>3, SettledMono
  <2> QED
    BY <2>2, <2>4
<1> QED
  BY <1>2, <1>5

(* Every step keeps SettledInv: the analysis has settled the operands of the    *)
(* nominal that is left, and an undo resets those of the nominals it drops.     *)
LEMMA NextSettled == IInv /\ MetInv /\ WorkInv /\ SettledInv /\ Next => SettledInv'
<1> SUFFICES ASSUME IInv, MetInv, WorkInv, SettledInv, Next PROVE SettledInv'
  OBVIOUS
<1> USE DEF Working
<1>1. PICK n \in Nat : n = Len(states)
  BY DEF IInv, TypeOK
<1>2. \A i \in 2..n : FixedPoint /\ states[i].curr_nom \in Nom
  BY <1>1, ChainNom
<1>3. CASE Enter
  <2>1. /\ n \in Nat \ {0} /\ pc = "loop" /\ body' = body /\ refuted' = refuted /\ curr_nom' \in Nom
        /\ pc' = IF curr_nom' \in Unset THEN "loop" ELSE "rewrite"
        /\ states[n].stack \in Seq(Nom) /\ states[n].stack # <<>>
        /\ curr_nom' = Top(states[n].stack)
    BY <1>1, <1>3, EnterStep
  <2>2. CASE FixedPoint
    <3>1. /\ Len(states') = n + 1 /\ \A i \in 1..n : states'[i] = states[i]
          /\ states'[n+1].curr_nom = curr_nom'
      BY <1>1, <1>3, <2>2, EnterStep
    <3>2. ASSUME NEW i \in 2..n+1, states'[i].curr_nom \notin Unset, ~(pc' \in {"rewrite", "analyze"} /\ states'[i].curr_nom = curr_nom'),
                 NEW k \in 1..Len(body'[states'[i].curr_nom])
          PROVE  Settled(states', refuted', body'[states'[i].curr_nom][k], i)
      <4>1. CASE i = n + 1
        BY <2>1, <3>1, <3>2, <4>1
      <4>2. CASE i # n + 1
        <5>1. i \in 2..n /\ n <= n
          BY <4>2
        <5>2. states'[i].curr_nom = states[i].curr_nom
          BY <3>1, <5>1
        <5> QED
          BY <1>1, <2>1, <3>1, <3>2, <5>1, <5>2, ChainSettled
      <4> QED
        BY <4>1, <4>2
    <3> QED
      BY <2>2, <3>1, <3>2 DEF SettledInv
  <2>3. CASE ~FixedPoint
    <3>1. /\ n = 1 /\ Len(states') = 1 /\ states'[1].stack = Pop(states[1].stack)
          /\ states'[1].analyzed = states[1].analyzed
      BY <1>1, <1>3, <2>3, EnterStep
    <3>2. ASSUME NEW x \in Nom \ Unset, Met(states', 1, x),
                 \A a \in 1..Len(states'[1].stack) : states'[1].stack[a] # x, ~(pc' \in {"rewrite", "analyze"} /\ x = curr_nom'),
                 NEW k \in 1..Len(body'[x])
          PROVE  Settled(states', refuted', body'[x][k], 1)
      <4>1. Met(states, 1, x)
        BY <3>1, <3>2 DEF Met
      <4>2. x # curr_nom'
        BY <2>1, <3>2
      <4>3. \A a \in 1..Len(states[1].stack) : states[1].stack[a] # x
        <5>1. PICK s \in Seq(Nom) : s = states[1].stack /\ s # <<>>
          BY <2>1, <3>1
        <5>2. s # <<>>
          BY <5>1
        <5>3. /\ Len(s) \in Nat \ {0} /\ Top(s) = s[Len(s)] /\ Len(Pop(s)) = Len(s) - 1
              /\ \A i \in 1..Len(s)-1 : Pop(s)[i] = s[i]
          BY <5>2, PopSeq
        <5>4. ASSUME NEW a \in 1..Len(s) PROVE s[a] # x
          <6>1. a = Len(s) \/ a \in 1..Len(s)-1
            BY <5>3
          <6>2. Top(s) # x
            BY <2>1, <3>1, <4>2, <5>1
          <6>3. \A b \in 1..Len(s)-1 : s[b] # x
            BY <3>1, <3>2, <5>1, <5>3
          <6> QED
            BY <5>3, <6>1, <6>2, <6>3
        <5> QED
          BY <5>1, <5>4
      <4>4. Settled(states, refuted, body[x][k], 1)
        BY <2>1, <2>3, <3>2, <4>1, <4>3 DEF SettledInv
      <4>5. 1 <= 1 /\ \A l \in 1..1 : states[l].analyzed \subseteq states'[l].analyzed
        BY <3>1
      <4> QED
        BY <2>1, <4>4, <4>5, SettledMono
    <3>3. ~\E i \in 2..Len(states') : TRUE
      BY <3>1
    <3> QED
      BY <3>2, <3>3 DEF SettledInv
  <2> QED
    BY <2>2, <2>3
<1>4. CASE Leave /\ undo # No_Undo
  <2>1. /\ pc = "analyze" /\ pc' = "loop" /\ refuted' = refuted /\ undo \in 1..n-1 /\ FixedPoint
        /\ Len(states') = undo /\ \A i \in 1..undo : states'[i] = states[i]
        /\ \A m \in Nom : (\A i \in undo+1..n : states[i].curr_nom # m) => body'[m] = body[m]
    BY <1>1, <1>4, LeaveStep
  <2>2. ASSUME NEW i \in 2..undo, states'[i].curr_nom \notin Unset, ~(pc' \in {"rewrite", "analyze"} /\ states'[i].curr_nom = curr_nom'),
               NEW k \in 1..Len(body'[states'[i].curr_nom])
        PROVE  Settled(states', refuted', body'[states'[i].curr_nom][k], i)
    <3>1. i \in 2..n /\ i \in 1..n /\ i \in 1..undo /\ undo \in Nat /\ undo <= n /\ n \in 1..n
      BY <2>1
    <3>2. states'[i] = states[i] /\ states[i].curr_nom \in Nom
      BY <1>2, <2>1, <3>1
    <3>3. \A j \in undo+1..n : states[j].curr_nom # states[i].curr_nom
      <4> SUFFICES ASSUME NEW j \in undo+1..n, states[j].curr_nom = states[i].curr_nom PROVE FALSE
        OBVIOUS
      <4>1. j \in 1..n /\ j # i
        BY <2>1
      <4> QED
        BY <1>1, <3>1, <3>2, <4>1, NomUnique
    <3>4. curr_nom # states[i].curr_nom
      <4>1. states[n].curr_nom = curr_nom /\ n \in undo+1..n
        BY <1>1, <2>1, InWork
      <4> QED
        BY <3>3, <4>1
    <3>5. body'[states[i].curr_nom] = body[states[i].curr_nom]
      BY <2>1, <3>2, <3>3
    <3> QED
      BY <1>1, <2>1, <2>2, <3>1, <3>2, <3>4, <3>5, ChainSettled
  <2> QED
    BY <2>1, <2>2 DEF SettledInv
<1>5. CASE Finish
  <2>1. Len(states') = 0 /\ pc' = "done"
    BY <1>5 DEF Finish
  <2> QED
    BY <2>1 DEF SettledInv
<1>6. CASE RewriteOp \/ AnalyzeOp \/ StartAnalyze \/ (Leave /\ undo = No_Undo)
           \/ \E g \in Guess \ refuted : pc = "analyze" /\ Refute(g)
  <2>1. /\ n \in Nat \ {0} /\ pc \in {"rewrite", "analyze"} /\ curr_nom' = curr_nom
        /\ refuted \subseteq refuted'
        /\ pc' \in {"rewrite", "analyze"} \/ (Leave /\ undo = No_Undo)
    <3>1. pc \in {"rewrite", "analyze"} /\ curr_nom' = curr_nom /\ refuted \subseteq refuted'
      BY <1>6 DEF RewriteOp, AnalyzeOp, StartAnalyze, Leave, Refute, Analyzing
    <3>2. pc' \in {"rewrite", "analyze"} \/ (Leave /\ undo = No_Undo)
      BY <1>6 DEF RewriteOp, AnalyzeOp, StartAnalyze, Refute, Analyzing
    <3> QED
      BY <1>1, <3>1, <3>2, InWork
  <2>2. \A m \in Nom \ {curr_nom} : body'[m] = body[m]
    <3>1. CASE RewriteOp
      BY <1>1, <3>1, RewriteStep
    <3>2. CASE ~RewriteOp
      BY <1>6, <3>2 DEF AnalyzeOp, StartAnalyze, Leave, Refute
    <3> QED
      BY <3>1, <3>2
  <2>3. /\ Len(states') = n
        /\ \A i \in 1..n : states[i].analyzed \subseteq states'[i].analyzed /\ states'[i].curr_nom = states[i].curr_nom
    <3>1. CASE RewriteOp
      <4>1. /\ Len(states') = n /\ \A i \in 1..n-1 : states'[i] = states[i]
            /\ states'[n].curr_nom = states[n].curr_nom /\ states'[n].analyzed = states[n].analyzed
        BY <1>1, <3>1, RewriteStep
      <4>2. \A i \in 1..n : i = n \/ i \in 1..n-1
        OBVIOUS
      <4> QED
        BY <4>1, <4>2
    <3>2. CASE AnalyzeOp
      BY <1>1, <2>1, <3>2, AnalyzeSettles
    <3>3. CASE ~RewriteOp /\ ~AnalyzeOp
      <4>1. states' = states
        BY <1>6, <3>3 DEF StartAnalyze, Leave, Refute
      <4> QED
        BY <1>1, <4>1
    <3> QED
      BY <3>1, <3>2, <3>3
  <2>4. Leave /\ undo = No_Undo =>
           /\ states' = states /\ body' = body /\ curr_nom \in Nom
           /\ \A k \in 1..Len(body[curr_nom]) : Settled(states, refuted, body[curr_nom][k], n)
    <3> SUFFICES ASSUME Leave, undo = No_Undo
                 PROVE  /\ states' = states /\ body' = body /\ curr_nom \in Nom
                        /\ \A k \in 1..Len(body[curr_nom]) : Settled(states, refuted, body[curr_nom][k], n)
      OBVIOUS
    <3>1. pc = "analyze" /\ pos > Len(Ops[curr_nom]) /\ states' = states /\ body' = body
      BY DEF Leave
    <3>2. curr_nom \in Nom /\ Len(body[curr_nom]) = Len(Ops[curr_nom]) /\ pos \in Nat
          /\ Len(Ops[curr_nom]) \in Nat
      BY <3>1, InWork DEF IInv, TypeOK
    <3>3. \A k \in 1..Len(Ops[curr_nom]) : k < pos
      BY <3>1, <3>2
    <3> QED
      BY <1>1, <3>1, <3>2, <3>3 DEF WorkInv
  <2>5. ASSUME NEW i \in 2..n, states'[i].curr_nom \notin Unset, ~(pc' \in {"rewrite", "analyze"} /\ states'[i].curr_nom = curr_nom'),
               NEW k \in 1..Len(body'[states'[i].curr_nom])
        PROVE  Settled(states', refuted', body'[states'[i].curr_nom][k], i)
    <3>1. i \in 1..n /\ n <= n /\ states'[i].curr_nom = states[i].curr_nom /\ states[i].curr_nom \in Nom
      BY <1>2, <2>3
    <3>2. CASE states[i].curr_nom # curr_nom
      <4>1. body'[states[i].curr_nom] = body[states[i].curr_nom] /\ ~Working(states[i].curr_nom)
        BY <2>2, <3>1, <3>2
      <4> QED
        BY <1>1, <2>1, <2>3, <2>5, <3>1, <4>1, ChainSettled
    <3>3. CASE states[i].curr_nom = curr_nom
      <4>1. Leave /\ undo = No_Undo
        BY <2>1, <2>5, <3>1, <3>3
      <4>2. i = n
        <5>1. n \in 1..n /\ states[n].curr_nom = curr_nom
          BY <1>1, <1>2, <2>1, InWork
        <5> QED
          BY <1>1, <3>1, <3>3, <5>1, NomUnique
      <4>3. refuted' = refuted
        BY <4>1 DEF Leave
      <4> QED
        BY <2>4, <2>5, <3>1, <3>3, <4>1, <4>2, <4>3
    <3> QED
      BY <3>2, <3>3
  <2>6. ASSUME ~FixedPoint, NEW x \in Nom \ Unset, Met(states', 1, x),
               \A a \in 1..Len(states'[1].stack) : states'[1].stack[a] # x, ~(pc' \in {"rewrite", "analyze"} /\ x = curr_nom'),
               NEW k \in 1..Len(body'[x])
        PROVE  Settled(states', refuted', body'[x][k], 1)
    <3>1. n = 1 /\ 1 <= 1 /\ \A l \in 1..1 : states[l].analyzed \subseteq states'[l].analyzed
      BY <1>1, <2>1, <2>3, <2>6, InWork
    <3>2. CASE x = curr_nom
      <4>1. Leave /\ undo = No_Undo
        BY <2>1, <2>6, <3>2
      <4>2. Settled(states, refuted, body'[x][k], 1)
        BY <2>4, <2>6, <3>1, <3>2, <4>1
      <4> QED
        BY <2>1, <3>1, <4>2, SettledMono
    <3>3. CASE x # curr_nom
      <4>1. Met(states, 1, x) /\ \A a \in 1..Len(states[1].stack) : states[1].stack[a] # x
        <5>1. CASE AnalyzeOp /\ states' # states
          <6>1. /\ pos \in 1..Len(Ops[curr_nom])
                /\ states'[1].analyzed = states[1].analyzed \cup (body[curr_nom][pos].refs \ Analyzed)
                                          \cup {Ops[curr_nom][pos]}
                /\ \E s \in Seq(Nom) : states'[1].stack = states[1].stack \o s
                                        /\ Elems(s) = body[curr_nom][pos].refs \ Analyzed
            BY <1>1, <3>1, <5>1, AnalyzeStep
          <6>2. PICK s \in Seq(Nom) : states'[1].stack = states[1].stack \o s
                                      /\ Elems(s) = body[curr_nom][pos].refs \ Analyzed
            BY <6>1
          <6>3. PICK t \in Seq(Nom) : t = states[1].stack
            <7>1. 1 \in 1..Len(states) /\ TypeOK
              BY <1>1, <3>1 DEF IInv
            <7> QED
              BY <7>1, StateFields
          <6>4. PICK st \in Seq(Nom) : st = t \o s /\ states'[1].stack = st
            <7>1. t \o s \in Seq(Nom)
              OBVIOUS
            <7> QED
              BY <6>2, <6>3, <7>1
          <6>5. Len(st) = Len(t) + Len(s) /\ (\A a \in 1..Len(t) : a \in 1..Len(st) /\ st[a] = t[a])
                /\ \A a \in 1..Len(s) : Len(t) + a \in 1..Len(st) /\ st[Len(t) + a] = s[a]
            BY <6>4
          <6>6. \A a \in 1..Len(t) : t[a] # x
            BY <2>6, <6>4, <6>5
          <6>7. x \notin Elems(s)
            <7>1. \A a \in 1..Len(s) : s[a] # x
              BY <2>6, <6>4, <6>5
            <7> QED
              BY <7>1 DEF Elems
          <6>8. Ops[curr_nom][pos] # x
            <7>1. Ops[curr_nom][pos] \in Def
              BY <2>1, <6>1, InWork
            <7> QED
              BY <7>1
          <6>9. x \in states'[1].analyzed
            BY <2>6 DEF Met
          <6>10. x \in states[1].analyzed
            BY <6>1, <6>2, <6>7, <6>8, <6>9
          <6> QED
            BY <6>3, <6>6, <6>10 DEF Met
        <5>2. CASE states'[1].stack = states[1].stack /\ states'[1].analyzed = states[1].analyzed
          BY <2>6, <5>2 DEF Met
        <5>3. (AnalyzeOp /\ states' # states) \/ (states'[1].stack = states[1].stack /\ states'[1].analyzed = states[1].analyzed)
          <6>1. CASE RewriteOp
            BY <1>1, <3>1, <6>1, RewriteStep
          <6>2. CASE ~RewriteOp
            BY <1>6, <6>2 DEF StartAnalyze, Leave, Refute
          <6> QED
            BY <6>1, <6>2
        <5> QED
          BY <5>1, <5>2, <5>3
      <4>2. body'[x] = body[x] /\ ~Working(x) /\ pc # "done"
        BY <2>1, <2>2, <3>3
      <4>3. Settled(states, refuted, body[x][k], 1)
        BY <2>6, <4>1, <4>2 DEF SettledInv
      <4> QED
        BY <2>1, <3>1, <4>2, <4>3, SettledMono
    <3> QED
      BY <3>2, <3>3
  <2> QED
    BY <2>3, <2>5, <2>6 DEF SettledInv
<1> QED
  BY <1>3, <1>4, <1>5, <1>6, NextCases

(* A nominal the loop is done with has no proxy among its operands: a proxy asks *)
(* to give up a guess of its state, and the pass that looked at it has refuted   *)
(* that guess.                                                                   *)
LEMMA ProxyFree ==
    ASSUME IInv, SettledInv, ProxyInv, pc = "loop"
    PROVE  \A m \in Nom : \A k \in 1..Len(body[m]) : body[m][k].proxies = {}
<1>1. PICK n \in Nat : n = Len(states)
  BY DEF IInv, TypeOK
<1> SUFFICES ASSUME NEW m \in Nom, NEW k \in 1..Len(body[m]) PROVE body[m][k].proxies = {}
  OBVIOUS
<1>2. CASE ~FixedPoint
  BY <1>2 DEF ProxyInv
<1>3. ASSUME body[m] = Original_ops(m) PROVE body[m][k].proxies = {}
  BY <1>3 DEF Original_ops, Original
<1>4. CASE FixedPoint /\ \A i \in 2..n : states[i].curr_nom # m
  <2>1. body[m] = Original_ops(m)
    BY <1>1, <1>4 DEF IInv, BodyInv
  <2> QED
    BY <1>3, <2>1
<1>5. CASE FixedPoint /\ \E i \in 2..n : states[i].curr_nom = m
  <2>1. PICK i \in 2..n : states[i].curr_nom = m
    BY <1>5
  <2>2. CASE m \in Unset
    BY <1>3, <2>2 DEF ProxyInv
  <2>3. CASE m \notin Unset
    <3>1. i \in 2..Len(states) /\ i \in 1..Len(states)
      BY <1>1
    <3>2. body[m][k].proxies \subseteq states[i].data
      BY <2>1, <3>1 DEF ProxyInv
    <3>3. body[m][k].proxies \subseteq refuted
      <4>1. ~Working(m)
        BY DEF Working
      <4> QED
        BY <2>1, <2>3, <3>1, <4>1 DEF SettledInv, Settled
    <3>4. states[i].data \cap refuted = {}
      BY <3>1 DEF IInv, RefutedInv, LoopInv
    <3> QED
      BY <3>2, <3>3, <3>4
  <2> QED
    BY <2>2, <2>3
<1> QED
  BY <1>2, <1>4, <1>5

(* Every step keeps ProxyInv.                                                   *)
LEMMA NextProxy == IInv /\ IInv' /\ MetInv /\ WorkInv /\ SettledInv /\ ProxyInv /\ Next => ProxyInv'
<1> SUFFICES ASSUME IInv, IInv', MetInv, WorkInv, SettledInv, ProxyInv, Next PROVE ProxyInv'
  OBVIOUS
<1>1. PICK n \in Nat : n = Len(states)
  BY DEF IInv, TypeOK
<1>2. \A i \in 2..n : FixedPoint /\ states[i].curr_nom \in Nom
  BY <1>1, ChainNom
<1>3. ASSUME NEW m \in Nom, NEW k \in 1..Len(Original_ops(m)) PROVE Original_ops(m)[k].proxies = {}
  BY <1>3 DEF Original_ops, Original
<1>4. CASE Enter
  <2>1. /\ n \in Nat \ {0} /\ pc = "loop" /\ pc' \in {"loop", "rewrite"} /\ body' = body
    BY <1>1, <1>4, EnterStep
  <2>2. CASE FixedPoint
    <3>1. /\ Len(states') = n + 1 /\ \A i \in 1..n : states'[i] = states[i]
          /\ states'[n+1].curr_nom = Top(states[n].stack)
          /\ states[n].stack \in Seq(Nom) /\ states[n].stack # <<>>
      BY <1>1, <1>4, <2>2, EnterStep
    <3>2. PICK top \in Nom : top = Top(states[n].stack)
      BY <3>1, PopSeq
    <3>3. ASSUME NEW k \in 1..Len(body[top]) PROVE body[top][k].proxies = {}
      BY <2>1, <3>2, ProxyFree
    <3>4. ASSUME NEW i \in 2..n+1, NEW k \in 1..Len(body'[states'[i].curr_nom])
          PROVE  body'[states'[i].curr_nom][k].proxies \subseteq states'[i].data
      <4>1. CASE i = n + 1
        BY <2>1, <3>1, <3>2, <3>3, <3>4, <4>1
      <4>2. CASE i # n + 1
        <5>1. i \in 2..Len(states) /\ i \in 1..n
          BY <1>1, <4>2
        <5>2. states'[i] = states[i] /\ k \in 1..Len(body[states[i].curr_nom])
          BY <2>1, <3>1, <3>4, <5>1
        <5>3. body[states[i].curr_nom][k].proxies \subseteq states[i].data
          BY <5>1, <5>2 DEF ProxyInv
        <5> QED
          BY <2>1, <5>2, <5>3
      <4> QED
        BY <4>1, <4>2
    <3> QED
      BY <2>1, <2>2, <3>1, <3>4 DEF ProxyInv
  <2>3. CASE ~FixedPoint
    <3>1. Len(states') = 1
      BY <1>1, <1>4, <2>3, EnterStep
    <3>2. ~\E i \in 2..Len(states') : TRUE
      BY <3>1
    <3> QED
      BY <2>1, <2>3, <3>2 DEF ProxyInv
  <2> QED
    BY <2>2, <2>3
<1>5. CASE RewriteOp
  <2>1. /\ pc = "rewrite" /\ pc' = "rewrite" /\ curr_nom' = curr_nom /\ curr_nom \in Nom
        /\ pos \in 1..Len(Ops[curr_nom]) /\ n \in Nat \ {0}
        /\ Len(states') = n /\ \A i \in 1..n-1 : states'[i] = states[i]
        /\ states'[n].curr_nom = states[n].curr_nom
        /\ \A m \in Nom \ {curr_nom} : body'[m] = body[m]
        /\ Len(body'[curr_nom]) = Len(Ops[curr_nom])
        /\ ~FixedPoint => n = 1
        /\ FixedPoint => states[n].curr_nom = curr_nom
    BY <1>1, <1>5, RewriteStep, InWork
  <2>2. PICK op \in Operand, G \in SUBSET (Guess \ refuted) : Rewritten(n, op, G)
    BY <1>1, <1>5, RewriteStep
  <2>3. /\ \A k \in 1..Len(Ops[curr_nom]) : body'[curr_nom][k] = IF k = pos THEN op ELSE body[curr_nom][k]
        /\ states'[n].data = states[n].data \cup G
    BY <2>2 DEF Rewritten
  <2>4. op.proxies \subseteq states'[n].data
    <3>1. CASE \E i \in 1..n : op \in states[i].old2new[Ops[curr_nom][pos]]
      <4>1. PICK i \in 1..n : op \in states[i].old2new[Ops[curr_nom][pos]]
        BY <3>1
      <4>2. MemoOK(states, i)
        BY <1>1 DEF MetInv
      <4>3. Ops[curr_nom][pos] \in Def
        BY <2>1
      <4>4. op.proxies \subseteq states[i].data
        BY <4>1, <4>2, <4>3 DEF MemoOK
      <4>5. DataOK(states, n)
        BY <1>1, <2>1 DEF IInv, ChainInv, StateOK
      <4>6. states[i].data \subseteq states[n].data
        BY <4>5 DEF DataOK
      <4> QED
        BY <2>3, <4>4, <4>6
    <3>2. CASE ~\E i \in 1..n : op \in states[i].old2new[Ops[curr_nom][pos]]
      BY <2>2, <3>2 DEF Rewritten
    <3> QED
      BY <3>1, <3>2
  <2>5. Len(body[curr_nom]) = Len(Ops[curr_nom])
    BY <2>1 DEF IInv, TypeOK
  <2>6. ASSUME NEW i \in 2..n, NEW k \in 1..Len(body'[states'[i].curr_nom])
        PROVE  body'[states'[i].curr_nom][k].proxies \subseteq states'[i].data
    <3>1. i \in 1..n /\ i \in 2..Len(states) /\ FixedPoint /\ states[i].curr_nom \in Nom /\ n \in 1..n
      BY <1>1, <1>2
    <3>2. CASE i = n
      <4>1. /\ states'[i].curr_nom = curr_nom /\ states[i].curr_nom = curr_nom
            /\ k \in 1..Len(Ops[curr_nom]) /\ k \in 1..Len(body[curr_nom])
        BY <2>1, <2>5, <2>6, <3>1, <3>2
      <4>2. body[curr_nom][k].proxies \subseteq states[i].data
        BY <3>1, <4>1 DEF ProxyInv
      <4> QED
        BY <2>3, <2>4, <3>2, <4>1, <4>2
    <3>3. CASE i # n
      <4>1. states[i].curr_nom # curr_nom
        BY <1>1, <2>1, <3>1, <3>3, NomUnique
      <4>2. i \in 1..n-1
        BY <3>3
      <4>3. states'[i] = states[i] /\ body'[states[i].curr_nom] = body[states[i].curr_nom]
        BY <2>1, <3>1, <4>1, <4>2
      <4> QED
        BY <2>6, <3>1, <4>3 DEF ProxyInv
    <3> QED
      BY <3>2, <3>3
  <2>7. ASSUME ~FixedPoint, NEW m \in Nom, NEW k \in 1..Len(body'[m]) PROVE body'[m][k].proxies = {}
    <3>1. CASE m = curr_nom
      <4>1. k \in 1..Len(Ops[curr_nom]) /\ k \in 1..Len(body[curr_nom])
        BY <2>1, <2>5, <2>7, <3>1
      <4>2. body[curr_nom][k].proxies = {}
        BY <2>1, <2>7, <4>1 DEF ProxyInv
      <4>3. states'[n].data = {}
        BY <2>1, <2>7 DEF IInv, ChainInv, StateOK, DataOK
      <4> QED
        BY <2>3, <2>4, <3>1, <4>1, <4>2, <4>3
    <3>2. CASE m # curr_nom
      BY <2>1, <2>7, <3>2 DEF ProxyInv
    <3> QED
      BY <3>1, <3>2
  <2>8. \A m \in Unset : body'[m] = Original_ops(m)
    <3>1. curr_nom \notin Unset
      BY <2>1 DEF WorkInv
    <3> QED
      BY <2>1, <3>1 DEF ProxyInv
  <2> QED
    BY <2>1, <2>6, <2>7, <2>8 DEF ProxyInv
<1>6. CASE Leave /\ undo # No_Undo
  <2>1. /\ pc' = "loop" /\ undo \in 1..n-1 /\ FixedPoint
        /\ Len(states') = undo /\ \A i \in 1..undo : states'[i] = states[i]
        /\ \A m \in Nom : body'[m] = body[m] \/ body'[m] = Original_ops(m)
    BY <1>1, <1>6, LeaveStep
  <2>2. ASSUME NEW i \in 2..undo, NEW k \in 1..Len(body'[states'[i].curr_nom])
        PROVE  body'[states'[i].curr_nom][k].proxies \subseteq states'[i].data
    <3>1. i \in 2..n /\ i \in 1..undo /\ i \in 2..Len(states)
      BY <1>1, <2>1
    <3>2. PICK m \in Nom : m = states[i].curr_nom /\ m = states'[i].curr_nom /\ states'[i] = states[i]
      BY <1>2, <2>1, <3>1
    <3>3. CASE body'[m] = body[m]
      BY <2>2, <3>1, <3>2, <3>3 DEF ProxyInv
    <3>4. CASE body'[m] = Original_ops(m)
      BY <1>3, <2>2, <3>2, <3>4
    <3> QED
      BY <2>1, <3>3, <3>4
  <2>3. \A m \in Unset : body'[m] = Original_ops(m)
    BY <2>1 DEF ProxyInv
  <2> QED
    BY <2>1, <2>2, <2>3 DEF ProxyInv
<1>7. CASE Finish
  <2>1. Len(states') = 0 /\ pc' = "done" /\ body' = body /\ pc = "loop"
    BY <1>7 DEF Finish
  <2>2. \A m \in Nom : \A k \in 1..Len(body[m]) : body[m][k].proxies = {}
    BY <2>1, ProxyFree
  <2> QED
    BY <2>1, <2>2 DEF ProxyInv
<1>8. CASE AnalyzeOp
  <2>1. pc = "analyze" /\ pc' = "analyze" /\ body' = body
    BY <1>1, <1>8, AnalyzeStep
  <2>2. /\ n \in Nat \ {0} /\ Len(states') = n
        /\ \A i \in 1..n : states'[i].data = states[i].data
        /\ \A i \in 1..n : states'[i].curr_nom = states[i].curr_nom
    BY <1>1, <1>8, <2>1, AnalyzeSettles, InWork
  <2>3. \A i \in 2..n : i \in 1..n
    OBVIOUS
  <2> QED
    BY <1>1, <2>1, <2>2, <2>3 DEF ProxyInv
<1>9. CASE StartAnalyze \/ (Leave /\ undo = No_Undo) \/ \E g \in Guess \ refuted : pc = "analyze" /\ Refute(g)
  <2>1. states' = states /\ body' = body /\ pc # "done" /\ pc' # "done"
    BY <1>9 DEF StartAnalyze, Leave, Refute
  <2> QED
    BY <2>1 DEF ProxyInv
<1> QED
  BY <1>4, <1>5, <1>6, <1>7, <1>8, <1>9, NextCases

(* LInv holds before the first step.                                            *)
LEMMA InitLooked == Init => LInv
<1> SUFFICES ASSUME Init PROVE LInv
  OBVIOUS
<1>1. PICK s \in Orders(External) :
         states = << [curr_nom |-> NoNom, old_ops |-> <<>>, stack |-> s,
                      nom2visit |-> [n \in Nom |-> No_Undo], data |-> {},
                      old2new |-> Nothing, analyzed |-> External] >>
  BY Zenon DEF Init
<1>2. Len(states) = 1 /\ states[1].stack = s /\ states[1].analyzed = External
  BY <1>1
<1>3. /\ pc = "loop" /\ \A n \in Nom : body[n] = Original_ops(n)
      /\ ~\E i \in 2..Len(states) : TRUE
  BY <1>2 DEF Init
<1>4. WorkInv
  BY <1>3 DEF WorkInv
<1>5. SettledInv
  <2>1. ASSUME NEW x, Met(states, 1, x) PROVE \E a \in 1..Len(s) : s[a] = x
    <3>1. x \in External /\ Elems(s) = External
      BY <1>1, <1>2, <2>1 DEF Met, Orders
    <3> QED
      BY <3>1 DEF Elems
  <2> QED
    BY <1>2, <1>3, <2>1 DEF SettledInv
<1>6. ProxyInv
  <2>1. \A n \in Nom : \A k \in 1..Len(body[n]) : body[n][k].proxies = {}
    <3>1. ASSUME NEW n \in Nom, NEW k \in 1..Len(Original_ops(n)) PROVE Original_ops(n)[k].proxies = {}
      BY <3>1 DEF Original_ops, Original
    <3> QED
      BY <1>3, <3>1
  <2> QED
    BY <1>3, <2>1 DEF ProxyInv
<1> QED
  BY <1>4, <1>5, <1>6, InitMet DEF LInv

(* A stuttering step keeps LInv.                                                *)
LEMMA StutterLooked == LInv /\ UNCHANGED vars => LInv'
<1> SUFFICES ASSUME LInv, UNCHANGED vars PROVE LInv'
  OBVIOUS
<1> USE DEF LInv, vars
<1>1. MetInv'
  BY DEF MetInv
<1>2. WorkInv'
  BY DEF WorkInv, Memoised
<1>3. SettledInv'
  BY DEF SettledInv, Working
<1>4. ProxyInv'
  BY DEF ProxyInv
<1> QED
  BY <1>1, <1>2, <1>3, <1>4

(* What the chain of states has met, rewritten and looked into.                 *)
THEOREM Looked == Spec => []LInv
<1>1. IInv /\ IInv' /\ LInv /\ Next => LInv'
  BY NextMet, NextWork, NextSettled, NextProxy DEF LInv
<1>2. IInv /\ IInv' /\ LInv /\ [Next]_vars => LInv'
  BY <1>1, StutterLooked
<1> QED
  BY <1>2, InitLooked, Invariance, PTL DEF Spec

(* A nominal the loop is done with has no proxy left, whatever the passes do.   *)
THEOREM ProxiesGone == Spec => []NoProxyLeft
<1>1. IInv /\ LInv => NoProxyLeft
  <2> SUFFICES ASSUME IInv, LInv, pc \in {"loop", "done"}
               PROVE  \A m \in Nom : \A k \in 1..Len(body[m]) : body[m][k].proxies = {}
    BY DEF NoProxyLeft
  <2>1. CASE pc = "loop"
    BY <2>1, ProxyFree DEF LInv
  <2>2. CASE pc = "done"
    BY <2>2 DEF LInv, ProxyInv
  <2> QED
    BY <2>1, <2>2
<1> QED
  BY <1>1, Invariance, Looked, PTL

(* Backtracking loses no pending nominal: when the stack is empty, the externals *)
(* and all that the nominals worked on mention have been worked on.              *)
THEOREM Complete == Spec => []NothingMissed
<1>1. IInv /\ LInv => NothingMissed
  <2> SUFFICES ASSUME IInv, LInv, pc = "loop", curr_state.stack = <<>>
               PROVE  /\ External \subseteq Entered
                      /\ \A m \in Entered \ Unset : \A k \in 1..Len(body[m]) : body[m][k].refs \subseteq Entered
    BY DEF NothingMissed
  <2>1. PICK n \in Nat \ {0} : n = Len(states)
    BY DEF IInv, TypeOK
  <2>2. states[n].stack = <<>> /\ 1 \in 1..n /\ n \in 1..n /\ External \subseteq states[1].analyzed
    BY <2>1 DEF curr_state, LInv, MetInv
  <2>3. \A x \in External : x \in Nom /\ Met(states, n, x)
    BY <2>2 DEF Met
  <2>4. \A m \in Nom : \A k \in 1..Len(body[m]) : body[m][k].refs \subseteq Nom
    <3> TAKE m \in Nom
    <3> TAKE k \in 1..Len(body[m])
    <3>1. body[m][k] \in Operand
      BY DEF IInv, TypeOK
    <3> QED
      BY <3>1 DEF Operand
  <2>6. CASE FixedPoint
    <3>1. \A x \in Nom : Met(states, n, x) => x \in Entered
      <4>1. MetOK(states, refuted, n)
        BY <2>1, <2>2 DEF LInv, MetInv
      <4>2. ASSUME NEW x \in Nom, Met(states, n, x) PROVE \E j \in 2..n : states[j].curr_nom = x
        BY <2>2, <2>6, <4>1, <4>2 DEF MetOK
      <4> QED
        BY <2>1, <2>6, <4>2 DEF Entered
    <3>2. ASSUME NEW m \in Entered \ Unset, NEW k \in 1..Len(body[m]), NEW x \in body[m][k].refs
          PROVE  x \in Entered
      <4>1. PICK i \in 2..n : states[i].curr_nom = m
        BY <2>1, <2>6, <3>2 DEF Entered
      <4>2. m \in Nom
        BY <2>1, <4>1, ChainNom
      <4>3. Settled(states, refuted, body[m][k], i)
        BY <2>1, <3>2, <4>1 DEF LInv, SettledInv, Working
      <4>4. Met(states, i, x)
        BY <4>3 DEF Settled
      <4>5. Met(states, n, x)
        BY <4>4 DEF Met
      <4> QED
        BY <2>4, <3>1, <3>2, <4>2, <4>5
    <3> QED
      BY <2>3, <3>1, <3>2
  <2>7. CASE ~FixedPoint
    <3>1. n = 1
      <4>1. NomOK(states, n)
        BY <2>1, <2>2 DEF IInv, ChainInv, StateOK
      <4> QED
        BY <2>7, <4>1 DEF NomOK
    <3>2. Entered = Analyzed \cap Nom
      <4>1. Elems(curr_state.stack) = {}
        BY DEF Elems
      <4> QED
        BY <2>7, <4>1 DEF Entered
    <3>3. \A x : Met(states, 1, x) <=> x \in Analyzed
      BY <2>1, <3>1 DEF Met, Analyzed
    <3>4. ASSUME NEW m \in Entered \ Unset, NEW k \in 1..Len(body[m]) PROVE body[m][k].refs \subseteq Entered
      <4>1. m \in Nom /\ Met(states, 1, m) /\ Len(states[1].stack) = 0
        BY <2>2, <3>1, <3>2, <3>3, <3>4
      <4>2. Settled(states, refuted, body[m][k], 1)
        BY <2>7, <3>4, <4>1 DEF LInv, SettledInv, Working
      <4> QED
        BY <2>4, <3>2, <3>3, <3>4, <4>1, <4>2 DEF Settled
    <3> QED
      BY <2>3, <3>1, <3>2, <3>3, <3>4
  <2> QED
    BY <2>6, <2>7
<1> QED
  BY <1>1, Invariance, Looked, PTL

-----------------------------------------------------------------------------
(* The state whose guesses count: the current one, or the one a pending undo    *)
(* goes back to.                                                                *)
Counts(u, n) == IF u = No_Undo THEN n ELSE u

(* While run() is at work the guesses in use are those of one state.            *)
LEMMA InUseData ==
    ASSUME pc # "done", NEW n, n = Len(states)
    PROVE  InUse = states[Counts(undo, n)].data
BY DEF InUse, Counts, curr_state

(* The guesses of an earlier state are guesses of a later one.                  *)
LEMMA DataGrows ==
    ASSUME IInv, NEW n \in Nat, n = Len(states), NEW i \in 1..n, NEW j \in i..n
    PROVE  states[i].data \subseteq states[j].data /\ states[i].data \subseteq Guess
<1>1. DataOK(states, j) /\ i \in 1..j
  BY DEF IInv, ChainInv, StateOK
<1>2. states[i] \in State
  BY DEF IInv, TypeOK
<1> QED
  BY <1>1, <1>2 DEF DataOK, State

(* Refuting a guess gives up that guess, and takes up none.                     *)
LEMMA RefuteGivesUp ==
    ASSUME IInv, pc = "analyze", NEW g \in Guess, Refute(g)
    PROVE  InUse' \subseteq InUse \ {g}
<1>1. /\ undo' = Earlier(undo, UndoPoint(g)) \/ (g \notin curr_state.data /\ undo' = undo)
      /\ states' = states /\ pc' = pc /\ FixedPoint
  BY Zenon DEF Refute
<1>2. PICK n \in Nat \ {0} : n = Len(states) /\ n \in 1..n /\ curr_state = states[n]
  BY InWork
<1>3. undo = No_Undo \/ undo \in 1..n-1
  BY <1>2 DEF IInv, LoopInv
<1>4. PICK i \in 1..n : i = Counts(undo, n)
  BY <1>2, <1>3 DEF Counts
<1>5. PICK p \in {No_Undo} \cup 1..n-1 : p = UndoPoint(g)
  BY <1>1, <1>2, UndoPointType
<1>6. Counts(undo', n) \in 1..i /\ (undo' = Earlier(undo, p) /\ p # No_Undo => Counts(undo', n) <= p)
  BY <1>1, <1>2, <1>3, <1>4, <1>5 DEF Counts, Earlier
<1>7. PICK k \in 1..i : k = Counts(undo', n)
  BY <1>6
<1>8. InUse = states[i].data /\ InUse' = states[k].data
  <2>1. InUse = states[i].data
    BY <1>2, <1>4, InUseData
  <2>2. InUse' = states[k].data
    BY <1>1, <1>2, <1>7 DEF InUse, Counts, curr_state
  <2> QED
    BY <2>1, <2>2
<1>9. states[k].data \subseteq states[i].data
  <2>1. k \in 1..n /\ i \in k..n
    OBVIOUS
  <2> QED
    BY <1>2, <2>1, DataGrows
<1>10. g \notin states[k].data
  <2> SUFFICES ASSUME g \in states[k].data PROVE FALSE
    OBVIOUS
  <2>1. g \in curr_state.data
    <3>1. k \in 1..n /\ n \in k..n
      OBVIOUS
    <3> QED
      BY <1>2, <3>1, DataGrows
  <2>2. p \in 1..n-1 /\ p < k
    BY <1>2, <1>5, <2>1, UndoPointOK
  <2> QED
    BY <1>1, <1>5, <1>6, <1>7, <2>1, <2>2
<1> QED
  BY <1>8, <1>9, <1>10

(* The pass manager implements Optimist.  Rewriting an operand takes guesses up, *)
(* refuting one gives guesses up at once, and the later pop_states changes       *)
(* nothing of what counts.                                                       *)
LEMMA StepRefines == IInv /\ [Next]_vars => [Abstract!Next]_<<InUse, refuted, pc = "done">>
<1> SUFFICES ASSUME IInv, [Next]_vars PROVE [Abstract!Next]_<<InUse, refuted, pc = "done">>
  OBVIOUS
<1>1. PICK n \in Nat : n = Len(states)
  BY DEF IInv, TypeOK
<1>2. ASSUME InUse' = InUse, refuted' = refuted, (pc = "done")' = (pc = "done")
      PROVE  [Abstract!Next]_<<InUse, refuted, pc = "done">>
  BY <1>2
<1>3. CASE Enter
  <2>1. /\ n \in Nat \ {0} /\ pc = "loop" /\ pc' \in {"loop", "rewrite"} /\ refuted' = refuted
        /\ undo = No_Undo /\ undo' = No_Undo
        /\ FixedPoint => Len(states') = n + 1 /\ states'[n+1].data = states[n].data
        /\ ~FixedPoint => n = 1 /\ Len(states') = 1 /\ states'[1].data = states[1].data
    BY <1>1, <1>3, EnterStep
  <2>2. InUse' = InUse
    BY <1>1, <2>1 DEF InUse, curr_state
  <2> QED
    BY <1>2, <2>1, <2>2
<1>4. CASE RewriteOp
  <2>1. /\ pc = "rewrite" /\ pc' = "rewrite" /\ undo = No_Undo /\ undo' = No_Undo
        /\ refuted' = refuted /\ Len(states') = n
    BY <1>1, <1>4, RewriteStep
  <2>2. PICK op \in Operand, G \in SUBSET (Guess \ refuted) : Rewritten(n, op, G)
    BY <1>1, <1>4, RewriteStep
  <2>3. InUse = states[n].data /\ InUse' = states'[n].data
    BY <1>1, <2>1 DEF InUse, curr_state
  <2>4. InUse' = InUse \cup G
    BY <2>2, <2>3 DEF Rewritten
  <2>5. (pc = "done")' = (pc = "done") /\ pc # "done"
    BY <2>1
  <2>6. Abstract!Rely
    BY <2>1, <2>4, <2>5 DEF Abstract!Rely
  <2> QED
    BY <2>5, <2>6 DEF Abstract!Next
<1>5. CASE StartAnalyze
  <2>1. /\ pc = "rewrite" /\ pc' = "analyze" /\ undo = No_Undo /\ undo' = No_Undo
        /\ refuted' = refuted /\ states' = states
    BY <1>5 DEF StartAnalyze, IInv, LoopInv
  <2>2. InUse' = InUse
    BY <2>1 DEF InUse, curr_state
  <2> QED
    BY <1>2, <2>1, <2>2
<1>6. CASE AnalyzeOp
  <2>1. /\ pc = "analyze" /\ pc' = "analyze" /\ undo' = undo /\ refuted' = refuted /\ n \in Nat \ {0}
        /\ undo = No_Undo \/ undo \in 1..n-1
    BY <1>1, <1>6, AnalyzeStep, InWork DEF IInv, LoopInv
  <2>2. Len(states') = n /\ \A i \in 1..n : states'[i].data = states[i].data
    <3>1. CASE states' = states
      BY <1>1, <3>1
    <3>2. CASE Len(states') = n /\ (\A i \in 1..n-1 : states'[i] = states[i]) /\ states'[n].data = states[n].data
      <4>1. \A i \in 1..n : i = n \/ i \in 1..n-1
        OBVIOUS
      <4> QED
        BY <3>2, <4>1
    <3> QED
      BY <1>1, <1>6, <3>1, <3>2, AnalyzeStep
  <2>3. InUse' = InUse
    BY <1>1, <2>1, <2>2 DEF InUse, curr_state
  <2> QED
    BY <1>2, <2>1, <2>3
<1>7. CASE Leave
  <2>1. /\ pc = "analyze" /\ pc' = "loop" /\ undo' = No_Undo /\ refuted' = refuted
        /\ undo = No_Undo => states' = states
        /\ undo # No_Undo => undo \in 1..n-1 /\ Len(states') = undo /\ \A i \in 1..undo : states'[i] = states[i]
    BY <1>1, <1>7, LeaveStep
  <2>2. InUse' = InUse
    BY <1>1, <2>1 DEF InUse, curr_state
  <2> QED
    BY <1>2, <2>1, <2>2
<1>8. CASE \E g \in Guess \ refuted : pc = "analyze" /\ Refute(g)
  <2>1. PICK g \in Guess \ refuted : pc = "analyze" /\ Refute(g)
    BY <1>8
  <2>2. refuted' = refuted \cup {g} /\ pc' = pc
    BY <2>1 DEF Refute
  <2>3. InUse' \subseteq InUse \ {g}
    BY <2>1, RefuteGivesUp
  <2>4. (pc = "done")' = (pc = "done") /\ pc # "done"
    BY <2>1, <2>2
  <2>5. Abstract!Contradict
    BY <2>2, <2>3, <2>4 DEF Abstract!Contradict
  <2> QED
    BY <2>4, <2>5 DEF Abstract!Next
<1>9. CASE Finish
  <2>1. pc = "loop" /\ pc' = "done" /\ body' = body /\ refuted' = refuted
    BY <1>9 DEF Finish
  <2>2. n \in Nat \ {0} /\ undo = No_Undo
    BY <1>1, <2>1 DEF IInv, TypeOK, LoopInv
  <2>3. InUse = states[n].data
    BY <1>1, <2>1, <2>2 DEF InUse, curr_state
  <2>4. InUse' = UNION {UNION {body[m][k].uses : k \in 1..Len(body[m])} : m \in Nom}
    BY <2>1 DEF InUse
  <2>5. ASSUME NEW m \in Nom, NEW k \in 1..Len(body[m]) PROVE body[m][k].uses \subseteq states[n].data
    <3>1. CASE ~FixedPoint
      BY <2>5, <3>1 DEF IInv, BodyInv
    <3>2. CASE FixedPoint /\ \A i \in 2..n : states[i].curr_nom # m
      <4>1. body[m] = Original_ops(m)
        BY <1>1, <2>1, <3>2 DEF IInv, BodyInv
      <4> QED
        BY <2>5, <4>1 DEF Original_ops, Original
    <3>3. CASE \E i \in 2..n : states[i].curr_nom = m
      <4>1. PICK i \in 2..n : states[i].curr_nom = m
        BY <3>3
      <4>2. body[m][k].uses \subseteq states[i].data
        BY <1>1, <2>5, <4>1 DEF IInv, BodyInv
      <4>3. i \in 1..n /\ n \in i..n
        OBVIOUS
      <4> QED
        BY <1>1, <4>2, <4>3, DataGrows
    <3> QED
      BY <3>1, <3>2, <3>3
  <2>6. InUse' \subseteq InUse
    BY <2>3, <2>4, <2>5
  <2>7. (pc = "done")' = TRUE /\ pc # "done"
    BY <2>1
  <2>8. Abstract!Stop
    BY <2>1, <2>6, <2>7 DEF Abstract!Stop
  <2> QED
    BY <2>7, <2>8 DEF Abstract!Next
<1>10. CASE UNCHANGED vars
  <2>1. InUse' = InUse /\ refuted' = refuted /\ pc' = pc
    BY <1>10 DEF vars, InUse, curr_state
  <2> QED
    BY <1>2, <2>1
<1> QED
  BY <1>3, <1>4, <1>5, <1>6, <1>7, <1>8, <1>9, <1>10, NextCases

(* The pass manager does what Optimist says: it never relies on a guess again   *)
(* that a pass has refuted, and what it stops with relies on no more than       *)
(* before.                                                                      *)
THEOREM Refinement == Spec => ImplementsOptimist
<1>1. Init => Abstract!Init
  <2> SUFFICES ASSUME Init PROVE Abstract!Init
    OBVIOUS
  <2>1. Len(states) = 1 /\ states[1].data = {}
    BY DEF Init
  <2>2. pc = "loop" /\ undo = No_Undo /\ refuted = {}
    BY DEF Init
  <2>3. InUse = {} /\ (pc = "done") = FALSE
    BY <2>1, <2>2 DEF InUse, curr_state
  <2> QED
    BY <2>2, <2>3 DEF Abstract!Init
<1> QED
  BY <1>1, StepRefines, Invariance, PTL DEF Spec, ImplementsOptimist, Abstract!Spec
=============================================================================
