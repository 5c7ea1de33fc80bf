------------------------------- MODULE Optimist ------------------------------
(***************************************************************************)
(* What docs/passes.md promises of a fixed-point pass, free of states and   *)
(* stacks: the optimizer relies on optimistic guesses, learns for good that *)
(* some are wrong, then gives up at least those, and stops on a program     *)
(* that relies on none that was refuted.                                    *)
(***************************************************************************)
CONSTANT Guess

VARIABLES relies,   \* the guesses the program relies on
          refuted,  \* the guesses known to be wrong
          done

Init == relies = {} /\ refuted = {} /\ done = FALSE

Rely == \E G \in SUBSET (Guess \ refuted) :
            relies' = relies \cup G /\ UNCHANGED <<refuted, done>>

(* Undoing one guess may undo others that were made after it.                *)
Contradict == \E g \in Guess \ refuted :
    /\ refuted' = refuted \cup {g}
    /\ relies' \in SUBSET (relies \ {g})
    /\ UNCHANGED done

Stop == done' = TRUE /\ relies' \in SUBSET relies /\ UNCHANGED refuted

Next == ~done /\ (Rely \/ Contradict \/ Stop)

Spec == Init /\ [][Next]_<<relies, refuted, done>>

Sound == relies \cap refuted = {}
=============================================================================
