SPECIFICATION FairSpec
CONSTANTS
    NoNom = NoNom
    Nom = {"main", "f", "g"}
    External = {"main"}
    Unset = {}
    Def = {"call", "tup", "own"}
    Guess = {"gf", "gg"}
    OnEnter = {"gg"}
    FixedPoint = TRUE
    Ops <- SmallOps
    Mentions <- SmallMentions
    Subject <- SmallSubject
INVARIANTS TypeOK SoundGuesses NoProxyLeft RollbackRestores NothingMissed EnteredOnce
PROPERTIES UndoRepeats Termination ImplementsOptimist
CHECK_DEADLOCK FALSE
