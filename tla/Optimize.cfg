\* All passes, those of mem_opt_phase, BetaRed with EtaRed and EtaExp, and SSAConstr, each on programs with what it works on.
SPECIFICATION Spec
CONSTANTS
    Unset = {6}
    External = {1}
    MaxTurns = 60
    Fuel = 10
    Setups <- MCSetups
    MaxNest = 12
INVARIANTS SameButStale  Promoted  NoProxyLeftElse  Inlined  NoTailCall  StabilizesElse
CHECK_DEADLOCK FALSE
