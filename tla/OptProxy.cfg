\* All passes: TailRecElim copies a proxy of BetaRed.
SPECIFICATION Spec
CONSTANTS
    Unset = {6}
    External = {1}
    MaxTurns = 60
    Fuel = 10
    Setups <- ProxySetups
    MaxNest = 12
INVARIANTS NoProxyLeft
CHECK_DEADLOCK FALSE
