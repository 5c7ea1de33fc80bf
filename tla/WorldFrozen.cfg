\* The documented meaning of a frozen World.
SPECIFICATION Spec
CONSTANTS
    Structural = {"Pi", "Var"}
    Nominal = {"Lam"}
    Arity <- OneOperand
    MaxGid = 4
    Threshold = 2
    ReduceArgs = {}
PROPERTIES FrozenCreatesNothing
CHECK_DEADLOCK FALSE
