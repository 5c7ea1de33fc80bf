\* The documented meaning of reduce.
SPECIFICATION Spec
CONSTANTS
    Structural = {"Pi", "Var"}
    Nominal = {"Lam"}
    Arity <- OneOperand
    MaxGid = 4
    Threshold = 2
    ReduceArgs = {1}
INVARIANTS ReducesOps
CHECK_DEADLOCK FALSE
