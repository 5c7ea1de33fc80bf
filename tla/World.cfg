SPECIFICATION Spec
CONSTANTS
    Structural = {"Pi", "Var", "Proxy"}
    Nominal = {"Lam", "Arr", "Infer"}
    Arity <- OneOperand
    MaxGid = 5
    Threshold = 2
    ReduceArgs = {1}
CONSTRAINT Small
INVARIANTS TypeOK HashConsed DepExact UsesReachAll UsesExact VarIsFound
CHECK_DEADLOCK FALSE
