\* DS2CPS and CPS2DS; PartialEval, Scalerize, LamSpec and RetWrap; Reshape.
SPECIFICATION Spec
CONSTANTS
    Unset = {}
    External = {1}
INVARIANTS Preserved  WellFormed  InForm
CHECK_DEADLOCK FALSE
