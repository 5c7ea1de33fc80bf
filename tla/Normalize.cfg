SPECIFICATION Spec
CONSTANTS
    Full = 4
    IntBits = 3
INVARIANTS MeaningKept FormKept
CHECK_DEADLOCK FALSE
