SPECIFICATION AllSpec
CONSTANTS
    Defs <- AllDefs
    Programs <- AllPrograms
    Split = {1, 2, 3}
    Varless = {}
    Bare = {0}
INVARIANTS ScopeExact Exact Steady
CHECK_DEADLOCK FALSE
