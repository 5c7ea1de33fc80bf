SPECIFICATION AllSpec
CONSTANTS
    Scale = 4
    Modules <- AllModules
    Names <- AllNames
    Main = 1
    Inputs <- ImportInputs
    MaxDepth = 5
INVARIANTS TokensRight NamesRight IsASet ImportSound
CHECK_DEADLOCK FALSE
