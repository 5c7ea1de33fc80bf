\* The analyses on all small programs and graphs.
SPECIFICATION AllSpec
CONSTANTS
    Node <- Node5
    Graphs <- Graphs5
INVARIANTS DomExact  CfgNumbered  TreesExact
CHECK_DEADLOCK FALSE
