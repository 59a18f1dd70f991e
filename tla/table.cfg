\* Every grammar of up to three calls of add_rule, with and without priorities.
CONSTANTS
    Definitions <- MCDefinitions
    Starts <- MCStarts
    RealStart = "RealStart"
    EOF = "EOF"
    Propagation = TRUE
    MaxCalls = 3
    MaxPriority = 1
SPECIFICATION FairSpec
INVARIANTS  TableClosed AdjacentSound GeneratedSound
PROPERTY GenerationEnds
CHECK_DEADLOCK FALSE
