\* test/parser_typedef.cpp: decisions of every outcome on stacks a recovery has cut,
\* a recovery that keeps tokens, a caller that goes on after exceptions; Release.
CONSTANTS
    Terms <- TypedefTerms
    Nonterms <- TypedefNonterms
    RealStart = "RealStart"
    EOF = "EOF"
    Rules <- TypedefRules
    Propagation = TRUE
    States <- MCStates
    StateItems <- MCItems
    StartState <- MCStart
    Table <- MCTable
    Tokens = {"ID","(",")",";"}
    MaxTokens = 4
    MaxSaved = 1
    Droppable = {}
    Recovery = {"fail","resume"}
    KeepsTokens = TRUE
    CallbackFails = FALSE
    NDebug = TRUE
    ResetAfter = {"fed", "accept", "reject", "unknown", "syntax", "error", "optional", "nothing"}
    GoesOn = TRUE
SPECIFICATION FairSpec
INVARIANTS ViablePrefix
CHECK_DEADLOCK FALSE
