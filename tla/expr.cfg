\* test/parser.cpp: the expression grammar, no callbacks, debug build.
CONSTANTS
    Terms <- ExprTerms
    Nonterms <- ExprNonterms
    RealStart = "RealStart"
    EOF = "EOF"
    Rules <- ExprRules
    Propagation = TRUE
    States <- MCStates
    StateItems <- MCItems
    StartState <- MCStart
    Table <- MCTable
    Tokens <- ExprTerms
    MaxTokens = 8
    MaxSaved = 0
    Droppable = {}
    Recovery = {}
    KeepsTokens = FALSE
    CallbackFails = FALSE
    NDebug = FALSE
    ResetAfter = {}
    GoesOn = FALSE
SPECIFICATION FairSpec
INVARIANTS ExprLanguage ExpectedExact PriorityRespected
CHECK_DEADLOCK FALSE
