\* No recovery function, resets after every outcome; Release build.
CONSTANTS
    Terms <- ExprTerms
    Nonterms <- ExprNonterms
    RealStart = "RealStart"
    EOF = "EOF"
    Rules <- ExprRules
    Propagation = TRUE
    States <- MCStates
    StateItems <- MCItems
    StartState <- MCStart
    Table <- MCTable
    Tokens = {"i","+",";","?"}
    MaxTokens = 5
    MaxSaved = 0
    Droppable = {"+"}
    Recovery = {}
    KeepsTokens = FALSE
    CallbackFails = TRUE
    NDebug = TRUE
    ResetAfter = {"fed", "accept", "reject", "unknown", "syntax", "error", "optional", "nothing"}
    GoesOn = FALSE
SPECIFICATION FairSpec
INVARIANTS NoStaleToken
CHECK_DEADLOCK FALSE
