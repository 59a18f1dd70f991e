\* Recovery that answers at once, failing callbacks, resets; Release build.
CONSTANTS
    Terms <- ExprTerms
    Nonterms <- ExprNonterms
    RealStart = "RealStart"
    EOF = "EOF"
    Rules <- ExprRules
    Propagation = TRUE
    States <- MCStates
    StateItems <- MCItems
    StartState <- MCStart
    Table <- MCTable
    Tokens = {"i","+",";","?"}
    MaxTokens = 5
    MaxSaved = 0
    Droppable = {"+"}
    Recovery = {"fail","resume"}
    KeepsTokens = FALSE
    CallbackFails = TRUE
    NDebug = TRUE
    ResetAfter = {"fed", "accept", "reject", "unknown", "syntax", "error", "optional", "nothing"}
    GoesOn = FALSE
SPECIFICATION FairSpec
INVARIANTS EveryTokenOnce NoStaleToken
PROPERTIES IsShiftReduce CallReturns
CHECK_DEADLOCK FALSE
