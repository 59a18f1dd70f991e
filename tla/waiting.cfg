\* Recovery that may ask for more tokens, no resets; debug build, without
\* lookahead_rule_propagation.
CONSTANTS
    Terms <- ExprTerms
    Nonterms <- ExprNonterms
    RealStart = "RealStart"
    EOF = "EOF"
    Rules <- ExprRules
    Propagation = FALSE
    States <- MCStates
    StateItems <- MCItems
    StartState <- MCStart
    Table <- MCTable
    Tokens = {"i","+",";","?"}
    MaxTokens = 5
    MaxSaved = 0
    Droppable = {"+"}
    Recovery = {"fail","resume","wait"}
    KeepsTokens = FALSE
    CallbackFails = TRUE
    NDebug = FALSE
    ResetAfter = {}
    GoesOn = FALSE
SPECIFICATION FairSpec
INVARIANTS OwnAssertionsHold SavedOK AcceptedIsWhole
CHECK_DEADLOCK FALSE
