SPECIFICATION Spec
CONSTANTS
  Char = {"1", "e", "-", "nl"}
  Kind = {"KW", "ID", "MINUS", "NUM", "NL"}
  Skip = "skip"
  NoToken = "none"
  Setup <- CalcSetup
  Shape <- CalcShape
  Width <- Bytes
  Newline = "nl"
  MaxText = 5
  MaxResets = 1
  GoesOn = TRUE
INVARIANT LongestMatch FailsOnlyWithoutMatch TokensDelivered AssertionsHold PositionsRight
PROPERTY CallReturns
CHECK_DEADLOCK FALSE
