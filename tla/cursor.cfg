SPECIFICATION SSpec
CONSTANTS
  Char = {"1", "q", "-", "?"}
  Kind = {"NUM", "MINUS", "NL", "LIT"}
  Skip = "skip"
  NoToken = "none"
  Setup <- LiteralSetup
  Shape <- LiteralRules
  Width <- Bytes
  Newline = "-"
  MaxText = 5
  MaxResets = 0
  GoesOn = TRUE
  Buffers <- ShortTexts
  Window = 3
  SizeMod = 256
INVARIANT CursorInBuffer
PROPERTY IsCursor SCallReturns
