SPECIFICATION StreamsSpec
CONSTANTS
  Char = {"a", "nl"}
  Newline = "nl"
  MaxLength = 4
  MaxDepth = 2
  MaxResets = 1
  EmptyLoops = FALSE
  NTokens = 3
  MaxOps = 3
  Error = Error
  None = None
INVARIANTS
  TokensTile
  OnePerIndex
PROPERTIES
  NextTokenReturns
  RendersLazily
\* the lexer stops at the end of its input
CHECK_DEADLOCK FALSE
