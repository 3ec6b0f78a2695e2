SPECIFICATION FairSpec
CONSTANTS
  Type = {"A", "WS"}
  EOF = "EOF"
  Channel = {0, 99}
  Default = 0
  SourceToken <- MCToken
  MaxTokens = 3
  MaxMarks = 2
  Token = {"x"}
  Nil = "nil"
  None = None
  MaxNodes = 5
  MaxHeld = 2
  TreeTokens = 0
INVARIANTS
  DebuggerFollows
PROPERTY
  ParserGoesOn
\* the parser stops when its start rule has returned or the debugger is gone
CHECK_DEADLOCK FALSE
