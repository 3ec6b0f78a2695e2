SPECIFICATION FairSpec
CONSTANTS
  Type = {"A", "B", "C", "WS"}
  EOF = "EOF"
  EOR = "EOR"
  Channel = {0, 99}
  Default = 0
  Rule <- MCRule
  Predicate <- MCPredicate
  Start = "prog"
  Body <- MCBody
  Decision <- MCDecision
  Token <- MCToken
  Filter <- MCFilter
  MaxTokens = 6
  MaxResets = 1
INVARIANTS
  SilentIffSentence
  MemoIsParse
PROPERTY
  ParserReturns
\* the parser stops when its start rule has returned
CHECK_DEADLOCK FALSE
