SPECIFICATION FairSpec
CONSTANTS
  Variable = {"v", "w", "x"}
  Numbered = {"v", "w"}
  Base <- MCBase
  Type = {"int", "octet"}
  Octet = "octet"
  Size <- MCSize
  Kinds <- MCKinds
  File <- MCFile
  Process = {"p"}
  MaxElements = 2
  MaxQueue = 1
  MaxCalls = 3
  None = None
INVARIANTS
  WatchedIsShown
PROPERTIES
  PollSurvives
  RemovesVariable
  Joins
\* the program ends
CHECK_DEADLOCK FALSE
