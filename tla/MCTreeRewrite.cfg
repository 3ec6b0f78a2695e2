SPECIFICATION Spec
CONSTANTS
  Token = {"x"}
  Nil = "nil"
  None = None
  MaxNodes = 4
  MaxHeld = 2
  MaxElements = 2
INVARIANTS
  Linked
  ReadsAlike
\* a rule may have nothing left to do, and the heap is bounded
CHECK_DEADLOCK FALSE
