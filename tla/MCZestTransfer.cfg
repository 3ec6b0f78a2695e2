SPECIFICATION FairSpec
CONSTANTS
  MaxChunks = 3
  NCalls = 2
  Sec = 3
  TimeOut = 5
INVARIANTS
  ReapsOwn
  QueuedExact
PROPERTIES
  TransferSpec
  Returns
CHECK_DEADLOCK FALSE
