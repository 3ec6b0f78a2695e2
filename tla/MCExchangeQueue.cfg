SPECIFICATION FairSpec
CONSTANTS
  Proc = {"app", "script"}
  Name = {"gui", "python"}
  Writers <- MCWriters
  MaxMsg = 2
  MaxSlots = 1
  NFd = 2
  MaxQueues = 2
INVARIANTS
  RoomToSend
  FreshQueue
PROPERTIES
  WriteReturns
CHECK_DEADLOCK FALSE
