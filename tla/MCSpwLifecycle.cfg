SPECIFICATION FairSpec
CONSTANTS
  NoSpw = 2
  NChans = 3
  ChanMask <- MCChanMask
  WriteTicks = 2
INVARIANTS
  ServedIsRunning
  NoneLeftRunning
  NoCallOnClosed
PROPERTIES
  QuitEnds
CHECK_DEADLOCK FALSE
