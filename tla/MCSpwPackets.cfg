SPECIFICATION FairSpec
CONSTANTS
  NoSpw = 1
  DevsMax = 1
  NRx = 3
  NTx = 3
INVARIANTS
  ListsExclusive
  CountersMatch
  RxRing
  TxRing
PROPERTIES
  TransmitSpec
  WorkIsDone
CHECK_DEADLOCK FALSE
