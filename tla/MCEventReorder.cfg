SPECIFICATION FairSpec
CONSTANTS
  N = 4
  Base = 1
  EarlyMax = 2
  BufferMax = 2
  MaxFails = 1
  MaxLosses = 1
INVARIANTS
  TypeOK
  NoDuplicates
  NoSilentLoss
PROPERTIES
  InOrder
  StreamEnds
CHECK_DEADLOCK FALSE
