SPECIFICATION LiveSpec
CONSTANTS
  MaxPackets = 3
  MaxOut = 3
  MaxResets = 2
  MaxSuspends = 1
CHECK_DEADLOCK FALSE
INVARIANTS
  BufferOwnership
  NoLostTxInterrupt
  NothingLeftBehind
PROPERTIES
  HostOrder
  QueueRefinement
  GoesOn
