SPECIFICATION LiveSpec
CONSTANTS
  NumBlocks = 3
  BlockUnits = 4
  AddrSpace = 32
  MaxSize = 12
  Dests = {0, 2, 4, 8, 24, 28}
  Sizes = {0, 4, 6, 8, 12, 16}
  Faults = {"lock", "erase", "cell", "timeout"}
  MaxCommands = 2
  MaxFaults = 1
  MaxLosses = 1
INVARIANTS
  OutsideUntouched
  ErrorsNeedFaults
  NoMixedImage
  AckUnlessTruncated
PROPERTIES
  Answered
CHECK_DEADLOCK FALSE
