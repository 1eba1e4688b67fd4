SPECIFICATION Spec
CONSTANTS
  Bytes = {1, 255}
  MIN_NUMB_BYTES = 2
  BinSizes = {2, 3, 4}
  ReadSizes = {0, 3}
  MIN_RAM_SIZE = 1
  FlashEnd = 4
  BlockSize = 2
  RAM_START = 160
  RAM_END = 161
  RamTop = 165
  Sums <- BuildSums
  MaxCommands = 4
INVARIANTS
  UploadIsThere
  

  
CHECK_DEADLOCK FALSE
