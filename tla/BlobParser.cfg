SPECIFICATION LiveSpec
CONSTANTS
  NameBytes = {66, 73}
  MaxName = 2
  TextBytes = {48}
  MaxText = 3
  BinBytes = {2, 3}
  MinBin = 1
  MaxBin = 2
  MaxPacket = 4
  GivesUp = TRUE
CHECK_DEADLOCK FALSE
INVARIANTS
  RecvDataFits
  BackInStep
PROPERTIES
  ChannelRefinement
  Answered
