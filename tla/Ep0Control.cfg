SPECIFICATION Spec
CONSTANTS
  Device0 = Device0
  Config = Config
  NoDescriptor = NoDescriptor
  Descriptors = {Device0, Config}
  Length <- Lengths
  Wanted = {1, 3, 4, 5}
  EP0_FIFO_SIZE = 2
  MaxLate = 1
  MaxResets = 2
  Top = 16
  Ticks = 5
  Lag = 2
INVARIANTS
  ReadsDescriptor
  SleepsFullTime
PROPERTIES
  Enumerates
