SPECIFICATION BootSpec
CONSTANTS
  NumBlocks = 3
  BlockUnits = 2
  AddrSpace = 16
  MaxSize = 4
  Dests = {0, 2}
  Sizes = {2, 4}
  Faults = {"lock", "erase", "cell", "timeout"}
  MaxCommands = 2
  MaxFaults = 1
  MaxLosses = 1
  FlagAddrs = {0, 2}
  KernUnits = 4
  MaxEntries = 2
  MaxAsked = 1
  MaxStarts = 1
INVARIANTS
  FlagUsedOnce
  

  
CHECK_DEADLOCK FALSE
