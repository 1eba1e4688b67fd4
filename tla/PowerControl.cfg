SPECIFICATION Spec
CONSTANTS
  A = 3
  V = 6
  Registers <- AllRegisters
  ISR <- InterruptRegister
  MSR <- MaskRegister
  AUX_VREG <- VoltageRegister
  BUSCTRL <- BusRegister
  MSR_TEST = {0, 1, 2}
  MSR_MASK = {0, 1, 2, 4}
  USB_PU = 2
  VAUX2_EN = 0
  VAUX3_EN = 1
  TF_FIELD = {3, 4}
  VAP_TF = {3}
  SD_FIELD = {2}
  VAP_SD = {2}
  PowerUp <- PowerUpChips
  Interrupts <- SomeInterrupts
  MaxLost = 1
INVARIANTS
  CacheTrue
  
CHECK_DEADLOCK FALSE
