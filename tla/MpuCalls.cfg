SPECIFICATION MpuSpec
CONSTANTS
  Bits = 2
  ADDR_W = 2
  Registers = 2
  MaxCalls = 2
  Limit = 1000
  Top = 255
  MayBeMissing = TRUE
  Stretch = "long"
INVARIANTS CallsWork BusLeftFree
PROPERTIES OnlyRegisterWritten CallsReturn
CHECK_DEADLOCK FALSE
