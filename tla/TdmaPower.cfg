SPECIFICATION FairSpec
CONSTANTS
  Sensors = {1, 2}
  ClockModulus = 20
  TOTAL_TS = 2
  TS_PERIOD = 3
  BS_PERIOD = 3
  SEGMENT_PERIOD = 9
  GRD_PERIOD = 1
  CALIBRATION = 1
  REJECT_LIMIT = 2
  MAX_LISTEN_PERIOD = 10
  MAX_SLEEP_PERIOD = 3
  BS_AIR = 1
  SN_AIR = 2
  MAX_LATENCY = 1
  Restartable = {0, 1}
  ShellNodes = {}
  SlotChoices = {}
  WithCommands = FALSE
INVARIANTS ScheduleInv NoOverlap RadioOffBetween
PROPERTIES BeaconSpacing BeaconAnswered BeaconsKeepComing
