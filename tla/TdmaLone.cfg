SPECIFICATION FairSpec
CONSTANTS
  Sensors = {1}
  ClockModulus = 14
  TOTAL_TS = 1
  TS_PERIOD = 3
  BS_PERIOD = 3
  SEGMENT_PERIOD = 6
  GRD_PERIOD = 1
  CALIBRATION = 1
  REJECT_LIMIT = 1
  MAX_LISTEN_PERIOD = 7
  MAX_SLEEP_PERIOD = 2
  BS_AIR = 1
  SN_AIR = 2
  MAX_LATENCY = 1
  Restartable = {1}
  ShellNodes = {1}
  SlotChoices = {0, 1, 2, 13}
  WithCommands = TRUE
INVARIANT NotStranded
PROPERTY ListensAgain
