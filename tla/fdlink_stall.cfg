SPECIFICATION FairSpec
CHECK_DEADLOCK FALSE
CONSTANTS
  A = A
  B = B
  Stations <- MCStations
  SeqMod = 4
  Window = 2
  SuSize = 4
  Retries = 1
  Scenarios <- StallScenarios
  LineSize = 2
  SlowConnect = TRUE
  SlowRetry = TRUE
PROPERTIES WindowDrains
