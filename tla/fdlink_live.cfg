SPECIFICATION FairSpec
CHECK_DEADLOCK FALSE
CONSTANTS
  A = A
  B = B
  Stations <- MCStations
  SeqMod = 4
  Window = 3
  SuSize = 4
  Retries = 1
  Scenarios <- LiveScenarios
  LineSize = 3
  SlowConnect = TRUE
  SlowRetry = TRUE
PROPERTIES Connects WindowDrains
