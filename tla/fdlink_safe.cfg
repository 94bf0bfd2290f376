SPECIFICATION Spec
CHECK_DEADLOCK FALSE
CONSTANTS
  A = A
  B = B
  Stations <- MCStations
  SeqMod = 3
  Window = 2
  SuSize = 4
  Retries = 1
  Scenarios <- SafeScenarios
  LineSize = 2
  SlowConnect = TRUE
  SlowRetry = FALSE
INVARIANTS InOrderOnce ConfirmedWasDelivered
