SPECIFICATION HhSpec
CHECK_DEADLOCK FALSE
CONSTANTS
  HhScenarios <- MCHhScenarios
  HhBytes = 2
  HhMaxSends = 1
  HhMaxErrors = 0
INVARIANTS HhSuccessMeansSent
