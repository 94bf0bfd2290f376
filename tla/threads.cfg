SPECIFICATION MCSpec
CONSTANTS
  t1 = t1
  t2 = t2
  t3 = t3
  EvThreads = {t1, t2}
  EvBits = {1, 2}
  EvPlatforms <- MCEvPlatforms
  EvCalls <- MCEvCalls
  EvBudgets <- MCEvTwice
  EvTicks = 1
  HhScenarios <- MCHhLone
  HhBytes = 2
  HhMaxSends = 2
  HhMaxErrors = 1
  HlScenarios <- MCHlScenarios
  HlBytes = 2
  PyThreads = {t1, t2, t3}
  PyScenarios <- MCPyScenarios
  PyMaxTurns = 2
  PyMaxCalls = 1
INVARIANTS EvNoLostWakeup PyErrorReported
PROPERTIES EvTimedWaitEnds HhLoneSendEnds HlQueueFreed PyCallReturns
CHECK_DEADLOCK FALSE
