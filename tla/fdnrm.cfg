SPECIFICATION MCNrmSpec
CHECK_DEADLOCK FALSE
CONSTANTS
  SeqMod = 3
  SuSize = 2
  Retries = 1
  Secondaries = {1, 2}
  Slots = 2
  BusSize = 3
  NrmScenarios <- MCNrmScenarios
INVARIANTS MarkerUnique NrmInOrderOnce SlotsSignalled
PROPERTIES PollsRoundRobin
