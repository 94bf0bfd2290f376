SPECIFICATION MCSpec
CONSTANTS
  Frames <- MCFrames
  CrcLen = 1
  Mtu = 2
  BufSize = 7
  OutSizes = {1, 2}
  NoiseBytes = {126, 125, 65}
  MaxFrames = 3
  MaxDamages = 2
  LineSize = 2
  SuSize = 4
  Addresses = {a1}
  ServiceFrames = {f1, f2, f3}
  LtScenarios <- MCLtScenarios
  LtBytes = 2
  LtMaxSends = 3
  HhScenarios <- MCHhScenarios
  HhBytes = 2
  HhMaxSends = 2
  HhMaxErrors = 1
  PrPackets = {p1, p2}
  PrReaders = {r1, r2}
  PrModes = {TRUE, FALSE}
  PrMaxFrames = 3
  PrMaxBegins = 2
  TlElements = {e1, e2, e3, e4}
  PkSize = 6
  PkMaxPuts = 3
  PkOrders = {"left", "right"}
  PkValues <- MCPkValues
  SlDrivers <- MCSlDrivers
  SlPumps <- MCSlPumps
  SlMaxBytes = 3
  SlMaxBegins = 2
  PhMessages = {m0, m1, m2}
  PhEmpty = m0
  PhMaxPuts = 6
  FiWord = 8
  FiFdData = 280
  FiPeerInfo = 128
  FiFrameInfo = 12
  FiLlData = 136
  FiSetups <- MCFiSetups
  FiPeerCounts = {0, 1, 3, 63, 64}
  FiAddresses = {0, 1, 62, 63}
  RsFrames <- MCRsFrames
  RsOutSizes = {1, 2, 4}
  RsMtu = 2
  RsBufSize = 5
  RsMaxFrames = 2
  RsLineSize = 4
  HlScenarios <- MCHlScenarios
  HlBytes = 2
  t1 = t1
  t2 = t2
  t3 = t3
  EvThreads = {t1, t2, t3}
  EvBits = {1, 2}
  EvPlatforms <- MCEvPlatforms
  EvCalls <- MCEvMoreCalls
  EvBudgets <- MCEvBudgets
  EvTicks = 1
INVARIANTS
  Transparent Resynchronises
  LtOwnBuffer LtLossBounded
  HhAcceptMeansIdle
  PrConserved PrNoLostWakeup PrLinkOutlivesThreads
  TlEnumerates
  PkRoundTrip
  SlBytesInOrder SlResources
  PhPinned
  FiLayout
  RsDelivers
  HlTrueMeansSent
PROPERTIES ImplementsFifo ImplementsEventBits
CHECK_DEADLOCK FALSE
