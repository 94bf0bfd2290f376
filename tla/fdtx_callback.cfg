SPECIFICATION Spec
CONSTANTS
  SeqMod = 3
  Window = 2
  Threads = {t1}
  Packets = {p1, p2}
  SuSize = 1
  Retries = 1
  OnSendCb = TRUE
  TwoThreads = FALSE
  RemoteKinds = {"RR", "SREJ", "RSET", "SABM"}
  RemoteInSync = FALSE
  Addr = addr
INVARIANTS CallbackOwnsSlot
PROPERTIES ImplementsFifo
