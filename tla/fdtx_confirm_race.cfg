SPECIFICATION Spec
CONSTANTS
  SeqMod = 4
  Window = 3
  Threads = {t1}
  Packets = {p1}
  SuSize = 1
  Retries = 0
  OnSendCb = TRUE
  TwoThreads = TRUE
  RemoteKinds = {"RR", "SABM"}
  RemoteInSync = TRUE
  Addr = addr
SYMMETRY Symmetry
PROPERTIES NeverCannotConfirm
