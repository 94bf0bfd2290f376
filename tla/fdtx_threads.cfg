SPECIFICATION Spec
CONSTANTS
  SeqMod = 4
  Window = 2
  Threads = {t1, t2}
  Packets = {p1}
  SuSize = 1
  Retries = 1
  OnSendCb = FALSE
  TwoThreads = TRUE
  RemoteKinds = {"RR", "RNR", "REJ", "I", "I_OUT_OF_ORDER", "SABM", "DISC", "FRMR", "UA", "DM"}
  RemoteInSync = FALSE
  Addr = addr
SYMMETRY Symmetry
INVARIANTS WindowMatchesSlots RoomSignalled DataSignalled
PROPERTIES NeverCannotConfirm
