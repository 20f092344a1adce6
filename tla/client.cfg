CONSTANTS
  Worker = {t1, t2}
  NoWorker = NoWorker
  Conn = {c1, c2, c3}
  NoConn = NoConn
  Req = {r1}
  Calls = {"ready", "start", "pause", "resume", "stop"}
SPECIFICATION FairSpec
CHECK_DEADLOCK FALSE
INVARIANTS ClientInv
PROPERTIES PauseDisconnects KeepsDialling
