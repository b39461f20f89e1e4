SPECIFICATION WgDownSpec
CONSTANTS
  Workers = {w1}
  Ids = {p1, p2}
  Keys = {k1, k2}
  Broadcast = 4
  ManualIps <- MCManualIps
  NoId = NoId
  NoKey = NoKey
  NoAddr = NoAddr
INVARIANTS
  DeletedPeerLeavesConf
CHECK_DEADLOCK FALSE
