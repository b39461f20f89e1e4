SPECIFICATION FaultFreeSpec
CONSTANTS
  Workers = {w1, w2}
  Ids = {p1, p2}
  Keys = {k1, k2}
  Broadcast = 4
  ManualIps <- MCManualIps
  NoId = NoId
  NoKey = NoKey
  NoAddr = NoAddr
INVARIANTS
  UniqueIps
CHECK_DEADLOCK FALSE
