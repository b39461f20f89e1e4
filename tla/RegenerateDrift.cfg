SPECIFICATION FaultFreeSpec
CONSTANTS
  Workers = {w1}
  Ids = {p1, p2}
  Keys = {k1, k2, k3}
  Broadcast = 4
  ManualIps <- MCManualIps
  NoId = NoId
  NoKey = NoKey
  NoAddr = NoAddr
INVARIANTS
  CurrentKeyLive
CHECK_DEADLOCK FALSE
