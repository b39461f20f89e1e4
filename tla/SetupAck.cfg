SPECIFICATION FaultFreeSpec
CONSTANTS
  Workers = {w1, w2}
  Sessions = {s1}
  Ids = {p1, p2}
  Keys = {k1, k2}
  NoId = NoId
  NoKey = NoKey
  NoSession = NoSession
INVARIANTS
  AckedMeansSeen
CHECK_DEADLOCK FALSE
