SPECIFICATION OwnersFairSpec
CONSTANTS
  Workers = {w1, w2}
  Ids = {p1, p2}
  Keys = {k1, k2}
  Broadcast = 3
  ManualIps <- MCManualIps
  NoId = NoId
  NoKey = NoKey
  NoAddr = NoAddr
  Users = {u1}
  NoUser = NoUser
INVARIANTS
  DeletedUsersPeersLeave
CHECK_DEADLOCK FALSE
