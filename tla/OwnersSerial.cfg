SPECIFICATION OwnersFairSpec
CONSTANTS
  Workers = {w1}
  Ids = {p1, p2}
  Keys = {k1, k2, k3, k4}
  Broadcast = 4
  ManualIps <- MCManualIps
  NoId = NoId
  NoKey = NoKey
  NoAddr = NoAddr
  Users = {u1, u2}
  NoUser = NoUser
INVARIANTS
  UniqueIps
  DriftOnlyFromRegenerate
PROPERTIES
  AddressesReleased
CHECK_DEADLOCK FALSE
