SPECIFICATION OwnersSpec
CONSTANTS
  Workers = {w1, w2}
  Ids = {p1, p2}
  Keys = {k1, k2}
  Broadcast = 3
  ManualIps <- MCManualIps
  NoId = NoId
  NoKey = NoKey
  NoAddr = NoAddr
  Users = {u1, u2}
  NoUser = NoUser
SYMMETRY MCSymmetry
INVARIANTS
  OwnersTypeOK
PROPERTIES
  CascadeOnlyUnlisted
  ImplementsOwned
