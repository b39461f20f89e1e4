SPECIFICATION Spec
CONSTANTS
  Workers = {w1, w2}
  Ids = {p1, p2}
  Keys = {k1, k2, k3}
  Broadcast = 3
  ManualIps <- MCManualIps
  NoId = NoId
  NoKey = NoKey
  NoAddr = NoAddr
SYMMETRY MCSymmetry
INVARIANTS
  TypeOK
  DuplicateOnlyByRace
  AddressBinding
PROPERTIES
  SyncConverges
  ImplementsRegistry
