SPECIFICATION AloneSpec
CONSTANTS
  Workers = {w1}
  Ids = {p1, p2}
  Keys = {k1, k2, k3}
  Broadcast = 3
  ManualIps <- MCManualIps
  NoId = NoId
  NoKey = NoKey
  NoAddr = NoAddr
  Importer = Importer
  Legacies <- MCLegacies
  NoEntry = NoEntry
  MaxEdits = 0
INVARIANTS
  PeersImportedOnce
CHECK_DEADLOCK FALSE
