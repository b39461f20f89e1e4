SPECIFICATION ImportSpec
CONSTANTS
  Workers = {w1}
  Ids = {p1, p2}
  Keys = {k1, k2}
  Broadcast = 3
  ManualIps = {}
  NoId = NoId
  NoKey = NoKey
  NoAddr = NoAddr
  Importer = Importer
  Legacies <- MCLegacies
  NoEntry = NoEntry
  MaxEdits = 1
SYMMETRY MCSymmetry
INVARIANTS
  ImportKeepsBinding
PROPERTIES
  ImportAdopts
  ImportKeepsRegistry
  MovedOnlyByEdit
