SPECIFICATION Spec
CONSTANTS
  Workers = {w1, w2, w3}
  Peers = {a, b}
  Private = m600
  Shared = m640
  Modes = {m600, m640, m644}
  Cut = Cut
  NoText = NoText
  NoMode = NoMode
SYMMETRY Symmetry
INVARIANTS TypeOK KeyKept
PROPERTIES ModeKept ImplementsAtomicFile
