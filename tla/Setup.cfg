SPECIFICATION Spec
CONSTANTS
  Workers = {w1, w2}
  Sessions = {s1, s2}
  Ids = {p1, p2}
  Keys = {k1, k2}
  NoId = NoId
  NoKey = NoKey
  NoSession = NoSession
SYMMETRY MCSymmetry
INVARIANTS
  ShownKeysAreOwn
  OfferIsCurrent
  AcknowledgedIsDiscarded
PROPERTIES
  ImplementsShowOnce
