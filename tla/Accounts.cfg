SPECIFICATION Spec
CONSTANTS
  Workers = {w1, w2}
  Emails = {root, ann}
  Root = root
  UserIds = {u1, u2}
  InviteIds = {i1, i2}
  None = None
SYMMETRY Symmetry
INVARIANTS TypeOK AdminLeft PendingNotRegistered CancelledStaysGone ToldIsGone UnsentOnlyByFailure
