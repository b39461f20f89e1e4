SPECIFICATION Spec
CONSTANTS
  n1 = n1
  n2 = n2
  n3 = n3
  k1 = k1
  k2 = k2
  a1 = a1
  Names = {n1, n2}
  PeerKeys = {k1}
  Addresses = {a1}
  NoText = NoText
  Tables <- MCTables
  NameLines <- MCNameLines
  MaxLines = 5
INVARIANTS
  AllSectionsFound
CHECK_DEADLOCK FALSE
