SPECIFICATION Spec
CONSTANTS
  Bits = 3
  Keys = {k1, k2, k3}
  Subnets <- MCSubnets
  Imported <- MCImported
  HostRanges <- MCHostRanges
  ManualIps <- MCManualIps
  NoAddr = NoAddr
SYMMETRY Symmetry
INVARIANTS TypeOK RefusedOnlyWhenFull TwiceOnlyWithSeveral
PROPERTIES NextFreeIsGiven
