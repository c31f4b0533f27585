SPECIFICATION Spec
CONSTANTS
  Proc = {p1, p2}
  LeaseTerm = 1
  MaxLag = 0
  MaxBackoff = 1
  MaxOverloads = 2
  MaxEpoch = 3
  MaxCalls = 2
  StoreFails = TRUE
SYMMETRY Symmetry
INVARIANTS TypeOK NoFalseLoss
PROPERTIES NoCheckpointLost SweepKeepsLease
CHECK_DEADLOCK FALSE
