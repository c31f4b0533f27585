SPECIFICATION Spec
CONSTANTS
  p1 = p1
  p2 = p2
  a1 = a1
  a2 = a2
  None = None
  Gone = Gone
  Proc = {p1, p2}
  Team <- Two
  Exiting = {}
  SlackConfigured = TRUE
  BatchSize = 1
  Sharing = {}
  MaxFaults = 2
INVARIANTS TypeOK GateShut
PROPERTIES NoSecondWorker FencedStart
SYMMETRY Symmetry
CHECK_DEADLOCK FALSE
