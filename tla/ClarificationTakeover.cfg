SPECIFICATION DriverSpec
CONSTANTS
  p1 = p1
  p2 = p2
  a1 = a1
  a2 = a2
  None = None
  Gone = Gone
  Proc = {p1}
  Team <- Two
  Exiting = {}
  SlackConfigured = TRUE
  BatchSize = 2
  Sharing = {}
  MaxFaults = 1
PROPERTY AnsweredTeam
CHECK_DEADLOCK FALSE
