SPECIFICATION LiveSpec
CONSTANTS
  Parts = {"queue", "letter", "takeover", "sweep", "answers"}
  p1 = p1
  p2 = p2
  a1 = a1
  k1 = k1
  k2 = k2
PROPERTIES
  NothingDueStays
CHECK_DEADLOCK FALSE
