SPECIFICATION LiveSpec
CONSTANTS
  Proc = {p1, p2}
  Key = {k1}
  Repo = {}
  Agent = {}
  BatchSize = 1
  LeaseTerm = 1
  MaxLag = 0
  MaxAttempts = 0
  MaxEpoch = 2
  Reliable = {p1}
  Asking = {k1}
  Blocked = {}
  Unreleasable = {}
  Hooked = {}
PROPERTIES AttachedStaysAttached
CHECK_DEADLOCK FALSE
