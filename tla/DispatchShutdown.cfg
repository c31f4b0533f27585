SPECIFICATION Spec
CONSTANTS
  Proc = {p1}
  Key = {k1, k2}
  Repo = {}
  Agent = {}
  BatchSize = 1
  LeaseTerm = 1
  MaxLag = 0
  MaxAttempts = 0
  MaxEpoch = 1
  Reliable = {}
  Asking = {k2}
  Blocked = {}
  Unreleasable = {k1}
  Hooked = {}
INVARIANTS TypeOK 
CHECK_DEADLOCK FALSE
