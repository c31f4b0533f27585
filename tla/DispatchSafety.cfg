SPECIFICATION Spec
CONSTANTS
  Proc = {p1, p2}
  Key = {k1}
  Repo = {r1}
  Agent = {}
  BatchSize = 1
  LeaseTerm = 1
  MaxLag = 0
  MaxAttempts = 0
  MaxEpoch = 3
  Reliable = {p1, p2}
  Asking = {}
  Blocked = {}
  Unreleasable = {}
  Hooked = {k1}
SYMMETRY Symmetry
INVARIANTS NotifyAtMostOnce SavesCurrentOrFenced
PROPERTIES PullRequestsNeverLost TerminalIsFinal RefinesWorkUnit
CHECK_DEADLOCK FALSE
