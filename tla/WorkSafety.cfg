SPECIFICATION Spec
CONSTANTS
  Parts = {"thread", "crashes", "takeover", "wakefaults", "generations", "asks", "lossy",
           "questions", "guardian", "manifest", "claimfaults", "repairs", "restarts",
           "recoveries", "parkfaults", "holds", "keys", "documents"}
  p1 = p1
  p2 = p2
  m1 = m1
  m2 = m2
  d1 = d1
  d2 = d2
  w1 = w1
  w2 = w2
  a1 = a1
  a2 = a2
  r1 = r1
  r2 = r2
  t1 = t1
  t2 = t2
  b1 = b1
  o1 = o1
  k1 = k1
  k2 = k2
  c1 = c1
  c2 = c2
  canonical = canonical
  None = None
  Nobody = Nobody
  Vacant = Vacant
  Caller = {c1, c2}
  Pauses = FALSE
  MaxCalls = 3
  MaxFaults = 2
  Proc = {p1, p2}
  Work = {w1, w2}
  Mishaps = 3
  Run = {r1, r2}
  Remarks = {"failure", "report", "claim", "confirm"}
  Events = 2
  MaxTurns = 1
  Attempts = 2
  MaxUnknown = 1
  NoEntry = NoEntry
  NoOwner = NoOwner
  New = {p1, p2}
  Old = {o1}
  Canonical = canonical
  Legacy = {k1, k2}
  Kept = 1
  MaxEpoch = 3
  Peer = {p1, p2}
  NoPeer = NoPeer
  RecoveryRaces = FALSE
  MaxOrphanRuns = 2
  MaxOrphanExits = 0
  MaxOrphanPulls = 1
  MaxOrphanFaults = 1
INVARIANTS
  TypeOK
  ReportedOnce
  OneBabysitter
  
PROPERTIES
  RepliesAreKept
  ClaimsAreKept
  LiveLeaseKept
  CallsTakeEffectOnce
CHECK_DEADLOCK FALSE
