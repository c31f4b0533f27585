SPECIFICATION Spec
CONSTANTS
  Parts = {"merges", "notion", "shared", "crowded", "writers", "hands", "projections",
           "mounts", "moved", "retried", "refused", "resumed", "invocations", "placements",
           "broker", "queue", "faults", "environments", "calm", "previews",
           "late", "worktrees", "slow", "reaper"}
  p1 = p1
  p2 = p2
  m1 = m1
  m2 = m2
  w1 = w1
  w2 = w2
  a1 = a1
  a2 = a2
  r1 = r1
  r2 = r2
  o1 = o1
  o2 = o2
  c1 = c1
  c2 = c2
  h1 = h1
  h2 = h2
  e1 = e1
  e2 = e2
  e3 = e3
  i1 = i1
  i2 = i2
  q1 = q1
  q2 = q2
  l1 = l1
  l2 = l2
  n1 = n1
  n2 = n2
  x = x
  y = y
  person = person
  None = None
  Retry = Retry
  Asked = Asked
  Unnamed = Unnamed
  Nobody = Nobody
  Free = Free
  Other = Other
  NoAgent = NoAgent
  Human = Human
  Customer = Customer
  Nothing = Nothing
  Host = {h1, h2}
  Movable = {h2}
  MaxDigest = 2
  MaxTroubles = 1
  Pull = {p1}
  MaxHead = 2
  Setups <- GateSetups
  MaxFaults = 1
  Impl = {i1, i2}
  Reporting = {i1}
  SelfOpening = {i1}
  Remote = {}
  MaxPublishAttempts = 1
  MaxSaveFaults = 1
  MaxCrashes = 1
  Slot = {o1, o2}
  Inv = {i1, i2}
  MaxHostedTroubles = 1
  Env = {e1, e2}
  Res = {x, y}
  Slow = FALSE
  MaxCommandFaults = 1
  Proc = {p1, p2}
  Event = {e1, e2}
  Critical = {e1}
  MaxEvents = 2
  BatchSize = 2
  MaxEventFaults = 1
INVARIANTS
  TypeOK
  ClosesWhatMerged
  PagesDeliveredOnce
  NoSilentLoss
  EvidenceIsReal
  TeamClosesWhole
  

  
  
CHECK_DEADLOCK FALSE
