CONSTANTS
  a1 = a1
  a2 = a2
  r1 = r1
  r2 = r2
  r3 = r3
  r4 = r4
  p1 = p1
  p2 = p2
  None = None
  Account = {a1, a2}
  Pool = {p1, p2}
  Request = {r1, r2, r4}
  PoolOf <- MCPoolOf
  Verified <- MCVerified
  Unknown <- MCUnknown
  Hedged = {r1}
  AdaptivePool = {p1}
  Flapping = {a1}
  MaxConcurrency <- MCTwoPermits
  MaxPending = 2
  MaxPendingPerPool = 1
  MaxGeneration = 1
  t1 = t1
  t2 = t2
  u1 = u1
  u2 = u2
  Endpoint = {t1}
  Foreign = {u1, u2}
  NoRecord = NoRecord
  NoClaim = NoClaim
  MaxCalls = 1
  MaxLeases = 1
  MaxWatches = 1
  MaxFaults = 1
  MaxDeaths = 1
  c1 = c1
  c2 = c2
  c3 = c3
  Contender <- OneContender
  NoOwner = NoOwner
  Attempts = 1
  MaxCrashes = 0
  PageRequest <- OnePage
  DrainTimeout = 1
  FinalTimeout = 2
  MaxRoutes = 0
  MaxQueue = 1
  MaxTime = 0
  Subject = {"capacity", "lease"}
  x1 = x1
  x2 = x2
  b1 = b1
  Export = {}
  Destination = {b1}
  NoFile = NoFile
  NoExport = NoExport
  MaxRefusals = 0
  MaxEnds = 0
SPECIFICATION WaitingSpec
INVARIANT NeverOversubscribed
PROPERTIES SingleProbe ImplementsPermits WaitEnds OrphanedTakeoverEnds DriftIsNoticed
