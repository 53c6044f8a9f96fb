CONSTANTS
  a1 = a1
  a2 = a2
  r1 = r1
  r2 = r2
  r3 = r3
  r4 = r4
  p1 = p1
  p2 = p2
  c1 = c1
  c2 = c2
  c3 = c3
  None = None
  NoOwner = NoOwner
  Subject = {"route", "backup"}
  Account = {a1, a2}
  Pool = {p1}
  Request = {r1}
  PoolOf <- MCPoolOf
  Verified <- MCVerified
  Unknown <- MCUnknown
  Hedged = {}
  AdaptivePool = {}
  Flapping = {}
  MaxConcurrency <- MCOnePermit
  MaxPending = 1
  MaxPendingPerPool = 1
  MaxGeneration = 0
  Contender <- OneContender
  Attempts = 1
  MaxCrashes = 0
  PageRequest <- TwoPages
  DrainTimeout = 1
  FinalTimeout = 2
  MaxRoutes = 2
  MaxQueue = 1
  MaxTime = 3
  t1 = t1
  t2 = t2
  u1 = u1
  u2 = u2
  Endpoint = {t1, t2}
  Foreign = {u1, u2}
  NoRecord = NoRecord
  NoClaim = NoClaim
  MaxCalls = 0
  MaxLeases = 0
  MaxWatches = 0
  MaxFaults = 0
  MaxDeaths = 0
  x1 = x1
  x2 = x2
  b1 = b1
  Export = {x1, x2}
  Destination = {b1}
  NoFile = NoFile
  NoExport = NoExport
  MaxRefusals = 3
  MaxEnds = 1
SPECIFICATION RetirementSpec
INVARIANTS InFlightCounted BackupKept
PROPERTIES WorkKeepsGeneration RetiredIsDisposed JournalsEnd
CHECK_DEADLOCK FALSE
