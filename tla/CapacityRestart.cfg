CONSTANTS
  a1 = a1
  a2 = a2
  r1 = r1
  r2 = r2
  r3 = r3
  r4 = r4
  p1 = p1
  p2 = p2
  None = None
  Account = {a1, a2}
  Pool = {p1, p2}
  Request = {r1, r2, r3, r4}
  PoolOf <- MCPoolOf
  Verified <- MCVerified
  Unknown <- MCUnknown
  Hedged = {r1}
  AdaptivePool = {}
  Flapping = {}
  MaxConcurrency <- MCOnePermit
  MaxPending = 3
  MaxPendingPerPool = 2
  MaxGeneration = 1
SPECIFICATION Spec
INVARIANT IdleMeansFree
