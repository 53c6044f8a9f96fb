CONSTANTS
  Attempt = {i1, i2}
  Adaptive = {i1, i2}
  MaxConcurrency = 2
  BaseDelay = 1
  MaxDelay = 2
  RetryAfter = {0, 2}
  QuotaWindow = {1, 3}
  StreakLength = 2
  MaxTime = 3
  MaxRevision = 4
  MaxDynamic = 3
  p1 = p1
  p2 = p2
  Probe = {p1, p2}
  Cancellable = {p1}
  NoProbe = NoProbe
  Unobserved = Unobserved
  MaxReports = 1
  MaxStrikes = 1
SPECIFICATION AccountSpec
SYMMETRY Symmetry
CHECK_DEADLOCK FALSE
INVARIANT CheckingIsOwned
PROPERTIES CooldownNeverShortened QuotaReasonSticks ResetIsFinal StaleOutcomesIgnored
PROPERTY CancelRestores
