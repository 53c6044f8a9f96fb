CONSTANTS
  s1 = s1
  s2 = s2
  q1 = q1
  q2 = q2
  NoSource = NoSource
  Source = {s1, s2}
  Call = {q1, q2}
  Mixes <- MCMixes
  Relay = {s2}
  Native = {s1}
  Portable = {s1, s2}
  Metered = {s2}
  RetryLimit = 1
  AdaptiveLimit = 2
  TransientLimit = 6
  SameFailures = 3
SPECIFICATION FailoverSpec
INVARIANT ToolTurnStays
CHECK_DEADLOCK FALSE
