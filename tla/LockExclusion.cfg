SPECIFICATION LockSpec
CONSTANTS
  c1 = c1
  c2 = c2
  c3 = c3
  Contender <- TwoContenders
  NoOwner = NoOwner
  Attempts = 4
  MaxCrashes = 0
INVARIANT MutualExclusion
