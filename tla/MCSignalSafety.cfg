SPECIFICATION Spec
CONSTANTS
  Strategies = {s1}
  Pairs = {p1, p2}
  Workers = {w1, w2}
  None = none
  MaxCandle = 2
  MaxTriggers = 2
  MaxOverruns = 1
  MaxFaults = 1
  MaxCrashes = 1
SYMMETRY Symmetry
CHECK_DEADLOCK FALSE
INVARIANT TypeOK
INVARIANT RefreshesBounded
INVARIANT CacheMatchesRows
INVARIANT FailuresCounted
PROPERTY SignalsAdvance
