SPECIFICATION FairSpec
CONSTANTS
  Strategies = {s1}
  Pairs = {p1, p2}
  Workers = {w1, w2}
  None = none
  MaxCandle = 1
  MaxTriggers = 2
  MaxOverruns = 1
  MaxFaults = 0
  MaxCrashes = 1
CHECK_DEADLOCK FALSE
PROPERTY LockFreed
PROPERTY RefreshEnds
