SPECIFICATION Spec
CONSTANTS
  Strategies = {s1}
  Pairs = {p1}
  Workers = {w1, w2}
  None = none
  MaxCandle = 1
  MaxTriggers = 2
  MaxOverruns = 1
  MaxFaults = 0
  MaxCrashes = 0
CHECK_DEADLOCK FALSE
INVARIANT OneRefresh
