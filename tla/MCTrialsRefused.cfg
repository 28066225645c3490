SPECIFICATION Spec
CONSTANTS
  Threads = {t1}
  Visitors = {v1, v2, v3}
  Addresses = {a1}
  None = none
  Limit = 2
  Window = 2
  TrialTime = 3
  MaxTime = 4
  MaxFaults = 0
CHECK_DEADLOCK FALSE
INVARIANT RefusedOnlyWhenFull
