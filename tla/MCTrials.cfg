SPECIFICATION Spec
CONSTANTS
  Threads = {t1, t2}
  Visitors = {v1, v2, v3, v4, v5}
  Addresses = {a1}
  None = none
  Limit = 2
  Window = 2
  TrialTime = 3
  MaxTime = 3
  MaxFaults = 1
SYMMETRY Symmetry
CHECK_DEADLOCK FALSE
INVARIANTS
  TypeOK
  TrialsBounded
PROPERTY TrialNeverReset
