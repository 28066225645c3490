SPECIFICATION FairSpec
CONSTANTS
  Strategies = {s1}
  Registered = {s1}
  Workers = {w1, w2}
  Requests = {r1, r2}
  Daily = daily
  None = none
  MaxDay = 1
  MaxFaults = 0
  MaxCrashes = 0
  MaxRedeliveries = 1
CHECK_DEADLOCK FALSE
INVARIANTS
  DoneHasResult
PROPERTIES
  RunningEnds
  RequestsAnswered
  Quiesces
