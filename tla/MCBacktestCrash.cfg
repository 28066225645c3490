SPECIFICATION FairSpec
CONSTANTS
  Strategies = {s1}
  Registered = {s1}
  Workers = {w1}
  Requests = {r1}
  Daily = daily
  None = none
  MaxDay = 1
  MaxFaults = 0
  MaxCrashes = 1
  MaxRedeliveries = 0
CHECK_DEADLOCK FALSE
PROPERTY RunningEnds
