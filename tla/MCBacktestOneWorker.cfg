SPECIFICATION Spec
CONSTANTS
  Strategies = {s1, s2}
  Registered = {s1}
  Workers = {w1}
  Requests = {r1}
  Daily = daily
  None = none
  MaxDay = 2
  MaxFaults = 1
  MaxCrashes = 1
  MaxRedeliveries = 0
CHECK_DEADLOCK FALSE
INVARIANTS
  TypeOK
  OpenRowsAreHeld
  RunsOncePerDay
  
  RunningIsExecuting
PROPERTY StatusMovesForward
