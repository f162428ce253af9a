SPECIFICATION Spec
CONSTANTS
  Procs = {p1, p2}
  RedisModes = {TRUE, FALSE}
  maxRequestNum = 2
  duration = 2
  Expiration = 3
  Never = Never
  MaxClock = 5
  MaxRequests = 6
  MaxFaults = 1
INVARIANTS WindowBound OvershootBound RefusedWithCause
CHECK_DEADLOCK FALSE
SYMMETRY Interchangeable
