SPECIFICATION RetryFairSpec
CONSTANTS
  c1 = c1
  c2 = c2
  c3 = c3
  Channels = {c1, c2, c3}
  NoChannel = none
  Priorities <- Both
  Prompted = {c1}
  Modes = {"text"}
  CacheModes = {TRUE, FALSE}
  AutoDisable = TRUE
  RetryTimes = 2
  MaxChanges = 1
INVARIANTS FailuresReported DrawsAgree
PROPERTY RequestEnds
CHECK_DEADLOCK FALSE
