SPECIFICATION FairSpec
CONSTANTS
  Ids = {i1, i2}
  Amounts = {1}
  MaxPosts = 3
  MaxFaults = 1
INVARIANTS Conserved
PROPERTY WriteBehindCounters SumsAreWritten
CHECK_DEADLOCK FALSE
