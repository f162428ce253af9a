SPECIFICATION FairSpec
CONSTANTS
  Channels = {c1}
  Workers = {w1}
  Testers = {t1, t2}
  NoChannel = none
  CacheModes = {TRUE, FALSE}
  AutoDisable = TRUE
  AutoEnable = TRUE
  EnableMetric = FALSE
  OneGroup = FALSE
  MaxEdits = 2
  MaxFaults = 1
INVARIANTS TablesAgree CacheIsCurrent
PROPERTIES PanicHasCause DisabledLeavesCache
CHECK_DEADLOCK FALSE
