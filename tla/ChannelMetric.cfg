SPECIFICATION MetricFairSpec
CONSTANTS
  Channels = {c1}
  NoChannel = none
  QueueSize = 2
  ThresholdNum = 4
  ThresholdDen = 5
  BufferSize = 1
  MaxEmits = 6
INVARIANTS DisabledForCause
PROPERTY OutcomesConsumed
CHECK_DEADLOCK FALSE
