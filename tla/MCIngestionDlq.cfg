SPECIFICATION Spec
CONSTANTS
  b1 = b1
  b2 = b2
  Batches <- MCBatches
  MaxAttempts = 2
  Consumers = 1
  QueueEnabled = TRUE
  MaxRuns = 4
  MaxRetries = 0
  MaxFaults = 0
PROPERTY ExhaustedIsFailed
SYMMETRY Symmetry
CHECK_DEADLOCK FALSE
