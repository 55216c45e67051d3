SPECIFICATION FairSpec
CONSTANTS
  b1 = b1
  b2 = b2
  Batches = {b1}
  MaxAttempts = 2
  Consumers = 2
  QueueEnabled = TRUE
  MaxRuns = 6
  MaxRetries = 1
  MaxFaults = 1
PROPERTIES
  PendingSettles
  DeleteEnds
CHECK_DEADLOCK FALSE
