SPECIFICATION Spec
CONSTANTS
  b1 = b1
  b2 = b2
  Batches <- MCBatches
  MaxAttempts = 2
  Consumers = 1
  QueueEnabled = TRUE
  MaxRuns = 4
  MaxRetries = 1
  MaxFaults = 1
INVARIANTS
  TypeOK
  ReadyIsComplete
  NoOrphanPending
  WorkerAtomic
  QueueRewritesOnce
  ProcessingNeverVisible
PROPERTIES
  ReadyIsSticky
  LifecycleSpec
SYMMETRY Symmetry
CHECK_DEADLOCK FALSE
