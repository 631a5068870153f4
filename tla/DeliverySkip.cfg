CONSTANTS
  Workers = {w1}
  QueueCapacity = 1
  SinkBatchSize = 2
  MaxArchived = 1
  Faults = {}
  MaxFaults = 1
  MaxRecords = 2
  MaxRotations = 1
  MaxSessions = 1
  w1 = w1
  w2 = w2
SPECIFICATION Spec
INVARIANTS
  AtLeastOnce
CHECK_DEADLOCK FALSE
