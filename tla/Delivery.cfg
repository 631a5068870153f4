CONSTANTS
  Workers = {w1}
  QueueCapacity = 1
  SinkBatchSize = 2
  MaxArchived = 1
  Faults = {"load", "read", "store", "sink", "remove"}
  MaxFaults = 1
  MaxRecords = 3
  MaxRotations = 2
  MaxSessions = 2
  w1 = w1
  w2 = w2
SPECIFICATION FairSpec
INVARIANTS
  SkipsOnlyMissed
  ReplayWindow
PROPERTIES
  OffsetMonotone
  ScannerStops
  EventuallyDelivered
CHECK_DEADLOCK FALSE
