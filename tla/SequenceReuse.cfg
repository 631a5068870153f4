CONSTANTS
  Submitters = {s1}
  NUL = NUL
  s1 = s1
  s2 = s2
  Alignment = 2
  BatchSize = 2
  MaxPending = 0
  LowWatermark = 0
  RotateSize = 3
  TimeRotation = FALSE
  MaxArchived = 1
  TimerEnabled = FALSE
  CheckpointEnabled = TRUE
  TruncateOnStart = FALSE
  Faults = {}
  MaxFaults = 0
  MaxRecords = 4
  MaxMany = 2
  MaxSessions = 2
SPECIFICATION Spec
INVARIANTS
  UniqueSequences
CHECK_DEADLOCK FALSE
