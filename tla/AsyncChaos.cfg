CONSTANTS
  Submitters = {s1, s2}
  NUL = NUL
  s1 = s1
  s2 = s2
  Alignment = 2
  BatchSize = 2
  MaxPending = 0
  LowWatermark = 0
  RotateSize = 3
  TimeRotation = FALSE
  MaxArchived = 1
  TimerEnabled = FALSE
  CheckpointEnabled = TRUE
  TruncateOnStart = FALSE
  Faults = {"write", "close", "rename", "archive", "open", "checkpoint", "sidecar"}
  MaxFaults = 2
  MaxRecords = 6
  MaxMany = 2
  MaxSessions = 2
SPECIFICATION Spec
INVARIANTS
  DiskOrder
SYMMETRY SubmitterSymmetry
CHECK_DEADLOCK FALSE
