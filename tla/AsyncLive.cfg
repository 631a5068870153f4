CONSTANTS
  Submitters = {s1, s2}
  NUL = NUL
  s1 = s1
  s2 = s2
  Alignment = 2
  BatchSize = 3
  MaxPending = 2
  LowWatermark = 0
  RotateSize = 4
  TimeRotation = FALSE
  MaxArchived = 1
  TimerEnabled = TRUE
  CheckpointEnabled = TRUE
  TruncateOnStart = TRUE
  Faults = {"write", "checkpoint"}
  MaxFaults = 2
  MaxRecords = 5
  MaxMany = 2
  MaxSessions = 1
SPECIFICATION FairSpec
INVARIANTS
  NothingLost
  WriterReady
PROPERTIES
  WaitersResume
  StopEnds
CHECK_DEADLOCK FALSE
