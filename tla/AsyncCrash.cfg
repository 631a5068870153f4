CONSTANTS
  Submitters = {s1, s2}
  NUL = NUL
  s1 = s1
  s2 = s2
  Alignment = 2
  BatchSize = 2
  MaxPending = 0
  LowWatermark = 0
  RotateSize = 2
  TimeRotation = FALSE
  MaxArchived = 1
  TimerEnabled = TRUE
  CheckpointEnabled = TRUE
  TruncateOnStart = FALSE
  Faults = {"sidecar"}
  MaxFaults = 1
  MaxRecords = 6
  MaxMany = 2
  MaxSessions = 3
SPECIFICATION Spec
INVARIANTS
  SequenceResumes
  CommittedKept
  StopKeepsAcked
PROPERTIES
  ImplementsShardLog
SYMMETRY SubmitterSymmetry
CHECK_DEADLOCK FALSE
