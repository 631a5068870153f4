CONSTANTS
  Configs <- MCConfigs
  Payload <- MCPayload
  Queries <- MCQueries
  MaxArchived = 1
  FirstIndex = 0
  TickSeconds = 2
  MaxTime = 1
  MaxRotations = 3
  MaxCrashes = 1
  BrokenGz = 1
  DefaultLimit = 5
SPECIFICATION Spec
INVARIANTS
  OnceInOrder
  Authentic
  Complete
  ArchiveKeeps
  OldestExpire
CHECK_DEADLOCK FALSE
