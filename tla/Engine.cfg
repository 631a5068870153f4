CONSTANTS
  c1 = c1
  c2 = c2
  k1 = k1
  k2 = k2
  NoKey = NoKey
  ShardCount = 2
  VirtualNodes = 1
  HashSpace = 4
  Callers = {c1, c2}
  Home <- MCHome
  Keys = {k1}
  KeyHash <- MCKeyHash
  Records <- RecordSet
  MaxFaults = 1
  MaxRecords = 3
  MaxBatch = 2
  MaxStarts = 1
  Configs <- MCConfigs
  CallPoints <- MCCallPoints
SPECIFICATION Spec
INVARIANTS
  OkMeansPlaced
  WellRouted
  CallerOrder
  RingLookup
PROPERTIES
  CallsReturn
  ShardsAreShardLogs
CHECK_DEADLOCK FALSE
