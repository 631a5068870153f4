CONSTANTS
  source = source
  NoKey = NoKey
  NL = NL
  ShardCount = 2
  VirtualNodes = 1
  HashSpace = 1
  Callers = {source}
  Home <- MCHome
  KeyHash <- MCKeyHash
  Records <- SourceRecord
  MaxFaults = 1
  Paths <- MCOnePath
  Fixed = {"a.log"}
  Inodes = {1, 2}
  SourceMaxLines = 2
  Options <- MCOptions
  Gauges <- MCGauges
  MaxCells = 2
  MaxChanges = 1
  MaxMishaps = 1
  MaxPressure = 1
SPECIFICATION Spec
INVARIANTS
  StoredCovers
  WholeLines
  OnceUnlessExcused
PROPERTIES
  CatchesUp
CHECK_DEADLOCK FALSE
