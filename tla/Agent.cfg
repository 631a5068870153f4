CONSTANTS
  Options <- MCOptions
  Wire <- MCWire
  Via <- MCVia
  Datagram <- MCDatagram
  Input <- MCInput
  Requests = {1}
  MaxRequestBytes = 5
  MaxFaults = 1
  MaxCrashes = 1
SPECIFICATION Spec
INVARIANTS
  StreamPrefix
  CleanExit
  MigrationKeeps
PROPERTIES
  StopReturns
CHECK_DEADLOCK FALSE
