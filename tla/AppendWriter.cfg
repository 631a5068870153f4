CONSTANTS
  a = a
  b = b
  NUL = NUL
  Cells = {a, b}
  Alignment = 2
  Batches <- MCBatches
  MaxBytes = 5
SPECIFICATION Spec
INVARIANTS
  TypeOK
  OffsetsAligned
  StreamIntact
  ReportedInFile
