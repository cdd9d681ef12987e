SPECIFICATION Spec
CONSTANTS
  NoRow = NoRow
  Short = Short
  Long = Long
  Clients = {c1, c2}
  Readings <- MCReadings
  Requests <- FaultRequests
  RowLen <- MCRowLen
  MaxRowId = 2
  IntMax = 1
  BatchSize = 1
  BufferSize = 8
  HeaderLen = 2
  Stalled = {}
  Faults = {"db", "peer", "kill"}
SYMMETRY ClientSymmetry
INVARIANTS
  IInv
  AckedStored
  ErrorMeansUnstored
  StatementsReleased
PROPERTIES
  ImplementsLog
