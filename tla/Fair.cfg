SPECIFICATION Spec
CONSTANTS
  NoRow = NoRow
  Short = Short
  Long = Long
  Clients = {c1, c2}
  Readings <- MCReadings
  Requests <- FairRequests
  RowLen <- MCRowLen
  MaxRowId = 2
  IntMax = 2
  BatchSize = 1
  BufferSize = 8
  HeaderLen = 2
  Stalled = {c2}
  Faults = {"peer"}
PROPERTIES
  CommandFinishes
