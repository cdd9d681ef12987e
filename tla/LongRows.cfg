SPECIFICATION Spec
CONSTANTS
  NoRow = NoRow
  Short = Short
  Long = Long
  Clients = {c1, c2}
  Readings <- MCReadings
  Requests <- AllRequests
  RowLen <- MCRowLen
  MaxRowId = 3
  IntMax = 3
  BatchSize = 2
  BufferSize = 8
  HeaderLen = 2
  Stalled = {}
  Faults = {}
INVARIANTS
  StoredRowsListed
