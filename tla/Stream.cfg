SPECIFICATION Spec
CONSTANTS
  c1 = c1
  c2 = c2
  Clients = {c1, c2}
  Chars <- MCChars
  Digits <- MCDigits
  Names = {"nan"}
  IntMax = 20
  MaxInput = 14
  MaxFields = 6
  MaxDevice = 2
  Stack <- MCStack
  Scripts <- MCScripts
  RecvMax = 13
  CutAt = {5}
CHECK_DEADLOCK FALSE
INVARIANTS
  TypeOK
  StreamInv
  AloneAsSent
PROPERTIES
  AloneInBounds
  ParseShrinks
