SPECIFICATION Spec
CONSTANTS
  Processes = {p1, p2, p3}
  MaxLaunches = 6
SYMMETRY MCSymmetry
CHECK_DEADLOCK FALSE
INVARIANTS
  StartupInv
  ReleasedInReverse
  NothingLeft
  ServingHasSchema
