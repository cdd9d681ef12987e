SPECIFICATION Spec
CONSTANTS
  Clients = {c1, c2}
  Stoppers = {s1, s2}
  MaxFd = 2
SYMMETRY ServerSymmetry
INVARIANTS
  TypeOK
  ServerInv
  ConnectionsOwned
  ListenerReleased
  StopNotMissed
  Findable
  EndsForAReason
PROPERTIES
  ImplementsService
