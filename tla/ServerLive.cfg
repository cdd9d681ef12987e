SPECIFICATION Spec
CONSTANTS
  Clients = {c1}
  Stoppers = {s1, s2}
  MaxFd = 2
PROPERTIES
  StopEndsLoop
  GonePeersClosed
