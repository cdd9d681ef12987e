SPECIFICATION Spec
CONSTANTS
  Clients = {c1}
  Stoppers = {s1}
  MaxFd = 2
PROPERTIES
  StopTerminates
