SPECIFICATION Spec
CONSTANTS
  Procs = {p1, p2, p3}
  Clients = {c1}
  NoProc = NoProc
  MaxFaults = 1
INVARIANTS
  OneDaemon
  Reachable
PROPERTY
  CallsEnd
CHECK_DEADLOCK FALSE
