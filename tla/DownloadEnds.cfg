SPECIFICATION Spec
CONSTANTS
  Total = 2
  Connections = 2
  Batch = 1
  MaxAttempts = 1
  RangeSupport = {TRUE, FALSE}
  Commands = {"pause", "cancel", "ctrl-c"}
  MaxVersion = 1
  MaxFaults = 1
  MaxRuns = 1
INVARIANT
  PausedLeavesState
PROPERTIES
  ImplementsTask
  RunEnds
CHECK_DEADLOCK FALSE
