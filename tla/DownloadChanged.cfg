SPECIFICATION Spec
CONSTANTS
  Total = 3
  Connections = 2
  Batch = 2
  MaxAttempts = 1
  RangeSupport = {TRUE}
  Commands = {"pause"}
  MaxVersion = 2
  MaxFaults = 0
  MaxRuns = 2
INVARIANT
  FinishedIsComplete
CHECK_DEADLOCK FALSE
