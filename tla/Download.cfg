SPECIFICATION Spec
VIEW unasked
CONSTANTS
  Total = 3
  Connections = 2
  Batch = 2
  MaxAttempts = 1
  RangeSupport = {TRUE, FALSE}
  Commands = {"pause", "cancel"}
  MaxVersion = 2
  MaxFaults = 1
  MaxRuns = 2
INVARIANTS
  TypeOK
  StateBacked
  SegmentedComplete
  SingleComplete
  CancelLeavesNoState
PROPERTY
  ProgressIsKept
CHECK_DEADLOCK FALSE
