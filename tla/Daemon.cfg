SPECIFICATION Spec
CONSTANTS
  MaxJobs = 2
  MaxConcurrent = 2
  MaxCommands = 3
  Foreground = TRUE
INVARIANTS
  TypeOK
  ActiveBounded
  ClaimedRowIsActive
  NoIdleSlot
PROPERTIES
  FinishedIsFinal
  StopHolds
