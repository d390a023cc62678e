SPECIFICATION Spec
CONSTANTS
  MaxJobs = 1
  MaxConcurrent = 1
  MaxCommands = 1
  Foreground = FALSE
PROPERTY
  PauseSticks
