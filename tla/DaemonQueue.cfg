SPECIFICATION FaultySpec
CONSTANTS
  MaxJobs = 3
  MaxConcurrent = 1
  MaxCommands = 2
  Foreground = TRUE
PROPERTIES
  ImplementsJobQueue
  StopCompletes
  JobSettles
