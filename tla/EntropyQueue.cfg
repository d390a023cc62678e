SPECIFICATION Spec
CONSTANTS
  Segments = 3
  Size = 2
  Connections = 2
  Batch = 2
  MaxAttempts = 2
  MaxAge = 2
  Stops = {"pause"}
INVARIANTS
  InOnePlace
  StateKeepsUp
  AllComplete
PROPERTY
  AllReturn
CHECK_DEADLOCK FALSE
