SPECIFICATION Spec
CONSTANTS
  Second = 4
  Rate = 3
  Workers = 3
  ChunkSizes = {1, 2}
  MaxChunks = 4
  MaxTime = 5
INVARIANTS
  Paced
  NoDebt
CHECK_DEADLOCK FALSE
