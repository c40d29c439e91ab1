SPECIFICATION LifeFairSpec
CONSTANTS
  Slots = 2
  ChunkSize = 2
  MaxChunks = 5
INVARIANTS
  TypeOK
  IndexOrder
  NothingSkipped
  LapCheck
  NothingLeftBehind
PROPERTIES
  LogSpec
  EveryChunkSettles
  DrainsAfterStop
\* The life of the ring ends.
CHECK_DEADLOCK FALSE
