CONSTANTS
  Batches <- MCBatches
  LastSeq = 5
  Topics = {"digest", "lifecycle"}
  MaxBacklog = 2
  HighWater = 2
  SocketRoom = 1
  MaxReconnects = 2
SPECIFICATION Spec
INVARIANT StreamSound
PROPERTY CatchesUp
CHECK_DEADLOCK FALSE
