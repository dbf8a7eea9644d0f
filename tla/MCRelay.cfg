SPECIFICATION Spec
CONSTANTS
  Hows <- AllHows
  Bodies <- MCBodies
  Deltas <- MCDeltas
  Items <- MCItems
  None = None
  MaxAttempts = 2
  MaxReads <- MCReads
  ChunkLimit = 3
INVARIANTS TypeOK DeliveredIsAuthentic OneAnswer SentSealed
CHECK_DEADLOCK FALSE
