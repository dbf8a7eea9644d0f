SPECIFICATION Spec
CONSTANTS
  Hows <- ChutesStream
  Bodies <- MCBodies
  Deltas <- MCDeltas
  Items <- MCItems
  None = None
  MaxAttempts = 2
  MaxReads <- MCReads
  ChunkLimit = 3
INVARIANT UsableMeansDecrypted
CHECK_DEADLOCK FALSE
