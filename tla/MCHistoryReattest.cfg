SPECIFICATION HSpec
CONSTANTS
  Requests = {r1, r2}
  k1 = k1
  k2 = k2
  Keys <- MCKeys
  NoKey = NoKey
  Docs <- MCDocs
  None = None
  Providers <- VeniceOnly
  Forced = FALSE
  UsableEnforced = TRUE
  MaxAttempts = 2
  TTL = 1
  NegTTL = 1
INVARIANT FailureForcesReattestation
SYMMETRY RequestSymmetry
