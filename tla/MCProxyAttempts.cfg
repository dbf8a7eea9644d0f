SPECIFICATION Spec
CONSTANTS
  Requests = {r1}
  k1 = k1
  k2 = k2
  Keys <- MCKeys
  NoKey = NoKey
  Docs <- MCDocs
  None = None
  Providers <- ChutesOnly
  Forced = FALSE
  UsableEnforced = TRUE
  MaxAttempts = 3
  TTL = 1
  NegTTL = 1
INVARIANT AttemptsWithinMaximum
