SPECIFICATION RecoverySpec
CONSTANTS
  Requests = {r1, r2}
  k1 = k1
  k2 = k2
  Keys <- MCKeys
  NoKey = NoKey
  Docs <- MCDocs
  None = None
  Providers <- KeyCacheProviders
  Forced = FALSE
  UsableEnforced = TRUE
  MaxAttempts = 2
  TTL = 1
  NegTTL = 1
PROPERTIES MarkerIsCleared EveryRequestReturns
