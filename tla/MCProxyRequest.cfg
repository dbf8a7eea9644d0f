SPECIFICATION Spec
CONSTANTS
  Requests = {r1, r2}
  k1 = k1
  k2 = k2
  Keys <- MCKeys
  NoKey = NoKey
  Docs <- MCDocs
  None = None
  Providers <- AllProviders
  Forced = FALSE
  UsableEnforced = TRUE
  MaxAttempts = 2
  TTL = 1
  NegTTL = 1
INVARIANTS SentOnlyToBoundKey ForwardedOnlyIfVerified NonceNeverReused SessionsZeroed AnsweredOnce
PROPERTIES ImplementsExchange
SYMMETRY RequestSymmetry
