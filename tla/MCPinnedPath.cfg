SPECIFICATION Spec
CONSTANTS
  Requests = {r1, r2}
  a = a
  b = b
  s1 = s1
  s2 = s2
  Models = {m1}
  Peers <- TwoDomains
  None = None
  Docs <- AllDocs
  Providers <- MCProviders
  UsableEnforced = TRUE
INVARIANTS SentOnlyToAttestedPeer SentOnlyToBoundKey RelayedOnlyUnderReport NoOrphanedWaiter
PROPERTIES MarkerClearedByFreshReport EveryRequestReturns ImplementsExchange
