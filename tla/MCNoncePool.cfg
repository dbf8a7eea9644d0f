SPECIFICATION Spec
CONSTANTS
  Takers = {t1, t2}
  Chutes = {c1}
  i1 = i1
  i2 = i2
  k1 = k1
  Instances <- MCInstances
  Keys <- MCKeys
  NoKey = NoKey
  Responses <- MCResponses
  FetchError = FetchError
  None = None
  DefaultTTL = 1
  MaxTTL = 3
  RejectTTL = 6
  SafetyMargin = 1
  MaxInstances = 2
  MaxFailures = 1
  MaxClock = 6
INVARIANTS TypeOK NonceSingleUse FreshWhenHandedOut
PROPERTIES NewerBatchesOnly TakeReturns ImplementsSource
CHECK_DEADLOCK FALSE
