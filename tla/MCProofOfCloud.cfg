SPECIFICATION Spec
CONSTANTS
  Peers = {1, 2, 3}
  Quorum = 2
  m1 = m1
  m2 = m2
  mon1 = mon1
  mon2 = mon2
  mon3 = mon3
  quoteHash = quoteHash
  other = other
  NoId = NoId
  Machines <- MCMachines
  Monikers <- MCMonikers
  QuoteHash = quoteHash
  Now <- MCNow
  Window <- MCWindow
  Absent <- MCAbsent
  Tokens <- MCTokens
INVARIANTS TypeOK RegisteredIsVouched ChainInPeerOrder
PROPERTIES ImplementsVote LookupEnds
