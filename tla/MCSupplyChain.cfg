SPECIFICATION Spec
CONSTANTS
  d1 = d1
  d2 = d2
  d3 = d3
  router = router
  agent = agent
  pinned = pinned
  stranger = stranger
  build = build
  fork = fork
  k = k
  k2 = k2
  NoRepo = NoRepo
  NoKey = NoKey
  GitHub = GitHub
  Digests <- MCDigests
  Repos <- MCRepos
  Evidence <- MCEvidence
  Policies <- MCPolicies
  Entries <- MCEntries
  MaxDigests = 2
  MaxProofHashes = 1
  MaxLog = 2
INVARIANTS TypeOK PassMeansVouched OnlyAttestedImages NoFrontRunning
PROPERTIES VerificationEnds
