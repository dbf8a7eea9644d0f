SPECIFICATION Spec
CONSTANTS
  Requests = {r1, r2}
  a = a
  b = b
  s1 = s1
  s2 = s2
  Models = {m1, m2}
  Peers <- OneDomain
  None = None
  Docs <- EnforcedDocs
  Providers <- Gateway
  UsableEnforced = TRUE
INVARIANT KeyOfModel
