SPECIFICATION Spec
CONSTANTS
  t1 = t1
  t2 = t2
  h1 = h1
  h2 = h2
  NoToken = NoToken
  Tokens <- TwoTokens
  Handlers <- TwoHandlers
  AccessTTL = 4
  Leeway = 1
  CacheTTL = 1
  CacheSize = 1
  MaxLag = 1
  MaxTime = 7
  LastIssue = 0
  MaxFaults = 1
SYMMETRY SymTwo
INVARIANTS
  StaleBound
  ExpiryBound
  CacheBounded
PROPERTIES
  DeadStaysDead
