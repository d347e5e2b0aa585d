SPECIFICATION Spec
CONSTANTS
  t1 = t1
  t2 = t2
  h1 = h1
  h2 = h2
  NoToken = NoToken
  Tokens <- One
  Handlers <- TwoHandlers
  AccessTTL = 5
  Leeway = 1
  CacheTTL = 2
  CacheSize = 1
  MaxLag = 1
  MaxTime = 4
  LastIssue = 4
  MaxFaults = 0
INVARIANTS
  LoggedOutBlocked
