SPECIFICATION LimiterFairSpec
CONSTANTS
  h1 = h1
  h2 = h2
  h3 = h3
  Callers <- ThreeCallers
  MaxReqs = 3
  Duration = 4
  MaxErrors = 2
INVARIANTS
  WindowBound
  SilentClientPasses
PROPERTIES
  LimitEnds
