SPECIFICATION Spec
CONSTANTS
  h1 = h1
  h2 = h2
  b1 = b1
  b2 = b2
  b3 = b3
  NoBucket = NoBucket
  Handlers <- TwoHandlers
  Buckets <- ThreeBuckets
  Burst = 2
  Rate = 1
  IdleLimit = 3
  MaxLag = 1
INVARIANTS
  PassBound
