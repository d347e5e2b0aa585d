SPECIFICATION FairSpec
CONSTANTS
  h1 = h1
  h2 = h2
  h3 = h3
  Handlers <- TwoHandlers
  Threshold = 3
  Window = 2
  MaxLag = 1
  MaxCount = 7
  MaxFaults = 1
INVARIANTS
  LockoutFollows
  GuessBound
PROPERTIES
  LockoutEnds
