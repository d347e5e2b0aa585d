SPECIFICATION Spec
CONSTANTS
  i1 = i1
  i2 = i2
  Instances <- OneInstance
  NumFiles = 2
  NumPerms = 2
  MaxFaults = 0
  MaxCrashes = 1
INVARIANTS
  SeededWhenServing
