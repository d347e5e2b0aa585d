SPECIFICATION FairSpec
CONSTANTS
  i1 = i1
  i2 = i2
  Instances <- TwoInstances
  NumFiles = 3
  NumPerms = 3
  MaxFaults = 2
  MaxCrashes = 2
INVARIANTS
  SchemaRecorded
  AccessAccounted
  FirstSeedLasts
PROPERTIES
  Implements
  StartEnds
