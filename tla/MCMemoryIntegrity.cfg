CONSTANTS
  RegionBytes = 5
  PageBytes = 2
  PagesPerSlice = 2
  FaultThreshold = 2
  WarnThreshold = 1
  None = None
  MaxDamage = 2
  MaxEvents = 2
  MaxRaises = 2
  MaxPasses = 2
SPECIFICATION FairSpec
INVARIANTS TypeOK PassCoversRegion EccAccountedOnce
PROPERTIES DamageReported PassCompletes
CHECK_DEADLOCK FALSE
