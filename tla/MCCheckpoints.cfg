SPECIFICATION FairSpec
CONSTANTS
  MaxStep = 3
  Keep = 1
INVARIANTS
  TypeOK
  LatestWasSaved
  DiskBounded
PROPERTIES
  NoProgressLost
  TrainingFinishes
