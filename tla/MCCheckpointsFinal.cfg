SPECIFICATION Spec
CONSTANTS
  MaxStep = 3
  Keep = 2
INVARIANTS
  FinalWasSaved
