SPECIFICATION Spec
CONSTANTS
  Requests = {r1, r2}
  Models = {m1}
  llm = llm
  job = job
  NoModel = nomodel
  MaxReleases = 2
  MaxLeaks = 2
  Evicts = FALSE
  Scenarios <- MCNoFaults
INVARIANTS
  GeneratesUnderLease
