SPECIFICATION FairSpec
CONSTANTS
  Requests = {r1, r2}
  Models = {m1, m2}
  llm = llm
  job = job
  NoModel = nomodel
  MaxReleases = 2
  MaxLeaks = 1
  Evicts = TRUE
  Scenarios <- MCFaults
INVARIANTS
  CountsAreRight
  SlotInv
PROPERTIES
  LeaseReturned
  RequestsEnd
