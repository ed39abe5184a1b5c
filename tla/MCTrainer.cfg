SPECIFICATION FairTrainerSpec
CONSTANTS
  llm = llm
  trainer = trainer
  Names <- MCNames
  JobOrder <- MCOrder
  Kind <- MCKind
  Priority <- MCPriority
  RequiresRoom <- MCRoom
  Tasks = {l1, s1, s2}
  Callers = {l1}
  Reaper = reaper
  NoOne = noone
  MayTimeOut = TRUE
  MayRestart = TRUE
  Scenarios <- MCFaults
INVARIANTS
  TrainerInv
PROPERTIES
  HandoverCompletes
  UnleasedWorkerLeaves
