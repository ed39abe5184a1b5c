SPECIFICATION Spec
CONSTANTS
  llm = llm
  video = video
  trainer = trainer
  box = box
  bench = bench
  Names <- MCNames
  JobOrder <- MCOrder
  Kind <- MCKindOf
  Priority <- MCPriorityOf
  RequiresRoom <- MCRoomOf
  Tasks = {t1, t2, t3}
  Reaper = reaper
  NoOne = noone
  MayTimeOut = TRUE
  MayRestart = TRUE
INVARIANTS
  TypeOK
  ExclusiveLease
  LetGoMeansGone
  WantedIsHeard
PROPERTIES
  LeaseEndsProperly
  ImplementsLease
SYMMETRY TaskSymmetry
