SPECIFICATION FairSpec
CONSTANTS
  llm = llm
  video = video
  trainer = trainer
  box = box
  bench = bench
  Names <- LiveNames
  JobOrder <- LiveOrder
  Kind <- LiveKind
  Priority <- LivePriority
  RequiresRoom <- LiveRoom
  Tasks = {t1, t2}
  Reaper = reaper
  NoOne = noone
  MayTimeOut = TRUE
  MayRestart = FALSE
PROPERTIES
  AcquireAnswered
  SilentLeaseReaped
