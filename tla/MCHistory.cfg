SPECIFICATION Spec
SYMMETRY PipelineSymmetry
CONSTANTS
  c1 = c1
  c2 = c2
  MaxMsgs = 2
  Channels = {c1, c2}
  Channel <- MCChannel
  Pipelines = {p1, p2}
  NoOne = noone
  MaxFaults = 1
  MaxClears = 1
INVARIANTS
  NoDuplicates
  IndexInv
  RecordedIsArchived
PROPERTIES
  ArchiveKeeps
