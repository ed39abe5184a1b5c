SPECIFICATION FairSpec
CONSTANTS
  c1 = c1
  c2 = c2
  MaxMsgs = 3
  Channels = {c1, c2}
  Channel <- MCChannel
  Pipelines = {p1}
  NoOne = noone
  MaxFaults = 0
  MaxClears = 0
PROPERTIES
  EveryMessageArchived
