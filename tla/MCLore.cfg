SPECIFICATION FairSpec
CONSTANTS
  Offers = {1, 2}
  Messages = {1, 2}
  MaxCrashes = 1
  MaxLoad = 3
  NoOne = 0
INVARIANTS
  TurnsDoNotInterleave
  StoresAgree
  ShownIsSaved
PROPERTIES
  TurnsAreKept
  FollowUpsEnd
  SessionsReclaimed
CHECK_DEADLOCK FALSE
