SPECIFICATION FairSpec
CONSTANTS
  a = a
  b = b
  c = c
  n1 = n1
  n2 = n2
  s1 = s1
  s2 = s2
  Texts <- MCTexts
  Searches = {s1, s2}
  Hits <- MCHits
  Miss <- MCMiss
  MaxRounds = 3
  MaxCalls = 2
  MaxRepeats = 2
  Wording = 1
  Lengths = {1, 6}
  Longest = 6
  Error = 1
  SoftAt = 4
  CompactAt = 5
  HardAt = 6
  Window = 8
  MaxTurns = 2
INVARIANTS
  FoundIsKept
  ContextInv
  CallsAreAnswered
  WithinWindow
PROPERTIES
  RunsEnd
CHECK_DEADLOCK FALSE
