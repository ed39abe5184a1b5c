SPECIFICATION Spec
CONSTANTS
  Messages = {1, 2, 3, 4, 5, 6}
  Chan <- MCChan
  Time <- MCTime
  Author <- MCAuthor
  Images = {2}
  Parts <- MCParts
  KnownAs <- MCKnownAs
  Second <- MCSecond
  Rank <- MCRank
  Weight <- MCWeight
  Gap = 2
  MaxTokens = 2
  BatchSize = 1
  MaxScan = 3
  Calls = {c1, c2}
  Sinces = {0, 3}
  Unset = unset
  Noise = {}
  Chars <- MCChars
  LongNumbers = {3}
  UserIds = {"ann", "bob"}
  ContextN = 2
  GapSeconds = 3
  MergeSeconds = 1
  MinChars = 1
  EvalOneIn = 2
SYMMETRY MCSymmetry
INVARIANTS
  ChunksAreConversations
  IndexInv
  SearchesAreTrue
  DatasetIsSound
PROPERTIES
  NothingLeavesIndex
CHECK_DEADLOCK FALSE
