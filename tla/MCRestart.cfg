SPECIFICATION RestartSpec
CONSTANTS
  Pages = 3
  Chunk = 2
  Data = {1}
  Torn = 0
  Files <- MCFiles
  NoFile <- MCNoFile
  MaxBoots = 1
INVARIANT Outcome
INVARIANT InPlace
INVARIANT NoNeedlessWrite
INVARIANT NoPowerLoop
PROPERTY AlwaysStarts
PROPERTY OvercurrentCut
