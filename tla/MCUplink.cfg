SPECIFICATION HSpec
CONSTANTS
  Keys = {1, 2}
  Calls = {1, 2}
  BadCalls = {2}
  MaxInterval = 3
  MaxSeq = 4
  Loads <- MCLoads
  Stored <- MCStored
  MaxHeard = 5
  MaxBoots = 2
INVARIANT OkayMeansDone
INVARIANT NoMixLeft
PROPERTY ExecutedOnce
CHECK_DEADLOCK FALSE
