SPECIFICATION HSpec
CONSTANTS
  Intervals = {2, 3}
  SetupTime = 3
  SetupDelay = 3
  MaxAge = 14
  Shortest = 2
  Longest = 12
  MaxWindow = 18
INVARIANT Paced
INVARIANT NeverLate
PROPERTY Regular
