SPECIFICATION ClockSpec
CONSTANTS
  Second = 2
  Late = 1
  MaxDelay = 2
  MaxLag = 60
INVARIANT NeverAhead
INVARIANT FixFresh
PROPERTY CatchesUp
