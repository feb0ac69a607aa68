SPECIFICATION Spec
CONSTANTS
  Messages = {1, 2, 3, 4, 5}
  Indexes <- MCIndexes
  Telemetry = {1, 2, 4, 5}
  NoPosition = {1}
  Course <- MCCourse
  MaxRequests = 2
  MaxLost = 1
  MaxLoads = 1
INVARIANT TypeOK
INVARIANT OneRowEach
CHECK_DEADLOCK FALSE
PROPERTY ShownInTheEnd
PROPERTY BarCatchesUp
