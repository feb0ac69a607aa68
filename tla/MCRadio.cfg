SPECIFICATION HSpec
CONSTANTS
  None = None
  Talker = {"status"}
  GpsTimes = {1, 3}
  MaxMessages = 3
  Time <- MCTime
INVARIANT WholeMessage
PROPERTY Implements
CHECK_DEADLOCK FALSE
