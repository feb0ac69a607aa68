SPECIFICATION Spec
CONSTANTS
  None = None
  Talker = {"status"}
  GpsTimes = {1, 3}
  MaxMessages = 3
INVARIANT NoAssert
CHECK_DEADLOCK FALSE
