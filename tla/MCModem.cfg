SPECIFICATION Spec
CONSTANTS
  Frames <- MCFrames
  TxRoom = 2
  RxRoom = 2
  FrameBuf = 4
  MinFrame = 2
  Preamble = 2
  Trailer = 1
  MaxNoise = 1
INVARIANTS TypeOK LostOnlyIfHit InOrder Transparent
PROPERTY Drains
CHECK_DEADLOCK FALSE
