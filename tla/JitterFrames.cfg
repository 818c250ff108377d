SPECIFICATION Spec
CONSTANTS
  Modulus = 64
  Capacity = 8
  MaxMisorder = 9
  Prefetch = 1
  FrameSize = 3
  None = None
  First = 57
  MaxSent = 26
  Window = 2
  MaxLost = 1
  Jumps = {20, 48}
PROPERTY FramesWhole
CHECK_DEADLOCK FALSE
