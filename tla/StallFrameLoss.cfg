CONSTANTS
  AckBits = 4
  MaxSeq = 6
  LocalWindow = 4
  PayloadBytes = 1
  FrameBytes = 1
  MaxBufferedBytes = 20
  MaxReleased = 1
  MaxItems = 6
  Direction = "response"
  Capacity = 4
  MaxHeld = 12
  AckStride = 4
  MaxFrameLosses = 1
  MaxAckLosses = 0
SPECIFICATION Spec
PROPERTIES ClosedBodyCompletes
CHECK_DEADLOCK FALSE
