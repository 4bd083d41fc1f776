CONSTANTS
  AckBits = 3
  MaxSeq = 6
  LocalWindow = 2
  PayloadBytes = 1
  FrameBytes = 1
  MaxBufferedBytes = 20
  MaxReleased = 2
  MaxItems = 6
  Direction = "request"
  Capacity = 2
  MaxHeld = 4
  AckStride = 2
SPECIFICATION Spec
INVARIANTS ReleasedIsRecorded ReceiverNeverFails
PROPERTIES ImplementsStream
CHECK_DEADLOCK FALSE
