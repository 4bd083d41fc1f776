CONSTANTS
  AckBits = 3
  MaxSeq = 5
  LocalWindow = 2
  PayloadBytes = 1
  FrameBytes = 1
  MaxBufferedBytes = 20
  MaxReleased = 1
  MaxItems = 5
  Direction = "request"
  Capacity = 2
  MaxHeld = 1
  AckStride = 2
  MaxFrameLosses = 1
  MaxAckLosses = 1
SPECIFICATION Spec
INVARIANTS CompletionIsDelivery DeliveredInOrder
PROPERTIES FramesArrive CompletesWithoutLoss ReadingResumes
CHECK_DEADLOCK FALSE
