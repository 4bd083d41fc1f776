CONSTANTS
  AckBits = 4
  MaxSeq = 7
  LocalWindow = 3
  PayloadBytes = 1
  FrameBytes = 2
  MaxBufferedBytes = 8
  MaxReleased = 2
  MaxItems = 10
  Direction = "response"
SPECIFICATION Spec
INVARIANTS WindowRespected ReleasedNearby SpanBounded BudgetRespected WorkConserving
CHECK_DEADLOCK FALSE
