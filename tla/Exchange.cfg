CONSTANTS
  Worlds = {"calm", "rough"}
  MaxData = 1
  AckStride = 2
  BodySlots = 1
  MaxRotations = 1
SPECIFICATION FairSpec
INVARIANTS OkIsConfirmed DeliveredIsReceived TruncationNeedsRemoval
PROPERTIES ClientEnds BridgeEnds EventLoopIsFreed UndisturbedSucceeds
CHECK_DEADLOCK FALSE
