CONSTANTS
  Worlds = {"early"}
  MaxData = 1
  AckStride = 2
  BodySlots = 1
  MaxRotations = 0
SPECIFICATION FairSpec
PROPERTIES UndisturbedSucceeds
CHECK_DEADLOCK FALSE
