SPECIFICATION SortedSpec
CONSTANTS
  Calls = {c1, c2}
  EventLoop = loop
  Writers = {c1, c2, loop}
  None = none
  Ids = {i1, i2}
  Malformed = {i2}
  MaxInFlight = 1
  MaxCompleted = 1
  Retention = 2
  MaxTime = 0
  MaxRestarts = 1
CHECK_DEADLOCK FALSE
INVARIANTS RecordedIsDurable
PROPERTIES EverythingEnds
