SPECIFICATION Spec
CONSTANTS
  Calls = {c1, c2, c3}
  EventLoop = loop
  Writers = {c1, c2, c3, loop}
  None = none
  Ids = {i1}
  Malformed = {}
  MaxInFlight = 2
  MaxCompleted = 2
  Retention = 2
  MaxTime = 2
  MaxRestarts = 1
SYMMETRY Symmetry
VIEW Distinguished
CHECK_DEADLOCK FALSE
INVARIANTS AtMostOnce ClaimsExclude
