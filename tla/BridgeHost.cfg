CONSTANTS
  EventLoop = EventLoop
  Calls = {c1}
  Callers = {c1, EventLoop}
  MaxTurns = 3
  QueueSlots = 1
  MaxCrashes = 1
SPECIFICATION FairSpec
INVARIANTS FilesInOrder ServedIsPublished OneReply SuccessIsExecuted
PROPERTIES DeadRouteIsReplaced ConnectionLossEnds
CHECK_DEADLOCK FALSE
