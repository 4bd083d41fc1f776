CONSTANTS
  InputCapacity = 2
  BodyCapacity = 2
  EventCapacity = 1
  MaxStreamCredits = 2
  MaxUploads = 2
  MaxChunks = 2
SPECIFICATION Spec
INVARIANTS NoTruncatedUpload
CHECK_DEADLOCK FALSE
