CONSTANTS
  InputCapacity = 1
  BodyCapacity = 2
  EventCapacity = 1
  MaxStreamCredits = 2
  MaxUploads = 2
  MaxChunks = 4
SPECIFICATION FairSpec
INVARIANTS TypeOK UploadCreditBounded ResponseCreditBounded ClosedIsWhole SuccessReachesPage UploadEndsWhole
PROPERTIES EndedStreamIsReleased StreamSettles
CHECK_DEADLOCK FALSE
