CONSTANTS
  AckBits = 3
  MaxSeq = 6
SPECIFICATION Spec
INVARIANTS SnapshotIsExact
PROPERTIES AcknowledgementsOnlyGrow
