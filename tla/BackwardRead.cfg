CONSTANTS
  BatchSizeHint = 0
  MinBatch = 2
  TimeOf <- Distinct
  MaxLast = 8
  MaxTail = 64
  Events = {"apiErr", "readErr", "ctx", "rotate"}
SPECIFICATION FairBackwardSpec
INVARIANTS Contiguous ReachesBeginning
PROPERTIES EndsUnlessRotated
