SPECIFICATION FairSpec
CONSTANTS
  Sizes = {3, 5}
  Value <- MCValue
  LOW = 2
  RUNNER_THREADS_NUM = 2
  RSORT_GROUP_MIN_DIST = 4
  RSORT_MAX_BYTE_THRESHOLD = 1
INVARIANTS
  TypeOK
  PartsApart
  PlacedBehindHeads
  ReturnsSorted
PROPERTIES
  KeepsElements
  Termination
