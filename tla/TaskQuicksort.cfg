SPECIFICATION FairSpec
CONSTANTS
  Threads = {t1, t2}
  N = 5
  MaxValue = 1
  Value <- MCValue
  QSORT_GROUP_MIN_DIST = 2
  SIZE_MAX = 15
INVARIANTS
  TypeOK
  FramesOutliveTasks
  ExclusiveRanges
  DisorderIsOutstanding
PROPERTIES
  ImplementsSortSpec
  Termination
