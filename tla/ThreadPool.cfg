SPECIFICATION FairSpec
CONSTANTS
  Threads = {t1, t2, t3}
  N = 6
  MaxValue = 1
  Value <- MCValue
  QSORT_GROUP_MIN_DIST = 2
  SIZE_MAX = 15
INVARIANTS
  TypeOK
  PopAccounting
  TerminationSound
  SomeoneAwake
  ExclusiveRanges
  PartitionsUndisturbed
  DisorderIsOutstanding
PROPERTIES
  ImplementsSortSpec
  Termination
