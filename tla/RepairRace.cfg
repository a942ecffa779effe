SPECIFICATION Spec
CONSTANTS
  Sizes = {4}
  Value <- MCValue
  LOW = 2
  RUNNER_THREADS_NUM = 2
  RSORT_GROUP_MIN_DIST = 1
  RSORT_MAX_BYTE_THRESHOLD = 0
INVARIANT RepairsItsOwnBucket
