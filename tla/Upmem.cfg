SPECIFICATION Spec
CONSTANTS
  NB_DPUS = 2
  DPU_BUFFER_SIZE = 4
  MAX_RANDOM = 3
  SIZE_MAX = 15
INVARIANT MergedSoFar
PROPERTY ImplementsSortSpec
