SPECIFICATION Spec
CONSTANTS
  N = 5
  MaxValue = 3
  Value <- MCValue
  BYTE_VALUES = 2
  PASSES = 2
  SIZE_MAX = 31
INVARIANTS
  KeepsElements
  PartitionsSplit
  SortsRange
