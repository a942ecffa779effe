SPECIFICATION Spec
CONSTANTS
  N = 12
  Value = {0}
  Methods = {"HOARE"}
  SIZE_MAX = 31
INVARIANT StackKeepsBounds
