SPECIFICATION Spec
CONSTANTS
  N = 5
  Value <- MCValue
  T_MAX <- MCT_MAX
  SIZEOF_T = 4
  LOW = 4
  Hosts <- MCHosts
  PROCS = 2
INVARIANTS
  TypeOK
  DivisionFits
  DisorderIsOutstanding
PROPERTY ImplementsSortSpec
