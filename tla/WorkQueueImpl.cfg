SPECIFICATION Spec
CONSTANTS
  Threads = {t1, t2, t3}
  Jobs = {j1, j2, j3}
  NULL = NULL
SYMMETRY ImplSymmetry
INVARIANTS
  TypeOK
  ListWellFormed
  HeadAsserted
PROPERTY ImplementsQueueClients
