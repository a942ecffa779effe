SPECIFICATION Spec
CONSTANTS
  Threads = {t1, t2, t3}
  Jobs = {j1, j2, j3, j4}
SYMMETRY ClientSymmetry
INVARIANTS
  TypeOK
  EnoughAwake
  ClosedWakesAll
  HandedOutOnce
PROPERTY ClosesWhenIdle
