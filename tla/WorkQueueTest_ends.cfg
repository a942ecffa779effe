SPECIFICATION FairSpec
CONSTANTS
  Threads = {0, 1, 2, 3}
  TEAM = 4
  ITERATIONS = 12
PROPERTY LoopEnds
