SPECIFICATION Spec
CONSTANTS
  Threads = {0, 1}
  TEAM = 2
  ITERATIONS = 4
INVARIANT AssertionsHold
