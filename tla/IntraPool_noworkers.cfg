SPECIFICATION Spec
CONSTANTS
  Callers = {c1, c2}
  Workers = {}
  MaxN = 3
  MaxRuns = 1
  MaxSpurious = 0
  PanicThreads = {}
  NoThread = NoThread
INVARIANT ExactlyOnce
CHECK_DEADLOCK FALSE
