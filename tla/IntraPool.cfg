SPECIFICATION Spec
CONSTANTS
  Callers = {c1, c2}
  Workers = {w1, w2}
  MaxN = 3
  MaxRuns = 2
  MaxSpurious = 1
  PanicThreads = {}
  NoThread = NoThread
SYMMETRY Symmetry
INVARIANTS ExactlyOnce NoUseAfterReturn OneDispatcher LeftIsExact IInv
PROPERTY ImplementsParallelFor
CHECK_DEADLOCK FALSE
