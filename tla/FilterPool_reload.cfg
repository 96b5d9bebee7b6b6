SPECIFICATION Spec
CONSTANTS
  Threads = {t1, t2}
  Models = {m1, m2}
  Sizes = {s1}
  Addrs = {a1, a2}
  NoAddr = NoAddr
  MaxKeys = 2
INVARIANTS AppliesOwnWeights
CHECK_DEADLOCK FALSE
