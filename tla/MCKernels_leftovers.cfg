SPECIFICATION MCSpec
CONSTANTS
  PN = 8
  NR16 = 4
  NR = 2
  MR = 2
  WAVE = 2
  MAX_TILES = 2
  SPLIT_OC = 4
  Shapes <- LeftoverShapes
  Nets <- MCNets
  Inputs <- MCInputs
  MaxCalls = 2
  Threads = {t1, t2}
  Models = {m1}
  Layers = {l1, l2}
  Shape <- SameShape
  Addrs = {a1, a2, a3}
  NoAddr = NoAddr
  PackCap = 1
  FilterModels = {m1}
  FilterAddrs = {a1, a2}
  FilterSizes = {s1, s2}
  MaxKeys = 2
  POOL_SLOTS = 1
  LAYERS = 4
INVARIANT ConvolvesEveryOutput
CHECK_DEADLOCK FALSE
