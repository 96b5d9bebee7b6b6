SPECIFICATION MCSpec
CONSTANTS
  Callers = {c1}
  Clips <- FourClips
  FrameCounts = {400, 500}
  Pack = 2
  MaxWorkers = 2
  FileCounts = {1, 2}
  MaxCalls = 1
  NoResult = NoResult
  Failed = Failed
  WindowCounts = {0, 1, 5, 7}
  ThreadCounts = {1, 2, 3}
  StaticMax = 2
  QueuePack = 2
  MaxThreads = 3
  Files = {f1, f2}
  PoolThreads = 2
  Sessions = {s1}
  ItemCounts = {3}
  BatchSizes = {2}
  Stems <- OtherStems
  Facts <- SomeFacts
  Jobs = {1, 2}
  MaxJobs = 2
  t1 = t1  t2 = t2  p1 = p1
  PanicCallers = {c1, c2}
  PanicWorkers = {w1, w2}
  PanicThreads = {c1, c2, w1}
  MaxN = 2
  MaxRuns = 1
  MaxSpurious = 1
  NoThread = NoThread
  Processes = {p1}
  Fetchers = {t1, t2}
  ProcessOf <- OneProcess
  Signatures = {"valid", "wrong", "malformed"}
  Size = 2
  Cap = 3
  MaxFetches = 1
  MaxCrashes = 1
  NoFile = NoFile
  Manifests <- MCManifests
  PldaIds <- MCPldaIds
  DefaultMaxBytes = 4
  Lengths = {0, 5}
  MaxEdits = 1
  Stages = {s1, s2}
  AdapterNames = {"powerset-v1", "latest", "v1"}
  MaxRegistrations = 3
INVARIANTS ClipsKeepTheirSlots RowsAreTheWindows SessionsAreConserved FilesAsSerial PanicsAreContained OkMeansVerified ModelsAreSound
PROPERTIES EmbedRestoresWidth CacheOnlyBecomesGood AllCallsEnd
CHECK_DEADLOCK FALSE
