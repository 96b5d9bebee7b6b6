SPECIFICATION Spec
CONSTANTS
  Processes = {p1, p2}
  Threads = {p1, p2}
  ProcessOf <- OwnProcess
  Signatures = {"valid"}
  Size = 2
  Cap = 3
  MaxCalls = 1
  MaxCrashes = 0
  NoThread = NoThread
  NoFile = NoFile
INVARIANT OkMeansVerified
CHECK_DEADLOCK FALSE
