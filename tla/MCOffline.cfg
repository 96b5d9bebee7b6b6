SPECIFICATION MCSpec
CONSTANTS
  Durations <- MCDurations
  Scores = {1, 4, 8}
  Modes <- MCModes
  ClampLow = 2
  ClampHigh = 7
  HalfThreshold = 5
  Rates = {0, 1}
  Quarters <- MCQuarters
INVARIANTS ClustersAreSound AssignmentsAreBest ScenesAreRecovered FilesComeOut WordsAreTold RatesAreFair AudioIsWhole DoorsKeepTheirWord
CHECK_DEADLOCK FALSE
