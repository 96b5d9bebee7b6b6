SPECIFICATION FlagsSpec
CONSTANTS
  Durations <- MCDurations
  Scores = {1, 4, 8}
  Modes <- MCModes
  ClampLow = 2
  ClampHigh = 7
  HalfThreshold = 5
  Rates = {0, 1}
  Quarters <- MCQuarters
INVARIANT AsNormBuilds
CHECK_DEADLOCK FALSE
