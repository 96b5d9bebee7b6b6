SPECIFICATION StitchSpec
CONSTANTS
  Durations <- MCDurations
  Scores = {1, 4, 8}
  Modes <- MCModes
  ClampLow = 2
  ClampHigh = 7
  HalfThreshold = 5
  Rates = {0, 1}
  Quarters <- MCQuarters
INVARIANT NamesAreDistinct
CHECK_DEADLOCK FALSE
