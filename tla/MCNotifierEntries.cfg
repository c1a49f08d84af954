CONSTANTS
  User = {1, 2, 3}
  Garbage = 0
  Board <- TwoScores
  Deltas = {1, 3}
  TopNThreshold = 1
  RankCrossThreshold = 0
  Prefetch = 2
  MaxUpdates = 3
  MaxGarbage = 0
  MaxFaults = 0
SPECIFICATION Spec
INVARIANT LastEntryPublished
CHECK_DEADLOCK FALSE
