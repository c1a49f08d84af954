CONSTANTS
  User = {1, 2, 3}
  Garbage = 0
  Board <- TwoScores
  Deltas = {1, 3}
  TopNThreshold = 1
  RankCrossThreshold = 0
  Prefetch = 2
  MaxUpdates = 3
  MaxGarbage = 1
  MaxFaults = 2
SPECIFICATION Spec
INVARIANTS TypeOK NoFalseEntry TopIsAnnounced
CHECK_DEADLOCK FALSE
