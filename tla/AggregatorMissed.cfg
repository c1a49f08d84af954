CONSTANTS
  User = {1, 2}
  Region = {"eu", "us"}
  Garbage = "garbage"
  PerRegionN = 1
  GlobalTopN = 1
  Prefetch = 2
  Deltas = {1}
  MaxUpdates = 2
  MaxFaults = 1
SPECIFICATION LiveSpec
PROPERTY CorrectEvenIfMissed
CHECK_DEADLOCK FALSE
