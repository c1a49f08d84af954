CONSTANTS
  User = {1, 2}
  Region = {"eu", "us"}
  Garbage = "garbage"
  PerRegionN = 1
  GlobalTopN = 1
  Prefetch = 2
  Deltas <- SmallDeltas
  MaxUpdates = 3
  MaxFaults = 1
  MaxEvents = 4
  WriterPrefetch = 2
  Malformed = {2}
  Rejected = {3}
  MaxWriterFaults = 2
SPECIFICATION ConsumersSpec
INVARIANTS TypeOK MergeExact WriterTypeOK NothingRoutedIsLost CopiesBounded
PROPERTIES NeverInvents Converges ImplementsEventLog BacklogDrains
CHECK_DEADLOCK FALSE
