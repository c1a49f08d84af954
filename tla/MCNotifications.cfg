CONSTANTS
  User = {1}
  Garbage = 0
  Board <- NoScores
  Deltas = {1}
  TopNThreshold = 1
  RankCrossThreshold = 0
  Prefetch = 2
  MaxUpdates = 2
  MaxGarbage = 0
  MaxFaults = 1
  Conn = {c1, c2}
  ChanSize = 1
  MayStall = {c1}
  MaxBreaks = 1
SPECIFICATION Spec
INVARIANTS HubTypeOK OneReader RegistryExact NothingSkipped NoSpuriousNews
PROPERTY WatchersLearn
CHECK_DEADLOCK FALSE
