CONSTANTS
  User = {1, 2, 3}
  Scores <- SmallScores
  MaxWrites = 3
  Request = {r1}
  Counts <- SmallCounts
  Snap = {s1, s2}
  Reader = {h1, h2}
  TopNRows = 3
  Limit = 2
  MaxNow = 4
  MaxFaults = 1
SYMMETRY Symmetry
SPECIFICATION RequestsSpec
INVARIANTS TypeOK WholeSnapshot NeverBack ReadsTypeOK QuietExact RegionalFound ListsOfOneMoment
CHECK_DEADLOCK FALSE
