CONSTANTS
  a = a
  p = p
  q = q
  Client = {a}
  Post = {p, q}
  Invalid = {}
  RoomOf <- OneRoom
  BufferSize = 1
  MaxShown = 2
  MaxConns = 1
  MaxPosting = 2
  MayStall = {a}
SPECIFICATION LiveSpec
INVARIANTS NoSilentLoss
PROPERTIES PostsAreAnswered DroppedReaderEnds
CHECK_DEADLOCK FALSE
