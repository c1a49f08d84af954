CONSTANTS
  a = a
  p = p
  q = q
  Client = {a}
  Post = {p, q}
  Invalid = {}
  RoomOf <- OneRoom
  BufferSize = 4
  MaxShown = 2
  MaxConns = 1
  MaxPosting = 2
  MayStall = {}
SPECIFICATION Spec
INVARIANT CountSettles
CHECK_DEADLOCK FALSE
