CONSTANTS
  a = a
  p = p
  x = x
  q = q
  Client = {a}
  Post = {p, q, x}
  Invalid = {x}
  RoomOf <- OneRoom
  BufferSize = 1
  MaxShown = 2
  MaxConns = 2
  MaxPosting = 1
  MayStall = {}
SPECIFICATION Spec
INVARIANTS TypeOK RegistryExact NoRepeat CountSettles
SYMMETRY PostSymmetry
CHECK_DEADLOCK FALSE
