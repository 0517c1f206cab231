CONSTANTS
  one = one
  two = two
  Requests = {r1, r2}
  Pools = {one, two}
  Conns = {c1, c2, c3}
  c1 = c1
  Nobody = Nobody
  ConnsOf <- MCOwnNames
  Protocol <- MCProtocol
  MaxConnections <- MCShared
  MaxIdle <- MCOne
  MaxActive <- MCShared
  MaxPending <- MCOne
  GlobalMax = 2
  Uploads = {"done"}
SYMMETRY MCSymmetry
SPECIFICATION Spec
INVARIANT SocketsBounded
PROPERTY NotCutShort
CHECK_DEADLOCK FALSE
