CONSTANTS
  one = one
  two = two
  Requests = {r1, r2, r3, r4}
  Pools = {one}
  Conns = {c1, c2}
  c1 = c1
  Nobody = Nobody
  ConnsOf <- MCAnyName
  Protocol <- MCProtocol
  MaxConnections <- MCTwo
  MaxIdle <- MCTwo
  MaxActive <- MCMany
  MaxPending <- MCTwo
  GlobalMax = 2
  Uploads = {"done"}
SYMMETRY MCSymmetry
SPECIFICATION Spec
INVARIANT NoLostWakeup
CHECK_DEADLOCK FALSE
