CONSTANTS
  one = one
  two = two
  Requests = {r1, r2}
  Pools = {one}
  Conns = {c1}
  c1 = c1
  Nobody = Nobody
  ConnsOf <- MCAnyName
  Protocol <- MCProtocol
  MaxConnections <- MCTwo
  MaxIdle <- MCOne
  MaxActive <- MCTwo
  MaxPending <- MCOne
  GlobalMax = 1
  Uploads = {"held", "done"}
SPECIFICATION FairSpec
INVARIANT CleanReuse
PROPERTIES LeaseReturns ShutdownDrains
CHECK_DEADLOCK FALSE
