CONSTANTS
  Conns = {c1, c2, c3}
  Requests = {r1, r2}
  NoConn = NoConn
  Absent = {"cf"}
  MaxConnections = 2
  MaxHandshakes = 1
  MaxRequests = 1
SPECIFICATION FairSpec
INVARIANTS RequestsCovered LastOut
PROPERTIES ManagerLossNoticed ShutdownEnds
CHECK_DEADLOCK FALSE
