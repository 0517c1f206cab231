CONSTANTS
  a = a
  b = b
  c = c
  d = d
  scan = scan
  size = size
  IPs = {a, b, c, d}
  Allow = {d}
  Tasks = {t1, t2}
  Rules = {scan}
  Threshold <- MCTwice
  Window <- MCWindow
  Shards = 2
  ShardOf <- MCTwoShards
  MaxTracked = 3
  MaxBlocked = 1
  MaxPending = 1
  BatchSize = 1
  Temporary = 1
  Block = 2
  TrackAge = 1
  SweepEvery = 1
  BackoffMax = 2
  CountMax = 2
  Second = 1
  Lag = 0
  CommitBound = 1
  NoFile = NoFile
  Torn = Torn
  Fallible = {}
  MaxTime = 2
  MaxWall = 1
  LastViolation = 2
  MaxRestarts = 0
  MaxSteps = 0
SYMMETRY MCSymmetry
SPECIFICATION Spec
INVARIANT CapacityRespected
