CONSTANTS
  a = a
  b = b
  c = c
  d = d
  scan = scan
  size = size
  IPs = {a, b}
  Allow = {}
  Tasks = {t1}
  Rules = {scan}
  Threshold <- MCOnce
  Window <- MCWindow
  Shards = 1
  ShardOf <- MCOneShard
  MaxTracked = 2
  MaxBlocked = 1
  MaxPending = 2
  BatchSize = 1
  Temporary = 1
  Block = 3
  TrackAge = 2
  SweepEvery = 9
  BackoffMax = 2
  CountMax = 2
  Second = 1
  Lag = 0
  CommitBound = 2
  NoFile = NoFile
  Torn = Torn
  Fallible = {"sync"}
  MaxTime = 3
  MaxWall = 1
  LastViolation = 1
  MaxRestarts = 1
  MaxSteps = 0
SPECIFICATION FairSpec
PROPERTIES
  PendingResolves
  ShutdownStops
