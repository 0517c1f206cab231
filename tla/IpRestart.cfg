CONSTANTS
  a = a
  b = b
  c = c
  d = d
  scan = scan
  size = size
  IPs = {a, b}
  Allow = {}
  Tasks = {t1}
  Rules = {scan}
  Threshold <- MCOnce
  Window <- MCWindow
  Shards = 1
  ShardOf <- MCOneShard
  MaxTracked = 2
  MaxBlocked = 1
  MaxPending = 2
  BatchSize = 2
  Temporary = 2
  Block = 4
  TrackAge = 2
  SweepEvery = 9
  BackoffMax = 2
  CountMax = 2
  Second = 2
  Lag = 1
  CommitBound = 1
  NoFile = NoFile
  Torn = Torn
  Fallible = {"sync"}
  MaxTime = 3
  MaxWall = 4
  LastViolation = 1
  MaxRestarts = 1
  MaxSteps = 1
SPECIFICATION Spec
INVARIANTS
  DiskLoadable
  DurableSurvivesCrash
  RestartKeepsBlocks
  BoundedRestriction
