CONSTANTS
  a = a
  b = b
  c = c
  d = d
  scan = scan
  size = size
  IPs = {a}
  Allow = {}
  Tasks = {t1, t2}
  Rules = {scan}
  Threshold <- MCOnce
  Window <- MCWindow
  Shards = 1
  ShardOf <- MCOneShard
  MaxTracked = 2
  MaxBlocked = 1
  MaxPending = 2
  BatchSize = 2
  Temporary = 2
  Block = 3
  TrackAge = 2
  SweepEvery = 9
  BackoffMax = 2
  CountMax = 2
  Second = 1
  Lag = 0
  CommitBound = 1
  NoFile = NoFile
  Torn = Torn
  Fallible = {"sync"}
  MaxTime = 4
  MaxWall = 1
  LastViolation = 3
  MaxRestarts = 0
  MaxSteps = 0
SYMMETRY MCSymmetry
SPECIFICATION Spec
INVARIANTS
  AdmittedUnlessPromoted
PROPERTIES
  NoEarlyRelease
