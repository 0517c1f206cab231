CONSTANTS
  a = a
  b = b
  c = c
  x = x
  y = y
  w = w
  NoPair = NoPair
  Ids = {a, b, c}
  Names = {x, y, w}
  Wild = {w}
  Managed = {a, b}
  Rank <- MCRank
  Domains <- MCDomains
  Default = a
  Versions = {0, 1, 2, 3}
  Disks <- MCDisks
  MaxFaults = 2
  MaxStops = 2
SPECIFICATION FairSpec
INVARIANTS StartLoads ChallengeServed
PROPERTIES KeepsServing DueIsRenewed
CHECK_DEADLOCK FALSE
