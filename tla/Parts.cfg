SPECIFICATION PartsSpec
CONSTANTS
  Content = {c1, c2, c3}
  NoFile = NoFile
  Torn = Torn
  Fallible = {"clean", "serialize", "create", "write", "rename", "sync", "unlink"}
  Alice = Alice
  Bob = Bob
  Edge = Edge
  App = App
  Files = Files
  Nobody = Nobody
  Missing = Missing
  Bad = Bad
  Versions = {0, 1}
  MaxFaults = 2
  MaxStops = 2
  Requests <- MCRequests
  Tables <- MCTables
  NetworkSets <- MCNetworkSets
  HealthPeers <- MCHealthPeers
  Payloads <- MCPayloads
  Maximum = 4
  MaxControl = 1
INVARIANTS
  OneTemporary
  ServedIsKept
  RoutedRight
  OnlyOffendersBlocked
  JudgedAsWhole
  DeliversWhole
PROPERTIES
  ImplementsAtomicFile
  DueIsRefreshed
CHECK_DEADLOCK FALSE
