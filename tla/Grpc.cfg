SPECIFICATION Spec
CONSTANTS
  Calls = {r1, r2, r3}
  Conns = {c1, c2}
  NoConn = NoConn
  MaxStreams = 2
INVARIANTS OneConnection FreshConnection
PROPERTIES CallsProceed ShutdownQuiet
CHECK_DEADLOCK FALSE
