SPECIFICATION UpgradeSpec
CONSTANTS
  MaxFrames = 2
  Protocols = {"chat", "feed"}
INVARIANTS UpgradeTypeOK InOrder CloseTold Accountable
PROPERTY RelayEnds
CHECK_DEADLOCK FALSE
