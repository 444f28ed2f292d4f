SPECIFICATION FairSpec
CONSTANTS
  Devices = {d1, d2}
  Checkers = {c1, c2}
  Keepers = {k1, k2}
  Timeout = 1
CHECK_DEADLOCK FALSE
INVARIANTS
  ExitIsClean
  NoFalseAlarm
  OneRestart
  OldKeeperHasACause
PROPERTIES
  HungIsRestarted
