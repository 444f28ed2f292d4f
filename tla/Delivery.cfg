SPECIFICATION FairSpec
CONSTANTS
  Publishers = {p1}
  MaxMessages = 2
  MaxRetries = 2
  MaxFaults = 1
  HasBackup = TRUE
INVARIANTS
  LossHasACause
  HandOversBounded
PROPERTIES
  LifeSpec
  Arrives
