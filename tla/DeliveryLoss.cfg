SPECIFICATION Spec
CONSTANTS
  Publishers = {p1}
  MaxMessages = 1
  MaxRetries = 1
  MaxFaults = 0
  HasBackup = FALSE
INVARIANT
  AtLeastOnce
