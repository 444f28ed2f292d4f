SPECIFICATION FairSpec
CONSTANTS
  Kinds = {"tcp"}
  MaxSocks = 2
  MaxLosses = 1
  MaxTimes = 2
  Callers = {"collector"}
  Slaves = {1}
  MaxRequests = 1
PROPERTIES
  AutoReconnect
CHECK_DEADLOCK FALSE
