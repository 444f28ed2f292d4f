SPECIFICATION FieldSpec
CONSTANTS
  Kinds = {"rtu", "custom", "tcp", "rtu_over_tcp"}
  MaxSocks = 2
  MaxLosses = 1
  MaxTimes = 2
  Callers = {"collector", "trigger"}
  Slaves = {1, 2}
  MaxRequests = 2
  Addresses = {a1, a2}
  MaxConnections = 2
  MaxAccepts = 3
INVARIANTS
  AnswersAreOwnOrLate
  ConnectionsHaveACause
PROPERTIES
  Recovers
CHECK_DEADLOCK FALSE
