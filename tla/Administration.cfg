SPECIFICATION Spec
CONSTANTS
  Names = {"admin", "op"}
  Roles <- MCRoles
  MaxFailed = 2
  Lockout = 1
  SessionTimeout = 1
  Devices = {d1}
  MaxChanges = 3
CHECK_DEADLOCK FALSE
INVARIANTS
  LockoutHolds
  AdminRemains
  NothingIsLost
  SecretsSurvive
  RunningIsConfigured
