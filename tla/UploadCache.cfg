SPECIFICATION FairSpec
CONSTANTS
  NoConfig = NoConfig
  NoCall = NoCall
  Devices = {d1}
  Configs <- MCConfigs
  Callers = {c1, c2}
  Second = c2
  MaxWorkers = 2
  MaxRows = 2
  MaxFaults = 1
  BatchLimit = 1
  AgeCap = 2
ACTION_CONSTRAINT StaysInBudget
INVARIANTS
  NoSilentLoss
  OneActiveWorker
  CapacityBound
PROPERTIES
  DeadLetterIsFinal
  NoEndlessRetry
