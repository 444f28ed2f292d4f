SPECIFICATION RecordsSpec
CONSTANTS
  Devices = {d1, d2}
  Retention = 1
  PageSizes = {1}
  StartTimes = {0}
  EndTimes = {1}
  MaxRecords = 2
  MaxTime = 2
  MaxEdits = 2
PROPERTY ClearsWhatIsFiltered
CHECK_DEADLOCK FALSE
