SPECIFICATION ScreensSpec
CONSTANTS
  Devices = {d1, d2}
  Retention = 1
  PageSizes = {1, 2}
  StartTimes = {1}
  EndTimes = {1}
  MaxRecords = 3
  MaxTime = 2
  MaxEdits = 1
  Sources = {d1, d2}
  PointNames = {p}
  MaxSamples = 2
  MaxGestures = 2
  Loggers = {t1, t2}
  Levels = {10, 20}
  MaxBuffer = 1
  MaxEntries = 3
  MaxClicks = 1
  Secured = TRUE
  Machines = {d1, d2}
  MaxMonitored = 4
  Subscribers = {d1, d2}
  Topics = {s1, s2}
  MaxMessages = 2
  MaxPresses = 3
  MaxOpen = 2
  MaxChanges = 2
INVARIANTS
  HistoryIsWhole
  ShownIsTrue
  ShownOnceOrLate
PROPERTIES
  LatestIsShown
  MonitorCatchesUp
CHECK_DEADLOCK FALSE
