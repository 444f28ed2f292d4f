SPECIFICATION FairSpec
CONSTANTS
  MaxCollectors = 2
  Interval = 2
  Modes = {"timer", "continuous"}
INVARIANTS
  OrphansAreRestarts
  CollectingIsTrue
  RunningHasAClient
PROPERTIES
  StoppedComesToRest
  KeepsCollecting
