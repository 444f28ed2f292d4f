SPECIFICATION ReadingsSpec
CONSTANTS
  Points <- MCPoints
  Numbers = {0, 1, 2}
  Limit = 1
  Window = 2
  Percent = 100
  Setups <- MCSetups
  MaxEvents = 1
  MaxRounds <- MCRounds
  Bytes = {13, 129}
  Slave = 17
  Links <- MCLinks
INVARIANTS
  ReadsTrue
  NoiseIsNeverRead
  AggregatesAreWhole
  OfferedOnce
PROPERTIES
  DropsExactlyRepeats
CHECK_DEADLOCK FALSE
