SPECIFICATION LinkFairSpec
CONSTANTS
  MaxClients = 2
  MaxLoops = 2
  SlowConnack = FALSE
INVARIANTS
  ReconnectingHasALoop
PROPERTY
  LinkRecovers
