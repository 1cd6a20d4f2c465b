CONSTANTS
  MaxSpawns = 3
  MaxCloses = 1
SPECIFICATION FairSpec
INVARIANTS
  SpawnsShared
  FailureNotKept
PROPERTIES
  StartSettles
  CloseReturns
  EnginesEndWithHost
CHECK_DEADLOCK FALSE
