CONSTANTS
  MaxSpawns = 2
  MaxCloses = 1
SPECIFICATION Spec
INVARIANT CloseStopsEngine
CHECK_DEADLOCK FALSE
