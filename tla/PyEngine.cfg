CONSTANTS
  MaxSpawns = 2
  Threads = {main, other}
  Main = main
  NoThread = none
  MaxCloses = 1
  MaxInterrupts = 1
SPECIFICATION FairSpec
INVARIANTS
  OnlyRacesLose
  NoDeadUrl
  StoppedEngines
PROPERTY CallsReturn
CHECK_DEADLOCK FALSE
