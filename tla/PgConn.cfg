CONSTANTS
  r1 = r1 r2 = r2 r3 = r3
  Requests = {r1, r2}
  LockOf <- MCHttpOnly
  Statements = 2
  MaxLosses = 1
SPECIFICATION FairSpec
INVARIANTS
  NoLeak
  SuccessIsReal
  OldLossHealed
  RunAtMostTwice
PROPERTY EveryRequestEnds
