CONSTANTS
  r1 = r1 r2 = r2 r3 = r3
  Requests = {r1, r2}
  LockOf <- MCBoth
  Statements = 1
  MaxLosses = 0
SPECIFICATION Spec
INVARIANT OneUser
