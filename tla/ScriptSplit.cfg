SPECIFICATION Spec
CONSTANTS
  Texts <- MCFunction
  Files <- MCNoFiles
  Writes = {"w1", "w3", "w4"}
  Refused = {}
  Blocks = {}
  MaxLosses = 0
INVARIANTS
  QuotedNotRun
