CONSTANTS
  s1 = s1 s2 = s2 k1 = k1 k2 = k2 v1 = v1
  Sessions = {s1, s2}
  Keys = {k1, k2}
  Values = {v1}
  RowLists <- MCRowLists
  MaxRows = 3
  MaxStatements = 2
SPECIFICATION Spec
SYMMETRY MCSymmetry
INVARIANTS
  AnswersGenuine
  StoreGenuine
  WarmNeverAsked
  SecondRunFree
CHECK_DEADLOCK FALSE
