CONSTANTS
  Threshold = 1
  Queries <- MCStar
  Tables <- MCTables
  Verdicts <- MCVerdicts
  Budgets = {0}
SPECIFICATION Spec
INVARIANT LayoutIsRight
