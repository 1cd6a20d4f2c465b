CONSTANTS
  Threshold = 1
  Queries <- MCQueries
  Tables <- MCTables
  Verdicts <- MCVerdicts
  Budgets = {0, 2}
SPECIFICATION Spec
INVARIANTS
  ResultAsPostgres
  OnlyFilteredJudged
  LimitJudged
  BudgetBeforeCall
  ExplainCovers
