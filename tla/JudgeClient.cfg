CONSTANTS
  Asked <- MCAsked
  BatchSize = 2
  Concurrency = 2
  MaxRetries = 1
SPECIFICATION FairSpec
INVARIANTS
  PackingMatches
  AnsweredByOwnRow
  AllOrError
  CauseReported
  LoadBounded
  ProgressExact
PROPERTIES
  JudgeReturns
  KeepsPromise
