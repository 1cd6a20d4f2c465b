SPECIFICATION Spec
CONSTANTS
  Texts <- MCTexts
  Files <- MCFiles
  Writes = {"w1", "w2", "w3", "w4", "w5"}
  Refused = {"w5"}
  Blocks <- MCBlocks
  MaxLosses = 2
INVARIANTS
  SplitMatches
  ExitTells
  ExplainForOne
  WholeUnlessWarned
