SPECIFICATION Spec
CONSTANTS
  Width = 5
  Mantissa = 2
  Rank <- Order
  Configs <- AllConfigs
  Statement <- Statements
  MaxStmts = 2
  MaxEntries = 2
  Schemas <- Shop
  Excluded = {"cache"}
  Id = {1, 2, 3, 4, 5}
  Row <- Rows
  Content <- Contents
  BatchRows = 2
  MaxSeeds = 2
INVARIANTS
  TablesAreSnapshots
  SeedIsFaithful
  NeverCollides
  VerdictIsRight
  SameCodeMatches
  AllMatchMeansSameData
CHECK_DEADLOCK FALSE
