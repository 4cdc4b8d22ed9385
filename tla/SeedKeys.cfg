SPECIFICATION SeedSpec
CONSTANTS
  Schemas <- SomeSchemas
  Excluded = {"cache"}
  Id = {1, 2, 3}
  Row = {"row"}
  Content <- Contents
  BatchRows = 2
  MaxSeeds = 2
INVARIANTS
  KeysAreAhead
CHECK_DEADLOCK FALSE
