SPECIFICATION BtreeSpec
CONSTANTS
  BtreeKey = {1, 2, 3, 4, 5, 6}
  Cap = 3
  SeedSize = 6
  Thresholds = {50}
  Used = {1, 2, 3, 4, 5, 6}
  AnyTime = TRUE
INVARIANT OnlyEmptyDeleted
