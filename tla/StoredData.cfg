SPECIFICATION LabSpec
CONSTANTS
  Page = {p, q}
  NoPage = NoPage
  MaxRecs = 6
  FpwChoices = {TRUE}
  SyncChoices = {TRUE, FALSE}
  MAX_RECS = 2
  MaxWritten = 4
  Calls = {"creat", "write", "fsyncTmp", "rename", "fsyncDir", "unlink", "trunc", "writeCfg", "fsyncCfg"}
  MaxSteps = 4
  DATA_BLOCKS = 2
  PAGES_PER_BLOCK = 2
  SpareBlocks = {1, 2}
  MaxRounds = 5
  BitcaskKey = {k1, k2}
  BitcaskValue = {v1, v2}
  MAX_ACTIVE = 1
  MAX_SEGS = 3
  Traffic = 2
  HashKey = {0, 1, 2, 5, 7}
  DUPLICATE_KEY = 1
  SKEW_BITS = 1
  Bits = 3
  MAX_GLOBAL_DEPTH = 2
  MAX_KEYS = 5
  DEFAULT_KEYS = 2
  Many = 2
  MAX_LINEAR_BUCKETS = 128
  Capacity = {2, 3}
  Initial = {1, 2}
  Percent = {50, 100}
  BtreeKey = {1, 2, 3, 4, 5, 6, 7, 8, 9, 10, 11}
  Cap = 3
  SeedSize = 10
  Thresholds = {50}
  Used = {1, 2, 3, 7, 11}
  AnyTime = FALSE
  DataPage = {x, y, z, w}
  RAM = 3
  PoolSlots = {1, 2}
  MaxLsn = 2
  BeFanout = 2
  BeLevels = 2
  NodeSizes = {3, 4}
  KEYS_PER_LEAF = 5
  MessageKey = {0, 1, 11}
  MAX_OPS = 4
  MAX_ORDERS = 6
  MAX_LINES = 6
  EndPoints = {0, 95, 145, 175, 225, 380, 445, 485, 505, 645, 910}
INVARIANTS TypeOK RedoPointSound RecoveredAll AckedDurable FirstTouchImaged StructuresSound RecoveryComplete
PROPERTIES KeepsPromise ActsAsMap
