SPECIFICATION Spec
CONSTANTS
  Start = 100
  Move1 = 30
  Move2 = 50
  FreeSchedule = TRUE
  Writer = {t1, t2}
  Reader = {r1}
  Loaded = Loaded
  NoOne = NoOne
  Rows = 1
  MaxVersions = 3
  BLCKSZ = 40
  PAGE_HDR = 2
  LP_BYTES = 1
  TUP_HDR = 2
  MAX_LPS = 5
  Fillfactor = {60, 100}
  RowBytes = {6}
  MaxXid = 104
  START_XID = 742
  MAX_VERSIONS = 4
  MAX_SPAN = 6
  MAX_READERS = 2
  LAB_PAGES = 2
  ROWS_PER_PAGE = 2
  InitialRows = 2
  Hit = 1
  Choosable = {"status", "created_at"}
  MAX_ENTRIES = 120
  MaxTrx = 2
  Columns = 1
  MaxColumns = 2
  MaxIndexes = 1
  BOOT = 2
  PAGE_ROWS = 2
  START_PAGES = 1
  MAX_PAGES = 3
  PPR_OPTIONS = {1, 2}
  VALUES_PER_RANGE = 4
  InOrderCount = 2
  LateCount = 1
  LateValue = {0}
  MaxTs = 6
  RowKeys = {{"a"}, {"a", "b"}, {"a", "b", "c"}}
  PENDING_PAGE_ENTRIES = 2
  PageLimits = {1, 2}
  INITIAL_ROWS = 1
  MAX_ROWS = 4
INVARIANTS TypeOK SerialWhenLocked VerdictSound CurrentRowsIndexed ChainsUnbroken AnswersRight
PROPERTIES OnlyDeadlocksAbort SnapshotsKept EveryScheduleEnds
CHECK_DEADLOCK FALSE
