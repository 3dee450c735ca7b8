SPECIFICATION HotSpec
CONSTANTS
  BLCKSZ = 40
  PAGE_HDR = 2
  LP_BYTES = 1
  TUP_HDR = 2
  MAX_LPS = 5
  Fillfactor = {60, 100}
  RowBytes = {6}
  MaxXid = 104
INVARIANT ViewCanRead
