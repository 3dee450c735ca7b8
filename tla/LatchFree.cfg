SPECIFICATION LabSpec
CONSTANTS
  N = 2
  Slot = {a, b, c, d}
  Nil = Nil
  ListLen = 1
  Threshold = 2
  Schemes = {"ebr", "hp", "rcu", "none"}
  BwKey = {20, 30}
  MaxVal = 2
  MAX_LEAVES = 3
  T = 2
  MaxChain = 2
  Fanout = 2
  Levels = 2
  Updated = {0, 1}
  ExtraSlots = {1}
  KeepOld = {1}
  MAX_COMMITS = 4
  COW_BRANCHES = 2
  PerBranch = 2
  Changes = {{0}, {3}, {0, 2}}
  MAX_TXN = 4
SYMMETRY SlotSymmetry
INVARIANTS TypeOK ReadsSafe HpBounded
PROPERTY ChainsActAsMap
