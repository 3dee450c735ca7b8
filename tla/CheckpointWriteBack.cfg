SPECIFICATION RunningSpec
CONSTANTS
  Block = {a, b, c}
  NoBlock = NoBlock
  Size = 2
  MaxUsage = 2
  MaxIo = 1
  Due = 1
  MaxLsn = 5
INVARIANTS TypeOK NothingSkipped StartIsDurable ImagedSinceRedo
PROPERTIES StartMovesForward CkptCompletes
