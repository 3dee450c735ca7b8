SPECIFICATION Spec
CONSTANTS
  InsertKeys = {12, 27}
  ParentFull = {TRUE, FALSE}
  Protocols = {"crab", "innodb", "olc", "blink"}
INVARIANTS TreeSound ReaderFinds
PROPERTIES ChangesLatched LatchOrder BothEnd
