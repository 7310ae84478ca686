SPECIFICATION FairSpec
CONSTANTS
  Caller = {h1, h2}
  cleaner = cleaner
  ID = {a, b}
  Nil = Nil
  NoID = NoID
  MaxNodes = 3
INVARIANTS TypeOK
PROPERTIES CallsReturn
CHECK_DEADLOCK FALSE
