SPECIFICATION FairSpec
CONSTANTS
  Sensor = {a, b}
  MaxConnections = 1
  HistorySize = 3
  Temp = {8, 11}
  Hot = 50
  Cold = 10
  NONE = NONE
INVARIANTS
  TypeOK
PROPERTIES
  WindowSpec
  PassesEnd
CHECK_DEADLOCK FALSE
