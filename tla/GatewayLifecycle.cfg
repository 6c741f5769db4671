SPECIFICATION FairSpec
CONSTANTS
  Sensor = {s1}
  Client = {k1}
  NONE = NONE
INVARIANTS
  TypeOK
  ReadyBeforeUse
  HoldersGoOn
PROPERTIES
  CleanupGetsThrough
  LogReaderEnds
CHECK_DEADLOCK FALSE
