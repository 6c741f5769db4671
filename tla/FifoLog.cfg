SPECIFICATION FairSpec
CONSTANTS
  Event = {e1, e2, e3}
  Capacity = 2
  Chunk = 2
INVARIANTS
  TypeOK
  NumbersBounded
  RunUntilStop
PROPERTIES
  LogSpec
  FifoDrains
CHECK_DEADLOCK FALSE
