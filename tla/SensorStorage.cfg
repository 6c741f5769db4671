SPECIFICATION FairSpec
CONSTANTS
  Reading = {r1, r2, r3}
  RetryLimit = 3
INVARIANTS
  TypeOK
  StoredOnce
  TotalCountsRows
  ConnectedHasHandle
PROPERTIES
  LedgerSpec
  EventuallyStored
  ShutdownFinishes
CHECK_DEADLOCK FALSE
