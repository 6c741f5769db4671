SPECIFICATION FairSpec
CONSTANTS
  c1 = c1
  c2 = c2
  c3 = c3
  a1 = a1
  a2 = a2
  Inbound = {c1}
  Outbound = {c2, c3}
  AddrOf <- MCAddrOf
  Fd = {5}
  Terminating = {c2}
  Leaving = {c1, c2}
  MaxPeers = 2
  MaxThreads = 2
  NONE = NONE
INVARIANTS
  TypeOK
  CountMatchesSlots
  ListedOnce
  SocketsHeld
PROPERTIES
  BookSpec
  ReceiversEnd
CHECK_DEADLOCK FALSE
