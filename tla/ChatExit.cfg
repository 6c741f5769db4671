SPECIFICATION FairSpec
CONSTANTS
  c1 = c1
  c2 = c2
  c3 = c3
  a1 = a1
  a2 = a2
  Inbound = {c1}
  Outbound = {c3}
  AddrOf <- MCAddrOf
  Fd = {5, 6}
  Terminating = {c1, c3}
  Leaving = {c1, c3}
  MaxPeers = 2
  MaxThreads = 2
  NONE = NONE
PROPERTIES
  ExitEnds
CHECK_DEADLOCK FALSE
