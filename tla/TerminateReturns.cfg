SPECIFICATION FairSpec
CONSTANTS
  c1 = c1
  c2 = c2
  c3 = c3
  p = p
  q = q
  Conn = {c1, c2, c3}
  Proc = {p, q}
  ProcOf <- MCProcOf
  PortOf <- MCPortOf
  Fd = {3, 4}
  NONE = NONE
PROPERTIES
  TerminateReturns
CHECK_DEADLOCK FALSE
