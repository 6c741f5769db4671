SPECIFICATION WalkSpec
CONSTANTS
  s1 = s1
  s2 = s2
  s3 = s3
  i1 = i1
  i2 = i2
  Conn = {s1, s2, s3}
  Ip = {i1, i2}
  IpOf <- MCIpOf
  PortOf <- MCPortOf
  SockFdOf <- MCSockFdOf
  MaxPerIp = 1
  MaxUniqueIps = 2
  Fd = {0, 1, 2, 3}
  ListenFd = 0
  LISTENER = LISTENER
  NULL = NULL
INVARIANTS
  WalkTypeOK
  CountMatchesList
  SlotsAccounted
  PerIpCap
  PortsUnique
  WalkMissesNone
PROPERTIES
  TableSpec
CHECK_DEADLOCK FALSE
