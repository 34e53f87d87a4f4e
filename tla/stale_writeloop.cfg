CONSTANTS
  Conn = {c1, c2}
  Fd = {d1, d2}
  Server = srv
  None = none
  Gateway = gw
  Refused = refused
  KeepTime = 1
  EpollEvents = 2
  BufferSize = 2
  MaxActs = 1
  Reads = {"part", "page", "fcgi"}
  Faults = {}
SPECIFICATION Spec
INVARIANTS
  OutputReachesItsClient
CHECK_DEADLOCK FALSE
