CONSTANTS
  Conn = {c1, c2}
  Fd = {d1, d2}
  Server = srv
  None = none
  Gateway = gw
  Refused = refused
  KeepTime = 1
  EpollEvents = 2
  BufferSize = 1
  MaxActs = 2
  Reads = {"part", "page", "fcgi"}
  Faults = {}
SPECIFICATION FairSpec
PROPERTIES
  UsersReleased
  BacklogServed
CHECK_DEADLOCK FALSE
