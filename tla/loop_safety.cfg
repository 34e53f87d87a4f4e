CONSTANTS
  Conn = {c1, c2}
  Fd = {d1, d2, d3}
  Server = srv
  None = none
  Gateway = gw
  Refused = refused
  KeepTime = 1
  EpollEvents = 2
  BufferSize = 2
  MaxActs = 2
  Reads = {"part", "page", "fcgi"}
  Faults = {"throw", "spin", "crash"}
SPECIFICATION Spec
SYMMETRY Symmetry
INVARIANTS
  TypeOK
  UsersOwnDescriptors
  EventsHaveUsers
  UsersArmed
  GatewaysArmed
  StraysAreLate
  StaticOutputArmed
PROPERTIES
  RefinesLifecycle
CHECK_DEADLOCK FALSE
