CONSTANTS
  Files <- MCFiles
  BufferSize = 7
  MaxInt = 89
  MaxUint = 199
  MaxExponent = 8
  Spelled <- MCSpelled
  BadRegexes <- MCBadRegexes
  Cores = {1, 2}
  MaxInstances = 2
  Clients = {c1, c2, c3}
  MaxUsers = 2
SPECIFICATION Spec
INVARIANTS
  StackBalanced
  DocumentIsMeant
  SitesInFront
PROPERTIES
  StreamIsFile
  ParseEnds
  
CHECK_DEADLOCK FALSE
