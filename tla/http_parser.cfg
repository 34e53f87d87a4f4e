CONSTANTS
  Scripts <- MCScripts
  IntMax = 127
  MaxContentLength = 20
SPECIFICATION FairSpec
INVARIANTS
  TypeOK
  ViewsRead
  PiecesDoNotMatter
  RequestsAccumulate
  ThrowsOnlyOnPieces
  KnownStalls
PROPERTIES
  OnReadReturns
CHECK_DEADLOCK FALSE
