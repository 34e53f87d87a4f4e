CONSTANTS
  p1 = p1
  p2 = p2
  Copies = {p1, p2}
  Answers <- MCAnswers
  Rooms = {1, 100}
SPECIFICATION FairSpec
INVARIANTS
  FailsOnlyOnPieces
  NothingLost
  HeadPerCopy
  CutOnlyEarly
PROPERTIES
  ForwardingEnds
CHECK_DEADLOCK FALSE
