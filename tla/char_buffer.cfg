CONSTANTS
  Size = 6
  Reserve = 2
  MaxBytes = 9
SPECIFICATION Spec
INVARIANTS
  TypeOK
  InOrderUnlessCut
PROPERTIES
  ViewsStay
CHECK_DEADLOCK FALSE
