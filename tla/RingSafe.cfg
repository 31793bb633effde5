SPECIFICATION Spec
CONSTANTS
  Size = 4
  MaxChunk = 4
  MaxBytes = 11
INVARIANT TypeOK
INVARIANT InOrder
INVARIANT LostByFillingOnly
CHECK_DEADLOCK FALSE
