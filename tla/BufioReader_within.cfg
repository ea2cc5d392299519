SPECIFICATION Spec
CONSTANTS
  File <- MCFile
  Size = 3
  MaxAsk = 8
  WithinFile = TRUE
INVARIANTS
  BytesInOrder
  HandleAhead
CHECK_DEADLOCK FALSE
