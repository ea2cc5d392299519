SPECIFICATION Spec
CONSTANTS
  File <- MCFile
  Size = 3
  MaxAsk = 8
  WithinFile = FALSE
INVARIANTS
  BytesInOrder
CHECK_DEADLOCK FALSE
