\* A dirty line is replaced.
SPECIFICATION Spec
CONSTANTS
  Ways = 2
  Sets = 1
  Tags = {0, 1, 2}
  BlockBytes = 1
  Bytes = {0, 1}
  TimeMax = 3
  Verification = FALSE
  MaxAccesses = 0
PROPERTIES WriteBackKeepsData
