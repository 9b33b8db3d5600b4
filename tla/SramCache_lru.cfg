\* A verification build over every trace of MaxAccesses accesses: four blocks
\* compete for three lines, and a line left alone for TimeMax accesses wraps.
SPECIFICATION Spec
CONSTANTS
  Ways = 3
  Sets = 1
  Tags = {0, 1, 2, 3}
  BlockBytes = 2
  Bytes = {0}
  TimeMax = 4
  Verification = TRUE
  MaxAccesses = 9
INVARIANTS VictimIsLruUntilWrap CountersAgree
CHECK_DEADLOCK FALSE
