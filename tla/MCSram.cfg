\* Three blocks compete for the two lines of a set; times wrap at 1.
SPECIFICATION Spec
CONSTANTS
  t1 = t1
  t2 = t2
  Ways = 2
  Sets = 1
  Tags = {0, t1, t2}
  BlockBytes = 2
  Bytes = {0, 1}
  TimeMax = 1
  Verification = FALSE
  MaxAccesses = 0
SYMMETRY Symmetry
INVARIANTS NoTwins CleanMatchesDram VictimFound
PROPERTIES OnlyDirtyReplacementLoses
