\* Buckets of one pair, where every second insert splits and some split twice, and
\* of two; up to four pairs, duplicates of a key included.
SPECIFICATION Spec
CONSTANTS
  k1 = k1
  k2 = k2
  k3 = k3
  k4 = k4
  Keys = {k1, k2, k3, k4}
  Values = {1, 2}
  Missing = Missing
  Hash <- MCHash
  BucketSizes = {1, 2}
  MaxDepth = 3
  MaxPairs = 4
INVARIANTS DirectoryAgrees WithinCapacity FreedOnce
PROPERTIES ImplementsBag InsertReturns
CHECK_DEADLOCK FALSE
