\* Lists of up to four nodes with two different values; linkedlist_get is
\* asked for either of them.
SPECIFICATION Spec
CONSTANTS
  Values = {v1, v2}
  Null = Null
  MaxNodes = 4
INVARIANTS OneRing
PROPERTIES ImplementsRing GetReturns
CHECK_DEADLOCK FALSE
