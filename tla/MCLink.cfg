\* Two files with a function, an object and a static object in every form, and
\* three files with an object.  The map and the buffer are too small for some.
SPECIFICATION Spec
CONSTANTS
  Inputs <- MCInputs
  MapLength = 3
  FileLength = 14
  InstSize = 88
  SlotSize = 64
  DataSize = 8
INVARIANTS ResolvedSoFar StopsForCause DoneMeansDefined SymbolsLocate
  RelocationsLand RelocationsComplete AddressesApart
\* The program ends.
CHECK_DEADLOCK FALSE
