\* Both values of DEBUG_ENABLE_SRAM_CACHE.  Address 10 aliases 3, 6 runs over the end; words overlap.
SPECIFICATION DramSpec
CONSTANTS
  Base = 4
  IntBytes = 2
  WordBytes = 4
  Size = 7
  VAddresses = {0, 2, 3, 6, 10}
  Data = {27, 228, 255, 6}
  Builds = {TRUE, FALSE}
INVARIANTS StoreEncodes LoadDecodesUnlessWide
