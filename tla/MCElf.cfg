\* Three sources of every kind; with one slot, the second event grows the array.
SPECIFICATION Spec
CONSTANTS
  Tags = {"parse_elf"}
  Blocks <- MCBlocks
  SweepTags = {"parse_table_entry"}
  DestroyUpTo = 16
  Null = Null
  None = None
  Files <- MCFiles
  MaxSources = 3
  EventSlots = 1
INVARIANTS NothingDangling TablesLiveUntilFreed NothingLeaks
PROPERTIES ProgramEnds
CHECK_DEADLOCK FALSE
