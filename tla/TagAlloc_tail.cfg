\* Several blocks are on the list when one of them is freed.
SPECIFICATION TagSpec
CONSTANTS
  Tags = {"parse_elf"}
  Blocks = {b1, b2, b3, b4}
  SweepTags = {"parse_table_entry"}
  DestroyUpTo = 1
  Null = Null
  None = None
INVARIANTS FreeFinds
CHECK_DEADLOCK FALSE
