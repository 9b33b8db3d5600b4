\* NUM_PROCESSOR and the loop bound are those of mesi.c.
SPECIFICATION Spec
CONSTANTS
  N = 5
  Rounds = 100
  Values = {1, 2}
  InitialMem = 3
INVARIANTS Exclusion CleanCopies NeverFails
PROPERTIES WriteBackEndsOwnership ImplementsMemory
CHECK_DEADLOCK FALSE
