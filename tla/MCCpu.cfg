\* The two programs of test_headware.c, the sum asked for 0 to 5, the stack
\* anywhere in the address space; and each
\* arithmetic instruction on every word, with the second operand at a boundary.
SPECIFICATION Spec
CONSTANTS
  Regs = {"rax", "rdx", "rsi", "rdi", "rsp", "rbp"}
  Starts <- MCStarts
  W = 64
  MemWords = 32
  MaxN = 5
INVARIANTS TestsCompute
PROPERTIES FlagsDescribe ReturnsToCaller Halts
\* The machine is left when rip is past the program.
CHECK_DEADLOCK FALSE
