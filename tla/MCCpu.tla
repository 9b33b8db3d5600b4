------------------------------- MODULE MCCpu -------------------------------
(***************************************************************************)
(* The programs that src/src/tests/test_headware.c loads into the machine  *)
(* of Cpu, in words instead of bytes, and single instructions on every     *)
(* word, with the second operand at a boundary.                            *)
(***************************************************************************)
EXTENDS Cpu

CONSTANT MaxN          \* bound: the recursive sum is asked for 0 .. MaxN

\* Operands
NoOperand == [type |-> "EMPTY", imm |-> 0, scal |-> 1, reg1 |-> "rax", reg2 |-> "rax"]
R(r) == [NoOperand EXCEPT !.type = "REG", !.reg1 = r]
I(n) == [NoOperand EXCEPT !.type = "IMM", !.imm = n]
To(slot) == [NoOperand EXCEPT !.type = "MEM_IMM", !.imm = slot]
At(n, r) == [NoOperand EXCEPT !.type = "MEM_IMM_REG1", !.imm = n, !.reg1 = r]

Two(op, src, dst) == [op |-> op, src |-> src, dst |-> dst]
One(op, src) == Two(op, src, NoOperand)
Zero(op) == One(op, NoOperand)

\* test_headware.c:189-209; slots from 0.
SumProgram(n) ==
  LET listing == <<
    One("push", R("rbp")),
    Two("mov", R("rsp"), R("rbp")),
    Two("sub", I(2), R("rsp")),
    Two("mov", R("rdi"), At(-1, "rbp")),
    Two("cmpq", I(0), At(-1, "rbp")),
    One("jne", To(8)),
    Two("mov", I(0), R("rax")),
    One("jmp", To(14)),
    Two("mov", At(-1, "rbp"), R("rax")),
    Two("sub", I(1), R("rax")),
    Two("mov", R("rax"), R("rdi")),
    One("callq", To(0)),
    Two("mov", At(-1, "rbp"), R("rdx")),
    Two("add", R("rdx"), R("rax")),
    Zero("leaveq"),
    Zero("retq"),
    Two("mov", I(n), R("rdi")),
    One("callq", To(0)),
    Two("mov", R("rax"), At(-1, "rbp")) >>
  IN [slot \in 0 .. 18 |-> listing[slot + 1]]

\* test_headware.c:99-115.
AddProgram ==
  LET listing == <<
    One("push", R("rbp")),
    Two("mov", R("rsp"), R("rbp")),
    Two("mov", R("rdi"), At(-3, "rbp")),
    Two("mov", R("rsi"), At(-4, "rbp")),
    Two("mov", At(-3, "rbp"), R("rdx")),
    Two("mov", At(-4, "rbp"), R("rax")),
    Two("add", R("rdx"), R("rax")),
    Two("mov", R("rax"), At(-1, "rbp")),
    Two("mov", At(-1, "rbp"), R("rax")),
    One("pop", R("rbp")),
    Zero("retq"),
    Two("mov", R("rdx"), R("rsi")),
    Two("mov", R("rax"), R("rdi")),
    One("callq", To(0)),
    Two("mov", R("rax"), At(-1, "rbp")) >>
  IN [slot \in 0 .. 14 |-> listing[slot + 1]]

\* Both tests have rbp two or four words above rsp.
Registers(rsp, up, rax, rdx) ==
  [r \in Regs |-> CASE r = "rsp" -> rsp
                    [] r = "rbp" -> (rsp + up) % W
                    [] r = "rax" -> rax
                    [] r = "rdx" -> rdx
                    [] OTHER -> 1]

Blank == [c \in Cells |-> 0]

SumStarts ==
  {[program |-> SumProgram(n), rip |-> 16, mem |-> Blank,
    reg |-> Registers(rsp, 2, 0, 0)] : n \in 0 .. MaxN, rsp \in Word}

AddStarts ==
  {[program |-> AddProgram, rip |-> 11, mem |-> Blank,
    reg |-> Registers(rsp, 4, a, b)] : rsp \in Word, a \in {0, 5, W - 1}, b \in {1, W - 3}}

Alone(inst) == [slot \in {0} |-> inst]

\* Zero, one and the words around the ends of the signed and the unsigned range.
Boundary == {0, 1, W \div 2 - 1, W \div 2, W \div 2 + 1, W - 2, W - 1}

\* jne of a register is not supported; neither is mov to (%rsp).
FlagStarts ==
  {[program |-> Alone(inst), rip |-> 0, mem |-> [c \in Cells |-> a],
    reg |-> Registers(0, 0, a, b)] :
     a \in Word, b \in Boundary,
     inst \in {Two("add", R("rdx"), R("rax")), Two("add", R("rax"), R("rax")),
              One("jne", R("rax")),
              Two("mov", R("rax"), [At(0, "rsp") EXCEPT !.type = "MEM_REG1"])}}
  \cup
  {[program |-> Alone(inst), rip |-> 0, mem |-> [c \in Cells |-> a],
    reg |-> Registers(0, 0, a, 0)] :
     a \in Word,
     inst \in UNION {{Two("sub", I(n), R("rax")), Two("cmpq", I(n), At(0, "rsp"))} : n \in Boundary}}

MCStarts == SumStarts \cup AddStarts \cup FlagStarts

-----------------------------------------------------------------------------
IsSum == 18 \in DOMAIN program
IsAdd == ~IsSum /\ 14 \in DOMAIN program
Asked == program[16].src.imm

\* What the test expects at the end of sum(3), for every argument and every place
\* of the stack: the sum is in rax and in the frame of main, and rsp and rbp are
\* what they were.
SumComputed ==
  ~Running /\ IsSum =>
    LET sum == (Asked * (Asked + 1)) \div 2 IN
    /\ reg["rax"] = sum
    /\ Load((reg["rbp"] - 1) % W) = sum
    /\ reg["rbp"] = (reg["rsp"] + 2) % W
    /\ frames = <<>>

\* What the test expects of add(rdx, rax).
AddComputed ==
  ~Running /\ IsAdd =>
    /\ reg["rax"] = (reg["rdi"] + reg["rsi"]) % W
    /\ Load((reg["rbp"] - 1) % W) = reg["rax"]
    /\ reg["rbp"] = (reg["rsp"] + 4) % W

\* The programs leave the results, frames and stack pointers that their tests
\* expect (TestSumRecursiveCondition, TestAddFunctionCallAndComputation).
TestsCompute == SumComputed /\ AddComputed

\* The programs of the tests leave through their end: no handler they use stays
\* where it is, and their calls, jumps and returns lead out of them.
Halts == (IsSum \/ IsAdd) => <>~Running
=============================================================================
