-------------------------------- MODULE Cpu --------------------------------
(***************************************************************************)
(* The instruction cycle of src/src/headware/cpu/isa.c: registers, flags,  *)
(* rip and the memory that instructions reach through va2pa.               *)
(*                                                                         *)
(* A cell of memory is the 8 bytes one access takes, so that addresses and *)
(* displacements count words; DramWord is about the bytes of a cell.  An   *)
(* instruction takes one slot (MAX_INSTRUCTION_CHAR), and rip counts       *)
(* slots.  Instructions are parsed already: a program maps slots to them,  *)
(* and lies apart from the data.  A register name is the 64-bit register   *)
(* whose address the parser puts in reg1 (%eax is rax), since the handlers *)
(* access all of it; the second byte names (%ah) are left out.             *)
(* The operators named Mut... are faulty variants of the one that follows. *)
(***************************************************************************)
EXTENDS Integers, Sequences

CONSTANTS Regs,       \* the registers, "rsp" and "rbp" among them
          W,          \* bound: a word is one of 0 .. W-1 (2^64 in the code)
          MemWords,   \* bound: words of physical memory
          Starts      \* how the machine may start: program, reg, rip and mem

Word == 0 .. W - 1
Cells == 0 .. MemWords - 1
Bit == {0, 1}

ASSUME WidthAssumption == W \in Nat /\ W >= 2 /\ W % 2 = 0
ASSUME MemWordsAssumption == MemWords \in Nat \ {0}
ASSUME RegsAssumption == {"rsp", "rbp"} \subseteq Regs
Operand == [type : STRING, imm : Int, scal : Nat, reg1 : Regs, reg2 : Regs]
WellFormed(inst) == inst.src \in Operand /\ inst.dst \in Operand

ASSUME StartsAssumption ==
  \A s \in Starts : /\ s.reg \in [Regs -> Word]
                    /\ s.mem \in [Cells -> Word]
                    /\ s.rip \in Word
                    /\ DOMAIN s.program \subseteq Word
                    /\ \A a \in DOMAIN s.program : WellFormed(s.program[a])

VARIABLES program,    \* the instructions in memory, by slot
          reg,        \* cpu_reg
          flags,      \* cpu_flags
          rip,        \* cpu_pc.rip
          mem,        \* pm, one word per cell
          frames      \* the calls not yet returned from (ghost)

vars == <<program, reg, flags, rip, mem, frames>>
-----------------------------------------------------------------------------
(* Operands                                                                *)

HasImm == {"IMM", "MEM_IMM", "MEM_IMM_REG1", "MEM_IMM_REG1_REG2",
           "MEM_IMM_REG2_SCAL", "MEM_IMM_REG1_REG2_SCAL"}
HasReg1 == {"MEM_REG1", "MEM_IMM_REG1", "MEM_REG1_REG2", "MEM_IMM_REG1_REG2",
            "MEM_REG1_REG2_SCAL", "MEM_IMM_REG1_REG2_SCAL"}
HasScal == {"MEM_REG2_SCAL", "MEM_IMM_REG2_SCAL",
            "MEM_REG1_REG2_SCAL", "MEM_IMM_REG1_REG2_SCAL"}
HasReg2 == {"MEM_REG1_REG2", "MEM_IMM_REG1_REG2"} \cup HasScal

\* The value of an immediate and the virtual address of a memory operand.  For a
\* register the code gives its address; here the handlers name the register.
decode_operand(od) ==
  ( (IF od.type \in HasImm THEN od.imm ELSE 0)
    + (IF od.type \in HasReg1 THEN reg[od.reg1] ELSE 0)
    + (IF od.type \in HasReg2
       THEN reg[od.reg2] * (IF od.type \in HasScal THEN od.scal ELSE 1)
       ELSE 0) ) % W

\* The cell that va2pa leads to.
CellOf(vaddr) == vaddr % MemWords

Load(vaddr) == mem[CellOf(vaddr)]

Store(vaddr, value) == mem' = [mem EXCEPT ![CellOf(vaddr)] = value]

-----------------------------------------------------------------------------
(* Flags                                                                   *)

Cleared == [CF |-> 0, ZF |-> 0, SF |-> 0, OF |-> 0]

BitOf(b) == IF b THEN 1 ELSE 0

Sign(x) == BitOf(2 * x >= W)

Plus(a, b) == (a + b) % W
Minus(a, b) == (a - b) % W

\* (src_sign == dst_sign) ^ val_sign
Overflow(src, dst, val) ==
  BitOf(BitOf(Sign(src) = Sign(dst)) # Sign(val))

\* The sum is in dst by the time that the signs and the carry are computed, so
\* that the sign of dst is that of the sum.  When the source is the same
\* register it holds the sum as well.
AddFlags(src, val) ==
  [CF |-> BitOf(val < src), ZF |-> BitOf(val = 0),
   SF |-> Sign(val), OF |-> Overflow(src, val, val)]

MutSubFlags(src, dst, val) ==
  [CF |-> BitOf(val < dst), ZF |-> BitOf(val = 0),
   SF |-> Sign(val), OF |-> Overflow(src, dst, val)]

SubFlags(src, dst, val) ==
  [CF |-> BitOf(val > dst), ZF |-> BitOf(val = 0),
   SF |-> Sign(val), OF |-> Overflow(src, dst, val)]
-----------------------------------------------------------------------------
(* Handlers, each for the operand types that it supports                   *)

Running == rip \in DOMAIN program
Op == program[rip].op
Src == program[rip].src
Dst == program[rip].dst

Executes(op, stypes, dtypes) ==
  Running /\ Op = op /\ Src.type \in stypes /\ Dst.type \in dtypes

Any == {"EMPTY", "REG", "MEM_REG1"} \cup HasImm \cup HasReg2

\* The operand types for which the handler of the instruction does something.
Supported ==
  CASE Op = "mov" -> \/ Src.type = "REG" /\ Dst.type \in {"REG", "MEM_IMM_REG1"}
                     \/ Dst.type = "REG" /\ Src.type \in {"IMM", "MEM_IMM_REG1"}
    [] Op \in {"push", "pop"} -> Src.type = "REG"
    [] Op = "add" -> Src.type = "REG" /\ Dst.type = "REG"
    [] Op = "sub" -> Src.type = "IMM" /\ Dst.type = "REG"
    [] Op = "cmpq" -> Src.type = "IMM" /\ Dst.type = "MEM_IMM_REG1"
    [] Op \in {"jne", "jmp"} -> Src.type = "MEM_IMM"
    [] OTHER -> TRUE

next_rip == rip' = (rip + 1) % W

\* What mov, push, pop and leave end with.
Finish == next_rip /\ flags' = Cleared /\ UNCHANGED <<program, frames>>

MovRegReg ==
  /\ Executes("mov", {"REG"}, {"REG"})
  /\ reg' = [reg EXCEPT ![Dst.reg1] = reg[Src.reg1]]
  /\ Finish /\ UNCHANGED mem

MovRegMem ==
  /\ Executes("mov", {"REG"}, {"MEM_IMM_REG1"})
  /\ Store(decode_operand(Dst), reg[Src.reg1])
  /\ Finish /\ UNCHANGED reg

MovMemReg ==
  /\ Executes("mov", {"MEM_IMM_REG1"}, {"REG"})
  /\ reg' = [reg EXCEPT ![Dst.reg1] = Load(decode_operand(Src))]
  /\ Finish /\ UNCHANGED mem

MovImmReg ==
  /\ Executes("mov", {"IMM"}, {"REG"})
  /\ reg' = [reg EXCEPT ![Dst.reg1] = decode_operand(Src)]
  /\ Finish /\ UNCHANGED mem

\* rsp moves first: push %rsp stores the new rsp.
Push ==
  /\ Executes("push", {"REG"}, Any)
  /\ reg' = [reg EXCEPT !["rsp"] = Minus(@, 1)]
  /\ Store(reg'["rsp"], reg'[Src.reg1])
  /\ Finish

\* rsp moves before the value is stored: pop %rsp leaves the value.
Pop ==
  /\ Executes("pop", {"REG"}, Any)
  /\ reg' = [[reg EXCEPT !["rsp"] = Plus(@, 1)]
               EXCEPT ![Src.reg1] = Load(reg["rsp"])]
  /\ Finish /\ UNCHANGED mem

MutLeave ==
  /\ Executes("leaveq", Any, Any)
  /\ reg' = [reg EXCEPT !["rsp"] = Plus(@, 1), !["rbp"] = Load(reg["rsp"])]
  /\ Finish /\ UNCHANGED mem

Leave ==
  /\ Executes("leaveq", Any, Any)
  /\ reg' = [reg EXCEPT !["rsp"] = Plus(reg["rbp"], 1), !["rbp"] = Load(reg["rbp"])]
  /\ Finish /\ UNCHANGED mem

Frame == [ret |-> (rip + 1) % W, rsp |-> reg["rsp"], rbp |-> reg["rbp"]]

\* The address of a register in the simulator may be any word.
GoTo(od) == IF od.type = "REG" THEN rip' \in Word ELSE rip' = decode_operand(od)

MutCall ==
  /\ Executes("callq", Any, Any)
  /\ reg' = [reg EXCEPT !["rsp"] = Minus(@, 1)]
  /\ Store(reg'["rsp"], rip)
  /\ GoTo(Src) /\ flags' = Cleared
  /\ frames' = Append(frames, Frame)
  /\ UNCHANGED program

Call ==
  /\ Executes("callq", Any, Any)
  /\ reg' = [reg EXCEPT !["rsp"] = Minus(@, 1)]
  /\ Store(reg'["rsp"], Frame.ret)
  /\ GoTo(Src) /\ flags' = Cleared
  /\ frames' = Append(frames, Frame)
  /\ UNCHANGED program

Ret ==
  /\ Executes("retq", Any, Any)
  /\ rip' = Load(reg["rsp"]) /\ flags' = Cleared
  /\ reg' = [reg EXCEPT !["rsp"] = Plus(@, 1)]
  /\ frames' = IF frames = <<>> THEN frames ELSE SubSeq(frames, 1, Len(frames) - 1)
  /\ UNCHANGED <<program, mem>>

Add ==
  /\ Executes("add", {"REG"}, {"REG"})
  /\ LET val == Plus(reg[Src.reg1], reg[Dst.reg1])
     IN  /\ reg' = [reg EXCEPT ![Dst.reg1] = val]
         /\ flags' = AddFlags(reg'[Src.reg1], val)
  /\ next_rip /\ UNCHANGED <<program, mem, frames>>

Sub ==
  /\ Executes("sub", {"IMM"}, {"REG"})
  /\ LET dst == reg[Dst.reg1]
         val == Minus(dst, decode_operand(Src))
     IN  /\ reg' = [reg EXCEPT ![Dst.reg1] = val]
         /\ flags' = SubFlags(decode_operand(Src), dst, val)
  /\ next_rip /\ UNCHANGED <<program, mem, frames>>

Cmp ==
  /\ Executes("cmpq", {"IMM"}, {"MEM_IMM_REG1"})
  /\ LET dval == Load(decode_operand(Dst))
     IN  flags' = SubFlags(decode_operand(Src), dval, Minus(dval, decode_operand(Src)))
  /\ next_rip /\ UNCHANGED <<program, reg, mem, frames>>

MutJne ==
  /\ Executes("jne", {"MEM_IMM"}, Any)
  /\ IF flags.ZF = 1 THEN rip' = decode_operand(Src) ELSE next_rip
  /\ flags' = Cleared
  /\ UNCHANGED <<program, reg, mem, frames>>

Jne ==
  /\ Executes("jne", {"MEM_IMM"}, Any)
  /\ IF flags.ZF = 0 THEN rip' = decode_operand(Src) ELSE next_rip
  /\ flags' = Cleared
  /\ UNCHANGED <<program, reg, mem, frames>>

Jmp ==
  /\ Executes("jmp", {"MEM_IMM"}, Any)
  /\ rip' = decode_operand(Src) /\ flags' = Cleared
  /\ UNCHANGED <<program, reg, mem, frames>>

\* The handler returns without moving rip: the next cycle is the same one.
Unsupported ==
  /\ Running /\ ~Supported
  /\ flags' = IF Op = "jne" THEN Cleared ELSE flags
  /\ UNCHANGED <<program, reg, rip, mem, frames>>

Next == \/ MovRegReg \/ MovRegMem \/ MovMemReg \/ MovImmReg
        \/ Push \/ Pop \/ Leave \/ Call \/ Ret
        \/ Add \/ Sub \/ Cmp \/ Jne \/ Jmp \/ Unsupported

Init ==
  /\ \E s \in Starts : program = s.program /\ reg = s.reg /\ rip = s.rip /\ mem = s.mem
  /\ flags = Cleared
  /\ frames = <<>>

\* The loop of the program that runs the machine calls instruction_cycle again
\* and again while rip is in the program.
Spec == Init /\ [][Next]_vars /\ WF_vars(Next)
-----------------------------------------------------------------------------
(* Properties                                                              *)

TypeOK ==
  /\ DOMAIN program \subseteq Word
  /\ \A a \in DOMAIN program : WellFormed(program[a])
  /\ reg \in [Regs -> Word]
  /\ flags \in [CF : Bit, ZF : Bit, SF : Bit, OF : Bit]
  /\ rip \in Word
  /\ mem \in [Cells -> Word]
  /\ frames \in Seq([ret : Word, rsp : Word, rbp : Word])

Caller == frames[Len(frames)]

\* A function that returns goes back behind the call that entered it, with the
\* stack and the frame pointer of its caller (what push, leave and ret keep on
\* the stack): nothing that ran meanwhile, in deeper calls, has overwritten it.
ReturnsToCaller ==
  [][Ret /\ frames # <<>> => /\ rip' = Caller.ret
                            /\ reg'["rsp"] = Caller.rsp
                            /\ reg'["rbp"] = Caller.rbp]_vars

Signed(x) == IF 2 * x >= W THEN x - W ELSE x

\* Of add the carry is that of the sum unless both operands are one register,
\* which has lost the operand by the time that the carry is computed (isa.c:744).
\* Its OF is no overflow: it says that the source is not negative, as it is then.
AddDescribed ==
  Add =>
    LET a == reg[Dst.reg1]  b == reg[Src.reg1] IN
    /\ flags'.CF = IF Src.reg1 = Dst.reg1 THEN 0 ELSE BitOf(a + b >= W)
    /\ flags'.ZF = BitOf(a + b \in {0, W})
    /\ flags'.SF = BitOf(Signed((a + b) % W) < 0)
    /\ flags'.OF = BitOf(Signed(reg'[Src.reg1]) >= 0)

\* Does the signed difference of a and b leave the word's range?
Overflows(a, b) == Signed((a - b) % W) # Signed(a) - Signed(b)

\* The OF of sub and cmp is the overflow if a is not negative and b is, or both
\* have one sign and a < b; it is the opposite for every other a and b.
SubDescribed ==
  Sub \/ Cmp =>
    LET a == IF Op = "sub" THEN reg[Dst.reg1] ELSE Load(decode_operand(Dst))
        b == decode_operand(Src) IN
    /\ flags'.CF = BitOf(a < b)
    /\ flags'.ZF = BitOf(a = b)
    /\ flags'.SF = BitOf(Signed((a - b) % W) < 0)
    /\ flags'.OF = BitOf(Overflows(a, b))
         <=> IF Sign(a) = Sign(b) THEN a < b ELSE Signed(a) >= 0

\* The flags that an instruction leaves, whatever way it computes them, described
\* by its operands: CF is a carry or a borrow but for add r,r, ZF says that the
\* result is zero, SF that it is negative, and OF is what the code makes of it
\* (isa.c:753, 792, 821), not the signed overflow of the comments above it.
FlagsDescribe == [][AddDescribed /\ SubDescribed]_vars
=============================================================================
