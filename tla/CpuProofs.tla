----------------------------- MODULE CpuProofs -----------------------------
(***************************************************************************)
(* Theorems about Cpu, for every width of a word, every memory and every   *)
(* program, and about DramWord, which makes its words of bytes, for words  *)
(* of any number of bytes.                                                 *)
(***************************************************************************)
EXTENDS Cpu, DramWord, WellFoundedInduction, TLAPS

\* Arithmetic on addresses and values stays within a word.
LEMMA WrapsToWord == ASSUME NEW x \in Int PROVE x % W \in Word
BY WidthAssumption DEF Word

\* A virtual address leads to a word of physical memory.
LEMMA AddressInMemory == ASSUME NEW x \in Int PROVE CellOf(x) \in Cells
BY MemWordsAssumption DEF Cells, CellOf

\* A sum of two words wraps around at most once.
LEMMA SumWraps ==
  ASSUME NEW a \in Word, NEW b \in Word
  PROVE  (a + b) % W = IF a + b >= W THEN a + b - W ELSE a + b
BY WidthAssumption DEF Word

\* A difference of two words wraps around exactly if it borrows.
LEMMA DifferenceWraps ==
  ASSUME NEW a \in Word, NEW b \in Word
  PROVE  (a - b) % W = IF a < b THEN a - b + W ELSE a - b
BY WidthAssumption DEF Word

-----------------------------------------------------------------------------
Frames == [ret : Word, rsp : Word, rbp : Word]

\* What decode_operand gives for an operand is a word.
LEMMA DecodeInWord ==
  ASSUME TypeOK, NEW od \in Operand
  PROVE  decode_operand(od) \in Word
<1> DEFINE imm == IF od.type \in HasImm THEN od.imm ELSE 0
           base == IF od.type \in HasReg1 THEN reg[od.reg1] ELSE 0
           scal == IF od.type \in HasScal THEN od.scal ELSE 1
           index == IF od.type \in HasReg2 THEN reg[od.reg2] * scal ELSE 0
<1>1. imm \in Int /\ base \in Int /\ scal \in Int
  BY WidthAssumption DEF TypeOK, Operand, Word
<1>2. reg[od.reg2] \in Int
  BY WidthAssumption DEF TypeOK, Operand, Word
<1>3. index \in Int
  BY <1>1, <1>2
<1>4. imm + base + index \in Int
  BY <1>1, <1>3
<1> HIDE DEF imm, base, index
<1>5. (imm + base + index) % W \in Word
  BY <1>4, WrapsToWord
<1>6. QED
  BY <1>5 DEF decode_operand, imm, base, index

\* Memory holds words, and an access in virtual memory stays in it.
LEMMA LoadInWord ==
  ASSUME TypeOK, NEW vaddr \in Word PROVE Load(vaddr) \in Word
BY AddressInMemory, WidthAssumption DEF TypeOK, Load, Word

LEMMA StoreKeepsMemory ==
  ASSUME TypeOK, NEW vaddr \in Word, NEW value \in Word, Store(vaddr, value)
  PROVE  mem' \in [Cells -> Word]
BY DEF TypeOK, Store

\* The registers that a handler names are there.
LEMMA OperandsOK ==
  ASSUME TypeOK, Running PROVE Src \in Operand /\ Dst \in Operand
BY DEF TypeOK, Running, Src, Dst, WellFormed

FlagsOK == [CF : Bit, ZF : Bit, SF : Bit, OF : Bit]

LEMMA FlagsTyped ==
  /\ Cleared \in FlagsOK
  /\ \A src, result : AddFlags(src, result) \in FlagsOK
  /\ \A src, dst, result : SubFlags(src, dst, result) \in FlagsOK
BY DEF Cleared, FlagsOK, Bit, AddFlags, SubFlags, BitOf, Sign, Overflow

\* Values of the machine keep their types: no handler leaves a register, a cell,
\* rip or a flag with a value that the hardware could not hold.
THEOREM TypeCorrect == Spec => []TypeOK
<1>1. ASSUME Init PROVE TypeOK
  <2>1. PICK s \in Starts : program = s.program /\ reg = s.reg /\ rip = s.rip /\ mem = s.mem
    BY <1>1 DEF Init
  <2>2. flags \in FlagsOK /\ frames = <<>>
    BY <1>1, FlagsTyped DEF Init
  <2>3. /\ DOMAIN program \subseteq Word
        /\ \A a \in DOMAIN program : WellFormed(program[a])
    BY <2>1, StartsAssumption
  <2>4. reg \in [Regs -> Word] /\ rip \in Word /\ mem \in [Cells -> Word]
    BY <2>1, StartsAssumption
  <2>5. QED
    BY <2>2, <2>3, <2>4 DEF TypeOK, FlagsOK
<1>2. ASSUME TypeOK, [Next]_vars PROVE TypeOK'
  <2> USE <1>2
  <2>w. ASSUME NEW x \in Word, NEW y \in Word
        PROVE  Plus(x, y) \in Word /\ Minus(x, y) \in Word
    <3>1. x + y \in Int /\ x - y \in Int
      BY WidthAssumption DEF Word
    <3>2. QED
      BY <3>1, WrapsToWord DEF Plus, Minus
  <2>u. 1 \in Word
    BY WidthAssumption DEF Word
  <2>r. \A r \in Regs : reg[r] \in Word
    BY DEF TypeOK
  <2>s. "rsp" \in Regs /\ "rbp" \in Regs
    BY RegsAssumption
  <2>n. (rip + 1) % W \in Word
    <3>1. rip \in Word
      BY DEF TypeOK
    <3>2. rip + 1 \in Int
      BY <3>1, WidthAssumption DEF Word
    <3>3. QED
      BY <3>2, WrapsToWord
  <2>o. Running => /\ Src \in Operand /\ Dst \in Operand
                   /\ Src.reg1 \in Regs /\ Dst.reg1 \in Regs
    BY OperandsOK DEF Operand
  <2>p. ASSUME program' = program
        PROVE  /\ (DOMAIN program \subseteq Word)'
               /\ (\A a \in DOMAIN program : WellFormed(program[a]))'
    BY <2>p DEF TypeOK, WellFormed
  <2>c. Cleared \in FlagsOK
    BY FlagsTyped
  <2>1. CASE MovRegReg
    BY <2>1, <2>r, <2>n, <2>o, <2>p, <2>c
       DEF MovRegReg, Executes, Finish, next_rip, TypeOK, FlagsOK
  <2>2. CASE MovRegMem
    <3>1. mem' \in [Cells -> Word]
      BY <2>2, <2>r, <2>o, DecodeInWord, StoreKeepsMemory DEF MovRegMem, Executes
    <3>2. QED
      BY <2>2, <3>1, <2>n, <2>p, <2>c
         DEF MovRegMem, Executes, Finish, next_rip, TypeOK, FlagsOK
  <2>3. CASE MovMemReg
    <3>1. Load(decode_operand(Src)) \in Word
      BY <2>3, <2>o, DecodeInWord, LoadInWord DEF MovMemReg, Executes
    <3>2. QED
      BY <2>3, <3>1, <2>n, <2>o, <2>p, <2>c
         DEF MovMemReg, Executes, Finish, next_rip, TypeOK, FlagsOK
  <2>4. CASE MovImmReg
    <3>1. decode_operand(Src) \in Word
      BY <2>4, <2>o, DecodeInWord DEF MovImmReg, Executes
    <3>2. QED
      BY <2>4, <3>1, <2>n, <2>o, <2>p, <2>c
         DEF MovImmReg, Executes, Finish, next_rip, TypeOK, FlagsOK
  <2>5. CASE Push
    <3>1. reg' \in [Regs -> Word]
      BY <2>5, <2>w, <2>u, <2>r, <2>s DEF Push, TypeOK
    <3>2. mem' \in [Cells -> Word]
      BY <2>5, <3>1, <2>o, <2>s, StoreKeepsMemory DEF Push, Executes
    <3>3. QED
      BY <2>5, <3>1, <3>2, <2>n, <2>p, <2>c DEF Push, Finish, next_rip, TypeOK, FlagsOK
  <2>6. CASE Pop
    <3>1. Load(reg["rsp"]) \in Word
      BY <2>r, <2>s, LoadInWord
    <3>2. QED
      BY <2>6, <3>1, <2>w, <2>u, <2>r, <2>s, <2>n, <2>o, <2>p, <2>c
         DEF Pop, Executes, Finish, next_rip, TypeOK, FlagsOK
  <2>7. CASE Leave
    <3>1. Load(reg["rbp"]) \in Word
      BY <2>r, <2>s, LoadInWord
    <3>2. QED
      BY <2>7, <3>1, <2>w, <2>u, <2>r, <2>s, <2>n, <2>p, <2>c
         DEF Leave, Finish, next_rip, TypeOK, FlagsOK
  <2>8. CASE Call
    <3>1. reg' \in [Regs -> Word]
      BY <2>8, <2>w, <2>u, <2>r, <2>s DEF Call, TypeOK
    <3>2. Frame \in Frames
      BY <2>n, <2>r, <2>s DEF Frame, Frames
    <3>3. mem' \in [Cells -> Word]
      BY <2>8, <3>1, <3>2, <2>s, StoreKeepsMemory DEF Call, Frames
    <3>4. decode_operand(Src) \in Word
      BY <2>8, <2>o, DecodeInWord DEF Call, Executes
    <3>5. frames' \in Seq(Frames)
      BY <2>8, <3>2 DEF Call, TypeOK, Frames
    <3>6. QED
      BY <2>8, <3>1, <3>3, <3>4, <3>5, <2>p, <2>c DEF Call, GoTo, TypeOK, FlagsOK, Frames
  <2>9. CASE Ret
    <3>1. Load(reg["rsp"]) \in Word
      BY <2>r, <2>s, LoadInWord
    <3>2. frames' \in Seq(Frames)
      <4>1. frames \in Seq(Frames)
        BY DEF TypeOK, Frames
      <4>2. CASE frames = <<>>
        BY <2>9, <4>1, <4>2 DEF Ret
      <4>3. CASE frames # <<>>
        BY <2>9, <4>1, <4>3 DEF Ret
      <4>4. QED
        BY <4>2, <4>3
    <3>3. reg' \in [Regs -> Word]
      BY <2>9, <2>w, <2>u, <2>r, <2>s DEF Ret, TypeOK
    <3>4. QED
      BY <2>9, <3>1, <3>2, <3>3, <2>p, <2>c DEF Ret, TypeOK, FlagsOK, Frames
  <2>10. CASE Add
    <3>1. Plus(reg[Src.reg1], reg[Dst.reg1]) \in Word
      BY <2>10, <2>r, <2>w, <2>o DEF Add, Executes
    <3>2. flags' \in FlagsOK
      BY <2>10, FlagsTyped DEF Add
    <3>3. QED
      BY <2>10, <3>1, <3>2, <2>n, <2>p DEF Add, next_rip, TypeOK, FlagsOK
  <2>11. CASE Sub
    <3>1. decode_operand(Src) \in Word
      BY <2>11, <2>o, DecodeInWord DEF Sub, Executes
    <3>2. Minus(reg[Dst.reg1], decode_operand(Src)) \in Word
      BY <2>11, <3>1, <2>r, <2>w, <2>o DEF Sub, Executes
    <3>3. flags' \in FlagsOK
      BY <2>11, FlagsTyped DEF Sub
    <3>4. QED
      BY <2>11, <3>2, <3>3, <2>n, <2>p DEF Sub, next_rip, TypeOK, FlagsOK
  <2>12. CASE Cmp
    <3>1. flags' \in FlagsOK
      BY <2>12, FlagsTyped DEF Cmp
    <3>2. QED
      BY <2>12, <3>1, <2>n, <2>p DEF Cmp, next_rip, TypeOK, FlagsOK
  <2>13. CASE Jne
    <3>1. decode_operand(Src) \in Word
      BY <2>13, <2>o, DecodeInWord DEF Jne, Executes
    <3>2. QED
      BY <2>13, <3>1, <2>n, <2>p, <2>c DEF Jne, next_rip, TypeOK, FlagsOK
  <2>14. CASE Jmp
    <3>1. decode_operand(Src) \in Word
      BY <2>14, <2>o, DecodeInWord DEF Jmp, Executes
    <3>2. QED
      BY <2>14, <3>1, <2>p, <2>c DEF Jmp, TypeOK, FlagsOK
  <2>15. CASE Unsupported
    BY <2>15, <2>p, <2>c DEF Unsupported, TypeOK, FlagsOK
  <2>16. CASE UNCHANGED vars
    BY <2>16, <2>p DEF vars, TypeOK
  <2>17. QED
    BY <2>1, <2>2, <2>3, <2>4, <2>5, <2>6, <2>7, <2>8, <2>9, <2>10, <2>11, <2>12,
       <2>13, <2>14, <2>15, <2>16 DEF Next
<1>3. QED
  BY <1>1, <1>2, PTL DEF Spec

-----------------------------------------------------------------------------
\* The flags of a sum, from the sum that wrapped around: OF is the sign of the
\* source, turned over.
LEMMA AddFlagsDescribe ==
  ASSUME NEW a \in Word, NEW b \in Word
  PROVE  LET f == AddFlags(b, Plus(b, a)) IN
         /\ f.CF = BitOf(a + b >= W)
         /\ f.ZF = BitOf(a + b \in {0, W})
         /\ f.SF = BitOf(Signed((a + b) % W) < 0)
         /\ f.OF = BitOf(Signed(b) >= 0)
<1> DEFINE v == (b + a) % W
<1>1. v = IF a + b >= W THEN a + b - W ELSE a + b
  BY SumWraps, WidthAssumption DEF Word
<1>2. v \in Word /\ (a + b) % W = v
  BY <1>1, WidthAssumption, SumWraps DEF Word
<1>3. v < b <=> a + b >= W
  BY <1>1, WidthAssumption DEF Word
<1>4. v = 0 <=> a + b \in {0, W}
  BY <1>1, WidthAssumption DEF Word
<1> HIDE DEF v
<1>5. 2 * v >= W <=> Signed(v) < 0
  BY <1>2, WidthAssumption DEF Word, Signed
<1>6. Plus(b, a) = v
  BY DEF Plus, v
<1>7. AddFlags(b, v).OF = BitOf(Signed(b) >= 0)
  <2>1. Signed(b) >= 0 <=> ~(2 * b >= W)
    BY WidthAssumption DEF Word, Signed
  <2> QED
    BY <2>1 DEF AddFlags, Overflow, BitOf, Sign
<1>8. QED
  BY <1>2, <1>3, <1>4, <1>5, <1>6, <1>7 DEF AddFlags, BitOf, Sign

\* A register added to itself: the sum stands for the source, and carries nothing.
LEMMA AddTwiceFlagsDescribe ==
  ASSUME NEW a \in Word
  PROVE  LET f == AddFlags(Plus(a, a), Plus(a, a)) IN
         /\ f.CF = 0
         /\ f.ZF = BitOf(a + a \in {0, W})
         /\ f.SF = BitOf(Signed((a + a) % W) < 0)
         /\ f.OF = BitOf(Signed(Plus(a, a)) >= 0)
<1> DEFINE v == (a + a) % W
<1>1. v = IF a + a >= W THEN a + a - W ELSE a + a
  BY SumWraps
<1>2. v \in Word
  BY <1>1, WidthAssumption DEF Word
<1>3. v = 0 <=> a + a \in {0, W}
  BY <1>1, WidthAssumption DEF Word
<1> HIDE DEF v
<1>4. /\ 2 * v >= W <=> Signed(v) < 0
      /\ Signed(v) >= 0 <=> ~(2 * v >= W)
      /\ ~(v < v)
  BY <1>2, WidthAssumption DEF Word, Signed
<1>5. Plus(a, a) = v
  BY DEF Plus, v
<1>6. (a + a) % W = v
  BY DEF v
<1>7. AddFlags(v, v).OF = BitOf(Signed(v) >= 0)
  BY <1>4 DEF AddFlags, Overflow, BitOf, Sign
<1>8. QED
  BY <1>3, <1>4, <1>5, <1>6, <1>7 DEF AddFlags, BitOf, Sign

\* The borrow, zero and sign of a difference.
LEMMA SubFlagsDescribe ==
  ASSUME NEW a \in Word, NEW b \in Word
  PROVE  LET f == SubFlags(b, a, Minus(a, b)) IN
         /\ f.CF = BitOf(a < b)
         /\ f.ZF = BitOf(a = b)
         /\ f.SF = BitOf(Signed((a - b) % W) < 0)
<1> DEFINE v == (a - b) % W
<1>1. v = IF a < b THEN a - b + W ELSE a - b
  BY DifferenceWraps
<1>2. v \in Word
  BY <1>1, WidthAssumption DEF Word
<1>3. v > a <=> a < b
  BY <1>1, WidthAssumption DEF Word
<1>4. v = 0 <=> a = b
  BY <1>1, WidthAssumption DEF Word
<1> HIDE DEF v
<1>5. 2 * v >= W <=> Signed(v) < 0
  BY <1>2, WidthAssumption DEF Word, Signed
<1>6. Minus(a, b) = v /\ (a - b) % W = v
  BY DEF Minus, v
<1>7. QED
  BY <1>3, <1>4, <1>5, <1>6 DEF SubFlags, BitOf, Sign

\* When the OF of a difference is its overflow.
LEMMA SubOverflowDescribe ==
  ASSUME NEW a \in Word, NEW b \in Word
  PROVE  SubFlags(b, a, Minus(a, b)).OF = BitOf(Overflows(a, b))
           <=> IF Sign(a) = Sign(b) THEN a < b ELSE Signed(a) >= 0
<1> DEFINE v == (a - b) % W
<1>1. v = IF a < b THEN a - b + W ELSE a - b
  BY DifferenceWraps
<1>2. a \in Int /\ b \in Int /\ 0 <= a /\ a < W /\ 0 <= b /\ b < W
  BY WidthAssumption DEF Word
<1>3. v \in Int /\ 0 <= v /\ v < W
  BY <1>1, <1>2, WidthAssumption
<1> HIDE DEF v
\* Of one sign: the difference fits, and is negative exactly if a < b.
<1>4. ASSUME Sign(a) = Sign(b)
      PROVE  /\ Signed(v) = Signed(a) - Signed(b)
             /\ 2 * v >= W <=> a < b
  <2>1. 2 * a >= W <=> 2 * b >= W
    BY <1>4 DEF Sign, BitOf
  <2> QED
    BY <1>1, <1>2, <1>3, <2>1, WidthAssumption DEF Signed
\* Of two signs: it fits if it has the sign of a.
<1>5. ASSUME Sign(a) # Sign(b)
      PROVE  Signed(v) = Signed(a) - Signed(b) <=> (2 * v >= W <=> 2 * a >= W)
  <2>1. 2 * a >= W <=> ~(2 * b >= W)
    BY <1>5 DEF Sign, BitOf
  <2> QED
    BY <1>1, <1>2, <1>3, <2>1, WidthAssumption DEF Signed
<1>6. Signed(a) >= 0 <=> ~(2 * a >= W)
  BY <1>2, WidthAssumption DEF Signed
<1>7. Minus(a, b) = v /\ (a - b) % W = v
  BY DEF Minus, v
<1>8. SubFlags(b, a, v).OF
        = BitOf(IF Sign(a) = Sign(b) THEN ~(2 * v >= W) ELSE 2 * v >= W)
  BY DEF SubFlags, Overflow, Sign, BitOf
<1>9. Overflows(a, b) <=> Signed(v) # Signed(a) - Signed(b)
  BY <1>7 DEF Overflows
<1>10. QED
  <2>1. CASE Sign(a) = Sign(b)
    <3>1. ~Overflows(a, b)
      BY <1>4, <1>9, <2>1
    <3> QED
      BY <1>4, <1>7, <1>8, <2>1, <3>1 DEF BitOf
  <2>2. CASE Sign(a) # Sign(b)
    <3>1. Overflows(a, b) <=> (2 * v >= W <=> ~(2 * a >= W))
      BY <1>5, <1>9, <2>2
    <3> QED
      BY <1>6, <1>7, <1>8, <2>2, <3>1 DEF BitOf
  <2> QED
    BY <2>1, <2>2

\* After an add, a sub or a cmp the carry (but for add r,r), zero and sign flags
\* say what x86 says of the operands, for words of every width, and the overflow
\* flag is what the code makes of it.
THEOREM FlagsDescribeHolds == Spec => FlagsDescribe
<1>1. ASSUME TypeOK PROVE AddDescribed
  <2>1. SUFFICES ASSUME Add PROVE AddDescribed
    BY DEF AddDescribed
  <2> DEFINE a == reg[Dst.reg1]
             b == reg[Src.reg1]
  <2>2. Src.reg1 \in Regs /\ Dst.reg1 \in Regs
    BY <1>1, <2>1, OperandsOK DEF Add, Executes, Operand
  <2>3. a \in Word /\ b \in Word
    BY <1>1, <2>2 DEF TypeOK
  <2>4. /\ reg'[Src.reg1] = IF Src.reg1 = Dst.reg1 THEN Plus(b, a) ELSE b
        /\ flags' = AddFlags(reg'[Src.reg1], Plus(b, a))
    BY <1>1, <2>1, <2>2 DEF Add, TypeOK
  <2>5. Src.reg1 = Dst.reg1 => a = b
    OBVIOUS
  <2> DEFINE s == reg'[Src.reg1]
             same == Src.reg1 = Dst.reg1
  <2>6. /\ s = IF same THEN Plus(b, a) ELSE b
        /\ flags' = AddFlags(s, Plus(b, a))
        /\ same => a = b
    BY <2>4, <2>5
  <2> HIDE DEF a, b, s, same
  <2>7. /\ flags'.CF = IF same THEN 0 ELSE BitOf(a + b >= W)
        /\ flags'.ZF = BitOf(a + b \in {0, W})
        /\ flags'.SF = BitOf(Signed((a + b) % W) < 0)
        /\ flags'.OF = BitOf(Signed(s) >= 0)
    <3>1. CASE same
      <4>1. b = a /\ s = Plus(a, a) /\ flags' = AddFlags(Plus(a, a), Plus(a, a))
        BY <2>6, <3>1
      <4> QED
        BY <2>3, <3>1, <4>1, AddTwiceFlagsDescribe
    <3>2. CASE ~same
      <4>1. s = b /\ flags' = AddFlags(b, Plus(b, a))
        BY <2>6, <3>2
      <4> QED
        BY <2>3, <3>2, <4>1, AddFlagsDescribe
    <3> QED
      BY <3>1, <3>2
  <2>8. QED
    BY <2>7 DEF AddDescribed, a, b, s, same
<1>2. ASSUME TypeOK PROVE SubDescribed
  <2>1. SUFFICES ASSUME Sub \/ Cmp PROVE SubDescribed
    BY DEF SubDescribed
  <2> DEFINE a == IF Op = "sub" THEN reg[Dst.reg1] ELSE Load(decode_operand(Dst))
             b == decode_operand(Src)
  <2>2. Src \in Operand /\ Dst \in Operand
    BY <1>2, <2>1, OperandsOK DEF Sub, Cmp, Executes
  <2>r. Dst.reg1 \in Regs
    BY <2>2 DEF Operand
  <2>d. \A od \in Operand : decode_operand(od) \in Word
    BY <1>2, DecodeInWord
  <2>3. b \in Word
    BY <2>2, <2>d
  <2>4. a \in Word
    <3>1. reg[Dst.reg1] \in Word
      BY <1>2, <2>r DEF TypeOK
    <3>2. decode_operand(Dst) \in Word
      BY <2>2, <2>d
    <3> DEFINE vaddr == decode_operand(Dst)
    <3> HIDE DEF vaddr
    <3>3. Load(vaddr) \in Word
      BY <1>2, <3>2, LoadInWord DEF vaddr
    <3>4. QED
      BY <3>1, <3>3 DEF vaddr
  <2>5. flags' = SubFlags(b, a, Minus(a, b))
    <3>1. CASE Sub
      BY <3>1 DEF Sub, Executes
    <3>2. CASE Cmp
      BY <3>2 DEF Cmp, Executes
    <3>3. QED
      BY <2>1, <3>1, <3>2
  <2> HIDE DEF a, b
  <2>6. /\ flags'.CF = BitOf(a < b)
        /\ flags'.ZF = BitOf(a = b)
        /\ flags'.SF = BitOf(Signed((a - b) % W) < 0)
    BY <2>3, <2>4, <2>5, SubFlagsDescribe
  <2>7. flags'.OF = BitOf(Overflows(a, b))
          <=> IF Sign(a) = Sign(b) THEN a < b ELSE Signed(a) >= 0
    BY <2>3, <2>4, <2>5, SubOverflowDescribe
  <2>8. QED
    BY <2>6, <2>7 DEF SubDescribed, a, b
<1>3. QED
  BY <1>1, <1>2, TypeCorrect, PTL DEF FlagsDescribe

-----------------------------------------------------------------------------
(* The bytes of a word of memory, which DramWord stores and loads one at a *)
(* time, for every number of values of a byte and of bytes of a word       *)

\* A non-empty set of numbers has a least element.
LEMMA LeastNatural ==
  ASSUME NEW T \in SUBSET Nat, T # {}
  PROVE  \E x \in T : \A y \in T : x <= y
<1> DEFINE R == {p \in Nat \X Nat : p[1] < p[2]}
<1>1. IsWellFoundedOn(R, Nat)
  BY NatLessThanWellFounded DEF OpToRel
<1>2. PICK x \in T : \A y \in T : <<y, x>> \notin R
  <2> HIDE DEF R
  <2> QED
    BY <1>1, WFMin
<1>3. ASSUME NEW y \in T PROVE x <= y
  <2>1. <<y, x>> \notin R /\ x \in Nat /\ y \in Nat
    BY <1>2
  <2>2. ~(y < x)
    BY <2>1
  <2> QED
    BY <2>1, <2>2
<1> QED
  BY <1>3

\* Induction: a set with 0 and all successors has all numbers.
LEMMA NaturalSet ==
  ASSUME NEW T, 0 \in T, \A n \in Nat : n \in T => n + 1 \in T
  PROVE  Nat \subseteq T
<1> SUFFICES ASSUME Nat \ T # {} PROVE FALSE
  OBVIOUS
<1>1. PICK x \in Nat \ T : \A y \in Nat \ T : x <= y
  BY LeastNatural
<1>2. x - 1 \in Nat /\ x - 1 \notin Nat \ T
  BY <1>1
<1>3. (x - 1) + 1 \in T
  BY <1>2
<1> QED
  BY <1>1, <1>3

\* ... up to a bound.
LEMMA BoundedSet ==
  ASSUME NEW N \in Nat, NEW T, 0 \in T, \A n \in 0 .. N - 1 : n \in T => n + 1 \in T
  PROVE  0 .. N \subseteq T
<1> DEFINE U == {n \in Nat : n <= N => n \in T}
<1>1. 0 \in U
  OBVIOUS
<1>2. ASSUME NEW n \in Nat, n \in U PROVE n + 1 \in U
  <2> SUFFICES ASSUME n + 1 <= N PROVE n + 1 \in T
    OBVIOUS
  <2>1. n \in 0 .. N - 1 /\ n <= N
    OBVIOUS
  <2>2. n \in T
    BY <1>2, <2>1
  <2> QED
    BY <2>1, <2>2
<1>3. Nat \subseteq U
  <2> HIDE DEF U
  <2> QED
    BY <1>1, <1>2, NaturalSet
<1> QED
  BY <1>3

\* A function that is built up from its value at 0, with an operation for each
\* step, exists.
Steps(f, m, S, start, step) ==
  f \in [0 .. m -> S] /\ f[0] = start /\ \A n \in 1 .. m : f[n] = step[n][f[n - 1]]

LEMMA StepsExist ==
  ASSUME NEW N \in Nat, NEW S, NEW start \in S, NEW step \in [1 .. N -> [S -> S]]
  PROVE  \E f : Steps(f, N, S, start, step)
<1> DEFINE T == {m \in 0 .. N : \E f : Steps(f, m, S, start, step)}
<1>1. 0 \in T
  <2> DEFINE f == [n \in 0 .. 0 |-> start]
  <2>1. Steps(f, 0, S, start, step)
    BY DEF Steps
  <2> HIDE DEF f
  <2> QED
    BY <2>1
<1>2. ASSUME NEW m \in 0 .. N - 1, m \in T PROVE m + 1 \in T
  <2>1. PICK g : Steps(g, m, S, start, step)
    BY <1>2
  <2>2. /\ g \in [0 .. m -> S] /\ g[0] = start
        /\ \A n \in 1 .. m : g[n] = step[n][g[n - 1]]
    BY <2>1, Zenon DEF Steps
  <2> DEFINE f == [n \in 0 .. m + 1 |-> IF n = m + 1 THEN step[m + 1][g[m]] ELSE g[n]]
  <2>3. m \in Nat /\ m + 1 \in 1 .. N /\ m \in 0 .. m
    OBVIOUS
  <2>4. step[m + 1][g[m]] \in S
    BY <2>2, <2>3
  <2>5. \A n \in 0 .. m + 1 : n = m + 1 \/ n \in 0 .. m
    BY <2>3
  <2>6. f \in [0 .. m + 1 -> S] /\ f[0] = start
    BY <2>2, <2>3, <2>4, <2>5
  <2>7. f[m + 1] = step[m + 1][g[m]] /\ \A n \in 0 .. m : f[n] = g[n]
    BY <2>3
  <2> HIDE DEF f
  <2>8. ASSUME NEW n \in 1 .. m + 1 PROVE f[n] = step[n][f[n - 1]]
    <3>1. CASE n = m + 1
      <4>1. n - 1 = m
        BY <2>3, <3>1
      <4> QED
        BY <2>3, <2>7, <3>1, <4>1, Zenon
    <3>2. CASE n # m + 1
      <4>1. n \in 1 .. m /\ n \in 0 .. m /\ n - 1 \in 0 .. m
        BY <2>3, <3>2
      <4> QED
        BY <2>2, <2>7, <4>1, Zenon
    <3> QED
      BY <3>1, <3>2, Zenon
  <2>9. Steps(f, m + 1, S, start, step)
    BY <2>6, <2>8, Zenon DEF Steps
  <2>10. m + 1 \in 0 .. N
    BY <2>3
  <2> QED
    BY <2>9, <2>10
<1>3. N \in 0 .. N
  OBVIOUS
<1> HIDE DEF T
<1>4. 0 .. N \subseteq T
  BY <1>1, <1>2, BoundedSet
<1> QED
  BY <1>3, <1>4 DEF T

-----------------------------------------------------------------------------
(* Places and encodings                                                    *)

LEMMA PlacesAre ==
  /\ \A n \in 0 .. WordBytes : Place[n] \in Nat \ {0}
  /\ Place[0] = 1
  /\ \A n \in 0 .. WordBytes - 1 : Place[n + 1] = Base * Place[n]
<1> DEFINE Value(f, w) == IF w = 0 THEN 1 ELSE Base * f[w - 1]
           IsPlace(f) == f = [w \in 0 .. WordBytes |-> Value(f, w)]
           step == [n \in 1 .. WordBytes |-> [x \in Nat \ {0} |-> Base * x]]
           S == Nat \ {0}
<1>1. WordBytes \in Nat /\ Base \in Nat /\ Base >= 2
  BY DramAssumption
<1>2. step \in [1 .. WordBytes -> [S -> S]] /\ 1 \in S
  <2>1. \A x \in S : Base * x \in S
    BY <1>1
  <2> QED
    BY <2>1
<1>3. PICK f : Steps(f, WordBytes, S, 1, step)
  <2> HIDE DEF step, S
  <2> QED
    BY <1>1, <1>2, StepsExist
<1>4. f \in [0 .. WordBytes -> S] /\ f[0] = 1
  BY <1>3, Zenon DEF Steps
<1>5. \A n \in 1 .. WordBytes : f[n] = Base * f[n - 1]
  <2> SUFFICES ASSUME NEW n \in 1 .. WordBytes PROVE f[n] = Base * f[n - 1]
    OBVIOUS
  <2>1. n - 1 \in 0 .. WordBytes
    BY <1>1
  <2>2. f[n - 1] \in S
    BY <1>4, <2>1
  <2>3. f[n] = step[n][f[n - 1]]
    BY <1>3, Zenon DEF Steps
  <2> QED
    BY <2>2, <2>3
<1>6. IsPlace(f)
  <2>1. \A w \in 0 .. WordBytes : f[w] = Value(f, w)
    <3>1. \A w \in 0 .. WordBytes : w = 0 \/ w \in 1 .. WordBytes
      BY <1>1
    <3> QED
      BY <1>4, <1>5, <3>1, Zenon
  <2> HIDE DEF Value
  <2> QED
    BY <1>4, <2>1
<1>7. IsPlace(Place)
  <2>1. Place = CHOOSE g : IsPlace(g)
    BY Zenon DEF Place
  <2> HIDE DEF IsPlace
  <2> QED
    BY <1>6, <2>1, Zenon
<1> DEFINE p == Place
<1>8. \A w \in 0 .. WordBytes : p[w] = Value(p, w)
  <2> HIDE DEF Value, p
  <2> QED
    BY <1>7, Zenon DEF p
<1> HIDE DEF p
<1> DEFINE T == {n \in 0 .. WordBytes : p[n] \in Nat \ {0}}
<1>9. p[0] = 1 /\ \A n \in 0 .. WordBytes - 1 : p[n + 1] = Base * p[n]
  <2>1. 0 \in 0 .. WordBytes
    BY <1>1
  <2>2. ASSUME NEW n \in 0 .. WordBytes - 1 PROVE p[n + 1] = Base * p[n]
    <3>1. n + 1 \in 0 .. WordBytes /\ n + 1 # 0 /\ (n + 1) - 1 = n
      BY <1>1
    <3> QED
      BY <1>8, <3>1, Zenon
  <2> QED
    BY <1>8, <2>1, <2>2, Zenon
<1>10. 0 \in T
  BY <1>1, <1>9
<1>11. ASSUME NEW n \in 0 .. WordBytes - 1, n \in T PROVE n + 1 \in T
  <2>1. p[n + 1] = Base * p[n] /\ p[n] \in Nat \ {0}
    BY <1>9, <1>11
  <2> QED
    BY <1>1, <2>1
<1>12. 0 .. WordBytes \subseteq T
  <2> HIDE DEF T
  <2> QED
    BY <1>1, <1>10, <1>11, BoundedSet
<1> QED
  BY <1>9, <1>12 DEF p

\* A place is at least as large as those before it.
LEMMA PlacesGrow ==
  ASSUME NEW m \in 0 .. WordBytes
  PROVE  \A n \in 0 .. WordBytes : m <= n => Place[m] <= Place[n]
<1> DEFINE p == Place
           T == {n \in 0 .. WordBytes : m <= n => p[m] <= p[n]}
<1>1. /\ WordBytes \in Nat /\ Base \in Nat /\ Base >= 2
      /\ \A n \in 0 .. WordBytes : p[n] \in Nat \ {0}
      /\ \A n \in 0 .. WordBytes - 1 : p[n + 1] = Base * p[n]
  BY PlacesAre, DramAssumption
<1> HIDE DEF p
<1>2. 0 \in T
  <2>1. m <= 0 => m = 0
    OBVIOUS
  <2> QED
    BY <1>1, <2>1
<1>3. ASSUME NEW n \in 0 .. WordBytes - 1, n \in T PROVE n + 1 \in T
  <2>1. n \in 0 .. WordBytes /\ n + 1 \in 0 .. WordBytes /\ n \in Int /\ m \in Int
    BY <1>1
  <2>2. p[n] \in Nat /\ p[m] \in Nat /\ p[n + 1] = Base * p[n]
    BY <1>1, <2>1
  <2>3. p[n] <= Base * p[n]
    BY <1>1, <2>2
  <2>4. CASE m <= n
    <3>1. p[m] <= p[n]
      BY <1>3, <2>4
    <3>2. p[m] <= Base * p[n]
      <4>1. Base * p[n] \in Nat
        BY <1>1, <2>2
      <4> QED
        BY <2>2, <2>3, <3>1, <4>1
    <3> QED
      BY <2>1, <2>2, <3>2
  <2>5. CASE m = n + 1
    BY <2>1, <2>2, <2>5
  <2>6. CASE m > n + 1
    BY <2>1, <2>6
  <2> QED
    BY <2>1, <2>4, <2>5, <2>6
<1>4. 0 .. WordBytes \subseteq T
  <2> HIDE DEF T
  <2> QED
    BY <1>1, <1>2, <1>3, BoundedSet
<1> QED
  BY <1>4 DEF p

LEMMA EncodedIs ==
  ASSUME NEW memory, NEW a \in Nat,
         \A k \in 0 .. WordBytes - 1 : memory[a + k] \in Bytes
  PROVE  /\ Encoded(memory, a)[0] = 0
         /\ \A n \in 0 .. WordBytes - 1 :
              Encoded(memory, a)[n + 1] =
                Encoded(memory, a)[n] + memory[a + n] * Place[n]
         /\ \A n \in 0 .. WordBytes :
              Encoded(memory, a)[n] \in 0 .. Place[n] - 1
<1> DEFINE p == Place
           Value(f, n) == IF n = 0 THEN 0 ELSE f[n - 1] + memory[a + (n - 1)] * p[n - 1]
           IsWord(f) == f = [n \in 0 .. WordBytes |-> Value(f, n)]
           step == [n \in 1 .. WordBytes |-> [x \in Nat |-> x + memory[a + (n - 1)] * p[n - 1]]]
<1>1. /\ WordBytes \in Nat /\ Base \in Nat /\ Base >= 2
      /\ \A n \in 0 .. WordBytes : p[n] \in Nat \ {0}
      /\ p[0] = 1
      /\ \A n \in 0 .. WordBytes - 1 : p[n + 1] = Base * p[n]
  BY PlacesAre, DramAssumption
<1>2. \A k \in 0 .. WordBytes - 1 : memory[a + k] \in 0 .. Base - 1
  BY DEF Bytes
<1> HIDE DEF p
<1>3. \A k \in 0 .. WordBytes - 1 : memory[a + k] * p[k] \in Nat
  <2> SUFFICES ASSUME NEW k \in 0 .. WordBytes - 1 PROVE memory[a + k] * p[k] \in Nat
    OBVIOUS
  <2>1. memory[a + k] \in Nat /\ k \in 0 .. WordBytes
    BY <1>1, <1>2
  <2>2. p[k] \in Nat
    BY <1>1, <2>1
  <2> QED
    BY <2>1, <2>2
<1>4. step \in [1 .. WordBytes -> [Nat -> Nat]]
  <2>1. \A n \in 1 .. WordBytes : memory[a + (n - 1)] * p[n - 1] \in Nat
    <3>1. \A n \in 1 .. WordBytes : n - 1 \in 0 .. WordBytes - 1
      BY <1>1
    <3> QED
      BY <1>3, <3>1, Zenon
  <2> QED
    BY <2>1
<1>5. PICK f : Steps(f, WordBytes, Nat, 0, step)
  <2> HIDE DEF step
  <2> QED
    BY <1>1, <1>4, StepsExist
<1>6. f \in [0 .. WordBytes -> Nat] /\ f[0] = 0
  BY <1>5, Zenon DEF Steps
<1>7. \A n \in 1 .. WordBytes : f[n] = f[n - 1] + memory[a + (n - 1)] * p[n - 1]
  <2> SUFFICES ASSUME NEW n \in 1 .. WordBytes
               PROVE  f[n] = f[n - 1] + memory[a + (n - 1)] * p[n - 1]
    OBVIOUS
  <2>1. n - 1 \in 0 .. WordBytes
    BY <1>1
  <2>2. f[n - 1] \in Nat
    BY <1>6, <2>1
  <2>3. f[n] = step[n][f[n - 1]]
    BY <1>5, Zenon DEF Steps
  <2>4. step[n] = [x \in Nat |-> x + memory[a + (n - 1)] * p[n - 1]]
    BY Zenon
  <2> HIDE DEF step
  <2> QED
    BY <2>2, <2>3, <2>4, Zenon
<1>8. IsWord(f)
  <2>1. \A n \in 0 .. WordBytes : f[n] = Value(f, n)
    <3>1. \A n \in 0 .. WordBytes : n = 0 \/ n \in 1 .. WordBytes
      BY <1>1
    <3> QED
      BY <1>6, <1>7, <3>1, Zenon
  <2> HIDE DEF Value
  <2> QED
    BY <1>6, <2>1
<1> DEFINE e == Encoded(memory, a)
<1>9. IsWord(e)
  <2>1. e = CHOOSE g : IsWord(g)
    BY Zenon DEF Encoded, p
  <2> HIDE DEF IsWord, e
  <2> QED
    BY <1>8, <2>1, Zenon
<1>10. \A n \in 0 .. WordBytes : e[n] = Value(e, n)
  <2> HIDE DEF Value, e
  <2> QED
    BY <1>9, Zenon
<1> HIDE DEF e
<1>11. e[0] = 0
  <2>1. 0 \in 0 .. WordBytes
    BY <1>1
  <2> QED
    BY <1>10, <2>1, Zenon
<1>12. \A n \in 0 .. WordBytes - 1 : e[n + 1] = e[n] + memory[a + n] * p[n]
  <2> SUFFICES ASSUME NEW n \in 0 .. WordBytes - 1
               PROVE  e[n + 1] = e[n] + memory[a + n] * p[n]
    OBVIOUS
  <2>1. n + 1 \in 0 .. WordBytes /\ n + 1 # 0 /\ (n + 1) - 1 = n
    BY <1>1
  <2> QED
    BY <1>10, <2>1, Zenon
<1> DEFINE T == {n \in 0 .. WordBytes : e[n] \in 0 .. p[n] - 1}
<1>13. 0 \in T
  BY <1>1, <1>11
<1>14. ASSUME NEW n \in 0 .. WordBytes - 1, n \in T PROVE n + 1 \in T
  <2>1. n \in 0 .. WordBytes /\ n + 1 \in 0 .. WordBytes
    BY <1>1
  <2> DEFINE b == memory[a + n]
             q == p[n]
  <2>2. e[n] \in 0 .. q - 1 /\ q \in Nat \ {0} /\ b \in 0 .. Base - 1
    BY <1>1, <1>2, <1>14, <2>1
  <2>3. e[n + 1] = e[n] + b * q /\ p[n + 1] = Base * q
    BY <1>1, <1>12
  <2> HIDE DEF b, q
  <2>4. b * q \in Nat /\ b * q <= (Base - 1) * q
    BY <1>1, <2>2
  <2>5. (Base - 1) * q = Base * q - q /\ Base * q \in Nat
    BY <1>1, <2>2
  <2>6. e[n] + b * q \in 0 .. Base * q - 1
    BY <2>2, <2>4, <2>5
  <2> QED
    BY <2>1, <2>3, <2>6
<1>15. 0 .. WordBytes \subseteq T
  <2> HIDE DEF T
  <2> QED
    BY <1>1, <1>13, <1>14, BoundedSet
<1> QED
  BY <1>11, <1>12, <1>15 DEF p, e

-----------------------------------------------------------------------------
(* Division and remainder                                                  *)

LEMMA DivisionIs ==
  ASSUME NEW d \in Nat, NEW b \in Nat \ {0}
  PROVE  /\ d \div b \in Nat /\ d % b \in 0 .. b - 1
         /\ d = b * (d \div b) + (d % b)
<1>1. d \div b \in Int /\ d % b \in 0 .. b - 1 /\ d = b * (d \div b) + (d % b)
  OBVIOUS
<1> DEFINE q == d \div b
           r == d % b
<1>2. q \in Int /\ r \in 0 .. b - 1 /\ d = b * q + r
  BY <1>1
<1> HIDE DEF q, r
<1>3. ASSUME q < 0 PROVE FALSE
  <2>1. b * q <= b * (-1)
    BY <1>2, <1>3
  <2>2. b * (-1) = -b
    OBVIOUS
  <2>3. b * q \in Int
    BY <1>2
  <2> QED
    BY <1>2, <2>1, <2>2, <2>3
<1>4. q \in Nat
  BY <1>2, <1>3
<1> QED
  BY <1>2, <1>4 DEF q, r

LEMMA RemainderUnique ==
  ASSUME NEW a \in Int, NEW b \in Nat \ {0}, NEW q \in Int, NEW r \in 0 .. b - 1,
         a = b * q + r
  PROVE  a % b = r
OBVIOUS

LEMMA RemainderSmall ==
  ASSUME NEW b \in Nat \ {0}, NEW a \in 0 .. b - 1
  PROVE  a % b = a
OBVIOUS

\* One more digit of d in base b, behind those below p.
LEMMA NextDigit ==
  ASSUME NEW d \in Nat, NEW b \in Nat \ {0}, NEW p \in Nat \ {0}
  PROVE  d % (b * p) = (d % p) + ((d \div p) % b) * p
<1> DEFINE q == d \div p
           r == d % p
           s == q \div b
           t == q % b
           c == b * p
           x == r + t * p
<1>1. q \in Nat /\ r \in 0 .. p - 1 /\ d = p * q + r
  BY DivisionIs
<1>2. s \in Nat /\ t \in 0 .. b - 1 /\ q = b * s + t
  BY <1>1, DivisionIs
<1> HIDE DEF q, r, s, t
<1>3. c \in Nat \ {0}
  OBVIOUS
<1>4. x \in 0 .. c - 1
  <2>1. t * p \in Nat /\ t * p <= (b - 1) * p
    BY <1>2
  <2>2. (b - 1) * p = b * p - p /\ b * p \in Nat
    OBVIOUS
  <2> QED
    BY <1>1, <2>1, <2>2
<1>5. d = c * s + x
  <2>1. d = p * (b * s + t) + r
    BY <1>1, <1>2
  <2>2. p * (b * s + t) = p * (b * s) + p * t
    BY <1>2
  <2>3. p * (b * s) = (b * p) * s /\ p * t = t * p
    BY <1>2
  <2> QED
    BY <1>1, <1>2, <2>1, <2>2, <2>3
<1> HIDE DEF c, x
<1>6. d % c = x
  BY <1>2, <1>3, <1>4, <1>5, RemainderUnique
<1> QED
  BY <1>6 DEF c, x, q, r, t

\* The bytes of a word encode it.
LEMMA EncodesWord ==
  ASSUME NEW memory, NEW a \in Nat,
         NEW d \in 0 .. Place[WordBytes] - 1,
         \A k \in 0 .. WordBytes - 1 : memory[a + k] = ByteOf(d, k)
  PROVE  LittleEndian(memory, a) = d
<1> DEFINE p == Place
           e == Encoded(memory, a)
           T == {n \in 0 .. WordBytes : e[n] = d % p[n]}
<1>1. /\ WordBytes \in Nat /\ Base \in Nat \ {0}
      /\ \A n \in 0 .. WordBytes : p[n] \in Nat \ {0}
      /\ p[0] = 1
      /\ \A n \in 0 .. WordBytes - 1 : p[n + 1] = Base * p[n]
  BY PlacesAre, DramAssumption
<1>2. d \in 0 .. p[WordBytes] - 1 /\ d \in Nat
  <2>1. WordBytes \in 0 .. WordBytes
    BY <1>1
  <2>2. p[WordBytes] \in Nat
    BY <1>1, <2>1
  <2> QED
    BY <2>2
<1>3. \A k \in 0 .. WordBytes - 1 : memory[a + k] = (d \div p[k]) % Base
  BY DEF ByteOf
<1>4. \A k \in 0 .. WordBytes - 1 : memory[a + k] \in Bytes
  <2> SUFFICES ASSUME NEW k \in 0 .. WordBytes - 1 PROVE memory[a + k] \in Bytes
    OBVIOUS
  <2>1. k \in 0 .. WordBytes
    BY <1>1
  <2>2. p[k] \in Nat \ {0}
    BY <1>1, <2>1
  <2> DEFINE q == d \div p[k]
  <2>3. q \in Nat
    BY <1>2, <2>2, DivisionIs
  <2> HIDE DEF q
  <2>4. q % Base \in 0 .. Base - 1
    BY <1>1, <2>3, DivisionIs
  <2> QED
    BY <1>3, <2>4 DEF Bytes, q
<1>5. /\ e[0] = 0
      /\ \A n \in 0 .. WordBytes - 1 : e[n + 1] = e[n] + memory[a + n] * p[n]
  BY <1>4, EncodedIs
<1> HIDE DEF p, e
<1>6. 0 \in T
  <2>1. d % 1 = 0
    BY <1>2
  <2> QED
    BY <1>1, <1>5, <2>1
<1>7. ASSUME NEW n \in 0 .. WordBytes - 1, n \in T PROVE n + 1 \in T
  <2>1. n \in 0 .. WordBytes /\ n + 1 \in 0 .. WordBytes
    BY <1>1
  <2>2. p[n] \in Nat \ {0} /\ p[n + 1] = Base * p[n]
    BY <1>1, <2>1
  <2>3. d % (Base * p[n]) = (d % p[n]) + ((d \div p[n]) % Base) * p[n]
    <3>1. Base \in Nat \ {0} /\ d \in Nat /\ p[n] \in Nat \ {0}
      BY <1>1, <1>2, <2>2, Zenon
    <3> QED
      BY <3>1, NextDigit, Zenon
  <2>4. e[n + 1] = (d % p[n]) + ((d \div p[n]) % Base) * p[n]
    <3>1. e[n] = d % p[n]
      BY <1>7
    <3> QED
      BY <1>3, <1>5, <3>1, Zenon
  <2>5. e[n + 1] = d % p[n + 1]
    BY <2>2, <2>3, <2>4, Zenon
  <2> QED
    BY <2>1, <2>5
<1>8. 0 .. WordBytes \subseteq T
  <2> HIDE DEF T
  <2> QED
    BY <1>1, <1>6, <1>7, BoundedSet
<1>9. WordBytes \in 0 .. WordBytes
  BY <1>1
<1>10. e[WordBytes] = d % p[WordBytes]
  BY <1>8, <1>9
<1>11. d % p[WordBytes] = d
  <2>1. p[WordBytes] \in Nat \ {0}
    BY <1>1, <1>9
  <2> QED
    BY <1>2, <2>1, RemainderSmall
<1> QED
  BY <1>10, <1>11, Zenon DEF LittleEndian, e

\* No byte contributes more than the word.
LEMMA BytesBelowWord ==
  ASSUME NEW memory, NEW a \in Nat,
         \A k \in 0 .. WordBytes - 1 : memory[a + k] \in Bytes,
         NEW m \in 0 .. WordBytes - 1
  PROVE  /\ memory[a + m] * Place[m] \in Nat
         /\ memory[a + m] * Place[m] <= LittleEndian(memory, a)
<1> DEFINE p == Place
           e == Encoded(memory, a)
           y == memory[a + m] * p[m]
           T == {n \in 0 .. WordBytes : m < n => y <= e[n]}
<1>1. /\ WordBytes \in Nat /\ Base \in Nat
      /\ \A n \in 0 .. WordBytes : p[n] \in Nat \ {0}
      /\ \A n \in 0 .. WordBytes - 1 : e[n + 1] = e[n] + memory[a + n] * p[n]
      /\ \A n \in 0 .. WordBytes : e[n] \in 0 .. p[n] - 1
  <2>1. WordBytes \in Nat /\ Base \in Nat
    BY DramAssumption
  <2>2. \A n \in 0 .. WordBytes : p[n] \in Nat \ {0}
    BY PlacesAre, Zenon
  <2>3. /\ \A n \in 0 .. WordBytes - 1 : e[n + 1] = e[n] + memory[a + n] * p[n]
        /\ \A n \in 0 .. WordBytes : e[n] \in 0 .. p[n] - 1
    BY EncodedIs, Zenon
  <2> QED
    BY <2>1, <2>2, <2>3, Zenon
<1>2. \A k \in 0 .. WordBytes - 1 : memory[a + k] \in Nat
  BY <1>1 DEF Bytes
<1> HIDE DEF p, e
<1>3. \A k \in 0 .. WordBytes - 1 : memory[a + k] * p[k] \in Nat /\ e[k] \in Nat
  <2> SUFFICES ASSUME NEW k \in 0 .. WordBytes - 1
               PROVE  memory[a + k] * p[k] \in Nat /\ e[k] \in Nat
    OBVIOUS
  <2>1. k \in 0 .. WordBytes
    BY <1>1
  <2>2. p[k] \in Nat /\ e[k] \in 0 .. p[k] - 1 /\ memory[a + k] \in Nat
    BY <1>1, <1>2, <2>1
  <2> QED
    BY <2>2
<1>4. y \in Nat
  BY <1>3, Zenon
<1>5. 0 \in T
  BY <1>1
<1>6. ASSUME NEW n \in 0 .. WordBytes - 1, n \in T PROVE n + 1 \in T
  <2>1. n + 1 \in 0 .. WordBytes /\ n \in Nat /\ m \in Nat
    BY <1>1
  <2> DEFINE z == memory[a + n] * p[n]
  <2>2. z \in Nat /\ e[n] \in Nat /\ e[n + 1] = e[n] + z
    BY <1>1, <1>3
  <2>3. CASE m < n
    <3>1. y <= e[n]
      BY <1>6, <2>3
    <3> HIDE DEF y, z
    <3>2. y <= e[n + 1]
      BY <1>4, <2>2, <3>1
    <3> QED
      BY <2>1, <3>2
  <2>4. CASE m = n
    <3>1. y = z
      BY <2>4
    <3> HIDE DEF y, z
    <3>2. y <= e[n + 1]
      BY <1>4, <2>2, <3>1
    <3> QED
      BY <2>1, <3>2
  <2>5. CASE ~(m < n) /\ m # n
    BY <2>1, <2>5
  <2> QED
    BY <2>3, <2>4, <2>5
<1>7. 0 .. WordBytes \subseteq T
  <2> HIDE DEF T
  <2> QED
    BY <1>1, <1>5, <1>6, BoundedSet
<1>8. WordBytes \in 0 .. WordBytes /\ m < WordBytes
  BY <1>1
<1>9. y <= e[WordBytes]
  BY <1>7, <1>8
<1> QED
  BY <1>4, <1>9, Zenon DEF LittleEndian, e, y, p

LEMMA AsWordIs ==
  ASSUME NEW y \in Nat, 2 * y < Place[IntBytes],
         y < Place[WordBytes]
  PROVE  AsWord(y) = y
<1> DEFINE p == Place[IntBytes]
           w == Place[WordBytes]
<1>1. p \in Nat \ {0} /\ w \in Nat \ {0}
  <2>1. IntBytes \in 0 .. WordBytes /\ WordBytes \in 0 .. WordBytes
    BY DramAssumption
  <2> QED
    BY <2>1, PlacesAre
<1>2. AsWord(y) = (IF 2 * (y % p) >= p THEN (y % p) - p ELSE y % p) % w
  BY Zenon DEF AsWord
<1>3. 2 * y < p /\ y < w
  OBVIOUS
<1> HIDE DEF p, w
<1>4. y \in 0 .. p - 1 /\ y \in 0 .. w - 1
  BY <1>1, <1>3
<1>5. y % p = y /\ y % w = y
  BY <1>1, <1>4, RemainderSmall
<1>6. ~(2 * y >= p)
  BY <1>1, <1>3
<1> QED
  BY <1>2, <1>5, <1>6, Zenon

\* The shift in int is right for a word that is a non-negative int.
LEMMA ShiftedIs ==
  ASSUME NEW memory, NEW a \in Nat,
         \A k \in 0 .. WordBytes - 1 : memory[a + k] \in Bytes,
         sramEnabled => 2 * LittleEndian(memory, a) < Place[IntBytes],
         NEW n \in 0 .. WordBytes - 1, NEW x \in Shifted(memory[a + n], n)
  PROVE  x = memory[a + n] * Place[n]
<1> DEFINE p == Place
           b == memory[a + n]
           y == b * p[n]
           word == LittleEndian(memory, a)
<1>1. /\ WordBytes \in Nat \ {0} /\ IntBytes \in 1 .. WordBytes
      /\ \A k \in 0 .. WordBytes : p[k] \in Nat \ {0}
  BY PlacesAre, DramAssumption
<1>2. n \in 0 .. WordBytes /\ IntBytes \in 0 .. WordBytes /\ WordBytes \in 0 .. WordBytes
  BY <1>1
<1>3. y \in Nat /\ y <= word
  BY BytesBelowWord
<1>4. word \in 0 .. p[WordBytes] - 1
  BY <1>2, EncodedIs DEF LittleEndian
<1>5. b \in Nat
  BY DramAssumption DEF Bytes
<1>6. CASE ~sramEnabled
  BY <1>6 DEF Shifted
<1>7. CASE sramEnabled
  <2>1. x \in IntShifted(b, n)
    BY <1>7 DEF Shifted
  <2>2. 2 * word < p[IntBytes]
    BY <1>7
  <2>3. p[IntBytes] \in Nat \ {0} /\ p[WordBytes] \in Nat \ {0} /\ p[n] \in Nat \ {0}
    BY <1>1, <1>2
  <2>4. 2 * y < p[IntBytes] /\ y < p[WordBytes]
    <3> HIDE DEF y, p, word
    <3> QED
      BY <1>3, <1>4, <2>2, <2>3
  <2>5. CASE n < IntBytes
    <3>1. x = AsWord(y)
      BY <2>1, <2>5 DEF IntShifted
    <3>2. AsWord(y) = y
      <4> HIDE DEF y
      <4> QED
        BY <1>3, <2>4, AsWordIs
    <3> QED
      BY <3>1, <3>2, Zenon
  <2>6. CASE ~(n < IntBytes)
    <3>1. x \in {0, AsWord(b * p[n % IntBytes])}
      BY <2>1, <2>6 DEF IntShifted
    <3>2. p[IntBytes] <= p[n]
      BY <1>1, <1>2, <2>6, PlacesGrow
    <3>3. b = 0
      <4>1. 2 * (b * p[n]) < p[n]
        <5> HIDE DEF p
        <5> QED
          BY <1>3, <2>3, <2>4, <3>2
      <4> DEFINE q == p[n]
      <4>2. q \in Nat \ {0} /\ 2 * (b * q) < q
        BY <2>3, <4>1
      <4> HIDE DEF q, b
      <4>3. ASSUME b >= 1 PROVE FALSE
        <5>1. b * q >= q /\ b * q \in Nat
          BY <1>5, <4>2, <4>3
        <5> QED
          BY <4>2, <5>1
      <4> QED
        BY <1>5, <4>3
    <3>4. n % IntBytes \in 0 .. WordBytes
      <4>1. n % IntBytes \in 0 .. IntBytes - 1
        BY <1>1, <1>2
      <4> QED
        BY <1>1, <4>1
    <3>5. p[n % IntBytes] \in Nat
      BY <1>1, <3>4
    <3>6. b * p[n % IntBytes] = 0 /\ y = 0
      BY <2>3, <3>3, <3>5
    <3>7. AsWord(0) = 0
      BY <2>3, AsWordIs
    <3>8. x = 0 /\ y = 0
      BY <3>1, <3>6, <3>7, Zenon
    <3> QED
      BY <3>8, Zenon
  <2> QED
    BY <2>5, <2>6
<1> QED
  BY <1>6, <1>7

-----------------------------------------------------------------------------
(* Stores and loads                                                        *)

\* A word that is no non-negative int is read wrongly with the cache.
Readable == sramEnabled => 2 * LittleEndian(bytes, paddr) < Place[IntBytes]

WordsTyped ==
  /\ sramEnabled \in BOOLEAN
  /\ bytes \in [0 .. Size - 1 -> Bytes]
  /\ op \in {"idle", "read", "write", "loaded", "stored"}
  /\ paddr \in Nat /\ (op # "idle" => paddr + WordBytes <= Size)
  /\ i \in 0 .. WordBytes
  /\ op \in {"read", "write"} => i < WordBytes
  /\ op \in {"loaded", "stored"} => i = WordBytes
  /\ data \in 0 .. Place[WordBytes] - 1

\* A store has written the bytes below i, a load has added them.
WordInv ==
  /\ WordsTyped
  /\ op \in {"write", "stored"} =>
       \A k \in 0 .. i - 1 : bytes[paddr + k] = ByteOf(data, k)
  /\ op \in {"read", "loaded"} /\ Readable => val = Encoded(bytes, paddr)[i]

LEMMA InMemory ==
  ASSUME NEW a \in Nat, a + WordBytes <= Size,
         NEW memory \in [0 .. Size - 1 -> Bytes]
  PROVE  \A k \in 0 .. WordBytes - 1 : /\ a + k \in 0 .. Size - 1
                                       /\ memory[a + k] \in Bytes
<1> SUFFICES ASSUME NEW k \in 0 .. WordBytes - 1
             PROVE  a + k \in 0 .. Size - 1 /\ memory[a + k] \in Bytes
  OBVIOUS
<1>1. WordBytes \in Nat /\ Size \in Nat
  BY DramAssumption
<1>2. a + k \in 0 .. Size - 1
  BY <1>1
<1> QED
  BY <1>2

LEMMA WordBytesTyped ==
  ASSUME WordsTyped, op # "idle"
  PROVE  \A k \in 0 .. WordBytes - 1 : /\ paddr + k \in 0 .. Size - 1
                                       /\ bytes[paddr + k] \in Bytes
<1>1. paddr \in Nat /\ paddr + WordBytes <= Size /\ bytes \in [0 .. Size - 1 -> Bytes]
  BY Zenon DEF WordsTyped
<1> QED
  BY <1>1, InMemory, Zenon

LEMMA ByteOfTyped ==
  ASSUME NEW d \in Nat, NEW k \in 0 .. WordBytes - 1
  PROVE  ByteOf(d, k) \in Bytes
<1> DEFINE q == d \div Place[k]
<1>1. k \in 0 .. WordBytes /\ Base \in Nat \ {0}
  BY DramAssumption
<1>2. Place[k] \in Nat \ {0}
  BY <1>1, PlacesAre
<1>3. q \in Nat
  BY <1>2, DivisionIs
<1> HIDE DEF q
<1>4. q % Base \in 0 .. Base - 1
  BY <1>1, <1>3, DivisionIs
<1> QED
  BY <1>4, Zenon DEF ByteOf, Bytes, q

LEMMA InsideIs ==
  ASSUME NEW va \in Inside
  PROVE  va2pa(va) \in Nat /\ va2pa(va) + WordBytes <= Size
<1>1. va \in Nat /\ Size \in Nat \ {0} /\ (va % Size) + WordBytes <= Size
  BY DramAssumption DEF Inside, va2pa
<1>2. va % Size \in 0 .. Size - 1
  BY <1>1, DivisionIs
<1> QED
  BY <1>1, <1>2 DEF va2pa

LEMMA InitWordInv ==
  ASSUME DramInit
  PROVE  WordInv
<1>1. /\ WordBytes \in Nat \ {0} /\ Base \in Nat \ {0} /\ Builds \subseteq BOOLEAN
      /\ Place[WordBytes] \in Nat \ {0}
  <2>1. WordBytes \in 0 .. WordBytes
    BY DramAssumption
  <2> QED
    BY <2>1, PlacesAre, DramAssumption
<1>2. /\ sramEnabled \in Builds /\ bytes = [a \in 0 .. Size - 1 |-> 0]
      /\ op = "idle" /\ paddr = 0 /\ i = 0 /\ data = 0
  BY Zenon DEF DramInit
<1>3. bytes \in [0 .. Size - 1 -> Bytes]
  BY <1>1, <1>2 DEF Bytes
<1>4. WordsTyped
  BY <1>1, <1>2, <1>3 DEF WordsTyped
<1> QED
  BY <1>2, <1>4 DEF WordInv

LEMMA BeginReadInv ==
  ASSUME WordInv, NEW va \in Inside, cpu_read64bits_dram(va)
  PROVE  WordInv'
<1>1. /\ op' = "read" /\ paddr' = va2pa(va) /\ i' = 0 /\ val' = 0
      /\ UNCHANGED <<sramEnabled, bytes, data>>
  BY Zenon DEF cpu_read64bits_dram
<1>2. paddr' \in Nat /\ paddr' + WordBytes <= Size
  BY <1>1, InsideIs, Zenon
<1>3. WordsTyped'
  <2>1. WordBytes \in Nat \ {0}
    BY DramAssumption
  <2>2. WordsTyped
    BY Zenon DEF WordInv
  <2> QED
    BY <1>1, <1>2, <2>1, <2>2 DEF WordsTyped
<1>4. \A k \in 0 .. WordBytes - 1 : bytes'[paddr' + k] \in Bytes
  <2>1. bytes' \in [0 .. Size - 1 -> Bytes]
    BY <1>3, Zenon DEF WordsTyped
  <2> QED
    BY <1>2, <2>1, InMemory, Zenon
<1>5. Encoded(bytes', paddr')[0] = 0
  BY <1>2, <1>4, EncodedIs
<1> QED
  BY <1>1, <1>3, <1>5 DEF WordInv

LEMMA BeginWriteInv ==
  ASSUME WordInv, NEW va \in Inside, NEW d \in Data,
         cpu_write64bits_dram(va, d)
  PROVE  WordInv'
<1>1. /\ op' = "write" /\ paddr' = va2pa(va) /\ i' = 0 /\ data' = d
      /\ UNCHANGED <<sramEnabled, bytes, val>>
  BY Zenon DEF cpu_write64bits_dram
<1>2. paddr' \in Nat /\ paddr' + WordBytes <= Size
  BY <1>1, InsideIs, Zenon
<1>3. WordsTyped'
  <2>1. WordBytes \in Nat \ {0} /\ d \in 0 .. Place[WordBytes] - 1
    BY DramAssumption
  <2>2. WordsTyped
    BY Zenon DEF WordInv
  <2> QED
    BY <1>1, <1>2, <2>1, <2>2 DEF WordsTyped
<1> QED
  BY <1>1, <1>3 DEF WordInv

LEMMA WriteByteInv ==
  ASSUME WordInv, WriteByte
  PROVE  WordInv'
<1>1. /\ op = "write" /\ i < WordBytes
      /\ bytes' = [bytes EXCEPT ![paddr + i] = ByteOf(data, i)]
      /\ i' = i + 1 /\ op' = IF i' = WordBytes THEN "stored" ELSE op
      /\ UNCHANGED <<sramEnabled, paddr, val, data>>
  BY Zenon DEF WriteByte
<1>2. WordsTyped /\ \A k \in 0 .. i - 1 : bytes[paddr + k] = ByteOf(data, k)
  BY <1>1 DEF WordInv
<1>3. WordBytes \in Nat \ {0} /\ i \in 0 .. WordBytes - 1 /\ data \in Nat /\ paddr \in Nat
  <2>1. WordBytes \in Nat \ {0} /\ WordBytes \in 0 .. WordBytes
    BY DramAssumption
  <2>2. Place[WordBytes] \in Nat
    BY <2>1, PlacesAre
  <2> QED
    BY <1>1, <1>2, <2>1, <2>2 DEF WordsTyped
<1>4. \A k \in 0 .. WordBytes - 1 : paddr + k \in 0 .. Size - 1
  BY <1>1, <1>2, WordBytesTyped
<1>5. bytes' \in [0 .. Size - 1 -> Bytes]
  <2>1. ByteOf(data, i) \in Bytes
    BY <1>3, ByteOfTyped
  <2>2. bytes \in [0 .. Size - 1 -> Bytes]
    BY <1>2 DEF WordsTyped
  <2> QED
    BY <1>1, <2>1, <2>2
<1>6. op' \in {"write", "stored"} /\ (op' = "write" => i' < WordBytes)
      /\ (op' = "stored" => i' = WordBytes) /\ i' \in 0 .. WordBytes
  BY <1>1, <1>3
<1>7. WordsTyped'
  BY <1>1, <1>2, <1>5, <1>6 DEF WordsTyped
<1>8. ASSUME NEW k \in 0 .. i' - 1 PROVE bytes'[paddr' + k] = ByteOf(data', k)
  <2>1. k \in 0 .. i /\ k \in 0 .. WordBytes - 1 /\ paddr + k \in 0 .. Size - 1
    BY <1>1, <1>3, <1>4
  <2>2. DOMAIN bytes = 0 .. Size - 1
    BY <1>2 DEF WordsTyped
  <2>3. CASE k = i
    BY <1>1, <2>1, <2>2, <2>3
  <2>4. CASE k # i
    <3>1. k \in 0 .. i - 1 /\ paddr + k # paddr + i
      BY <1>3, <2>1, <2>4
    <3>2. bytes'[paddr + k] = bytes[paddr + k]
      BY <1>1, <2>1, <2>2, <3>1
    <3> QED
      BY <1>1, <1>2, <3>1, <3>2
  <2> QED
    BY <2>3, <2>4
<1> QED
  BY <1>6, <1>7, <1>8 DEF WordInv

LEMMA ReadByteInv ==
  ASSUME WordInv, ReadByte
  PROVE  WordInv'
<1>1. /\ op = "read" /\ i < WordBytes
      /\ i' = i + 1 /\ op' = IF i' = WordBytes THEN "loaded" ELSE op
      /\ UNCHANGED <<sramEnabled, bytes, paddr, data>>
  BY Zenon DEF ReadByte
<1>2. PICK x \in Shifted(bytes[paddr + i], i) : val' = (val + x) % Place[WordBytes]
  BY Zenon DEF ReadByte
<1>3. WordsTyped /\ (Readable => val = Encoded(bytes, paddr)[i])
  BY <1>1 DEF WordInv
<1>4. WordBytes \in Nat \ {0} /\ i \in 0 .. WordBytes - 1 /\ paddr \in Nat
  BY <1>1, <1>3, DramAssumption DEF WordsTyped
<1>5. op' \in {"read", "loaded"} /\ (op' = "read" => i' < WordBytes)
      /\ (op' = "loaded" => i' = WordBytes) /\ i' \in 0 .. WordBytes
  BY <1>1, <1>4
<1>6. WordsTyped'
  BY <1>1, <1>3, <1>5 DEF WordsTyped
<1>7. ASSUME Readable PROVE val' = Encoded(bytes, paddr)[i + 1]
  <2>1. \A k \in 0 .. WordBytes - 1 : bytes[paddr + k] \in Bytes
    BY <1>1, <1>3, WordBytesTyped
  <2>2. x = bytes[paddr + i] * Place[i]
    BY <1>2, <1>4, <1>7, <2>1, ShiftedIs DEF Readable
  <2> DEFINE e == Encoded(bytes, paddr)
             p == Place
  <2>3. i + 1 \in 0 .. WordBytes /\ WordBytes \in 0 .. WordBytes /\ i + 1 <= WordBytes
    BY <1>4
  <2>4. /\ e[i + 1] = e[i] + bytes[paddr + i] * p[i]
        /\ e[i + 1] \in 0 .. p[i + 1] - 1
    BY <1>4, <2>1, <2>3, EncodedIs
  <2>5. /\ p[i + 1] \in Nat \ {0} /\ p[WordBytes] \in Nat \ {0}
        /\ p[i + 1] <= p[WordBytes]
    BY <2>3, PlacesAre, PlacesGrow
  <2> HIDE DEF e, p
  <2>6. e[i + 1] \in 0 .. p[WordBytes] - 1
    BY <2>4, <2>5
  <2>7. e[i + 1] % p[WordBytes] = e[i + 1]
    BY <2>5, <2>6, RemainderSmall
  <2>8. val + x = e[i + 1]
    BY <1>3, <1>7, <2>2, <2>4, Zenon DEF e, p
  <2> QED
    BY <1>2, <2>7, <2>8, Zenon DEF e, p
<1>8. Readable' => Readable
  BY <1>1, Zenon DEF Readable
<1>9. op' \in {"read", "loaded"} /\ Readable' => val' = Encoded(bytes', paddr')[i']
  BY <1>1, <1>7, <1>8, Zenon
<1> QED
  BY <1>5, <1>6, <1>9 DEF WordInv

LEMMA StepWordInv ==
  ASSUME WordInv, [DramNext]_dram_vars
  PROVE  WordInv'
<1>1. CASE UNCHANGED dram_vars
  BY <1>1, Zenon DEF dram_vars, WordInv, WordsTyped, Readable
<1> QED
  BY <1>1, BeginReadInv, BeginWriteInv, ReadByteInv, WriteByteInv, Zenon DEF DramNext

LEMMA WordInvHolds == DramSpec => []WordInv
<1>1. DramInit => WordInv
  BY InitWordInv
<1>2. WordInv /\ [DramNext]_dram_vars => WordInv'
  BY StepWordInv
<1> QED
  BY <1>1, <1>2, PTL DEF DramSpec

\* For words of any number of bytes of any size: a store leaves the
\* little-endian encoding of its word, whatever was stored before.
THEOREM StoreEncodesHolds == DramSpec => []StoreEncodes
<1>1. ASSUME WordInv PROVE StoreEncodes
  <2> SUFFICES ASSUME op = "stored" PROVE LittleEndian(bytes, paddr) = data
    BY DEF StoreEncodes
  <2>1. /\ i = WordBytes /\ paddr \in Nat /\ data \in 0 .. Place[WordBytes] - 1
        /\ \A k \in 0 .. i - 1 : bytes[paddr + k] = ByteOf(data, k)
    BY <1>1 DEF WordInv, WordsTyped
  <2>2. \A k \in 0 .. WordBytes - 1 : bytes[paddr + k] = ByteOf(data, k)
    BY <2>1
  <2> QED
    BY <2>1, <2>2, EncodesWord
<1> QED
  BY <1>1, WordInvHolds, PTL

\* A load returns the word that is encoded in memory, in every build, unless
\* the shift in int of the build with the cache is wrong for that word.
THEOREM LoadDecodesUnlessWideHolds == DramSpec => []LoadDecodesUnlessWide
<1>1. ASSUME WordInv PROVE LoadDecodesUnlessWide
  <2>1. op = "loaded" => i = WordBytes
    BY <1>1 DEF WordInv, WordsTyped
  <2>2. op = "loaded" /\ Readable => val = Encoded(bytes, paddr)[i]
    BY <1>1 DEF WordInv
  <2>3. op = "loaded" /\ Readable => val = LittleEndian(bytes, paddr)
    BY <2>1, <2>2, Zenon DEF LittleEndian
  <2> QED
    BY <2>3, Zenon DEF LoadDecodesUnlessWide, Readable
<1> QED
  BY <1>1, WordInvHolds, PTL
=============================================================================
