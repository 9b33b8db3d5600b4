----------------------------- MODULE InstParser -----------------------------
(***************************************************************************)
(* parse_instruction and parse_operand of src/src/headware/cpu/isa.c: the  *)
(* text of an instruction becomes an operator and two operands.  Numbers   *)
(* are read by Convert, names are looked up in two tries that the first    *)
(* lookup builds.  instruction_cycle parses one instruction after another; *)
(* a text it cannot parse stops the program.  The operators named Mut...   *)
(* are faulty variants; nothing uses them here.                            *)
(***************************************************************************)
EXTENDS Convert, Trie

CONSTANTS Texts,        \* the instructions that the program may hold
          Operators,    \* the names of the operators and their values
          Registers     \* the names of the registers and their addresses

ASSUME TextsAssumption == Texts \subseteq Seq(STRING)

ASSUME TableAssumption ==
  /\ IsFiniteSet(DOMAIN Operators) /\ DOMAIN Operators \subseteq Seq(STRING)
  /\ IsFiniteSet(DOMAIN Registers) /\ DOMAIN Registers \subseteq Seq(STRING)
  /\ \A name \in DOMAIN Operators : Operators[name] \in Nat
  /\ \A name \in DOMAIN Registers : Registers[name] \in Nat \ {0}

NameBuffer == 8     \* char reg1[8], reg2[8]
ScaleBuffer == 2    \* char scal[2]
TextBuffer == 64    \* the other buffers

VARIABLES pc,           \* "idle", the part being parsed: "src", "dst", "op", then
                        \* "parsed"; "exit" or "undefined" when the program is lost
          step,         \* in an operand: "start", "imm", "scal", "scaled", "regs"
          text,         \* the instruction (ghost)
          op_str, src_str, dst_str,
          od,           \* the operand under construction
          inst,         \* the instruction under construction
          trie_inited

vars == <<convert_vars, pc, step, text, op_str, src_str, dst_str, od, inst, trie_inited>>

EmptyOperand == [type |-> "EMPTY", imm |-> 0, scal |-> 0, reg1 |-> 0, reg2 |-> 0]

NoInstruction == [op |-> 0, src |-> EmptyOperand, dst |-> EmptyOperand]

-----------------------------------------------------------------------------
(* parse_instruction splits the text at blanks and at the comma that is in *)
(* no parenthesis.                                                         *)
MutSplitState(s, c, parens) ==
  CASE s = 0 /\ c # " "                        -> 1
    [] s = 1 /\ c = " "                        -> 2
    [] s = 2 /\ c # " "                        -> 3
    [] s = 3 /\ c = ","                        -> 4
    [] s = 4 /\ c \notin {" ", ","}            -> 5
    [] s = 5 /\ c = " "                        -> 6
    [] OTHER                                   -> s

SplitState(s, c, parens) ==
  CASE s = 0 /\ c # " "                        -> 1
    [] s = 1 /\ c = " "                        -> 2
    [] s = 2 /\ c # " "                        -> 3
    [] s = 3 /\ c = "," /\ parens \in {0, 2}   -> 4
    [] s = 4 /\ c \notin {" ", ","}            -> 5
    [] s = 5 /\ c = " "                        -> 6
    [] OTHER                                   -> s

SplitCharacter(m, c) ==
  LET parens == IF c \in {"(", ")"} THEN m.parens + 1 ELSE m.parens
      s == SplitState(m.state, c, parens)
  IN  [state |-> s, parens |-> parens,
       op  |-> IF s = 1 THEN Append(m.op, c) ELSE m.op,
       src |-> IF s = 3 THEN Append(m.src, c) ELSE m.src,
       dst |-> IF s = 5 THEN Append(m.dst, c) ELSE m.dst]

Split(t) ==
  FoldLeft(SplitCharacter,
           [state |-> 0, parens |-> 0, op |-> <<>>, src |-> <<>>, dst |-> <<>>], t)

\* The fields of a memory operand imm(reg1,reg2,scal).
PartCharacter(m, c) ==
  IF c \in {"(", ")"} THEN [m EXCEPT !.parens = @ + 1]
  ELSE IF c = "," THEN [m EXCEPT !.commas = @ + 1]
  ELSE CASE m.parens = 0                   -> [m EXCEPT !.imm = Append(@, c)]
         [] m.parens = 1 /\ m.commas = 0 -> [m EXCEPT !.reg1 = Append(@, c)]
         [] m.parens = 1 /\ m.commas = 1 -> [m EXCEPT !.reg2 = Append(@, c)]
         [] m.parens = 1 /\ m.commas = 2 -> [m EXCEPT !.scal = Append(@, c)]
         [] OTHER                         -> m

Parts(t) ==
  FoldLeft(PartCharacter, [parens |-> 0, commas |-> 0, imm |-> <<>>, reg1 |-> <<>>,
                           reg2 |-> <<>>, scal |-> <<>>], t)

\* A field with no room for its closing zero runs over its buffer.
Fit(parts) ==
  /\ Len(parts.imm) < TextBuffer /\ Len(parts.scal) < ScaleBuffer
  /\ Len(parts.reg1) < NameBuffer /\ Len(parts.reg2) < NameBuffer

\* With three commas or more no case applies and the type stays EMPTY.
TypeOf(parts) ==
  LET imm == parts.imm # <<>> IN
  CASE parts.commas = 0 -> IF imm THEN "MEM_IMM_REG1" ELSE "MEM_REG1"
    [] parts.commas = 1 -> IF imm THEN "MEM_IMM_REG1_REG2" ELSE "MEM_REG1_REG2"
    [] parts.commas = 2 /\ parts.reg1 # <<>> ->
         IF imm THEN "MEM_IMM_REG1_REG2_SCAL" ELSE "MEM_REG1_REG2_SCAL"
    [] parts.commas = 2 /\ parts.reg1 = <<>> ->
         IF imm THEN "MEM_IMM_REG2_SCAL" ELSE "MEM_REG2_SCAL"
    [] OTHER -> "EMPTY"

-----------------------------------------------------------------------------
(* The lookup of names.                                                    *)
Inserted(table) ==
  FoldSet(LAMBDA name, t : trie_insert(t, name, table[name]), NoTrie, DOMAIN table)

RegisterTrie == Inserted(Registers)
OperatorTrie == Inserted(Operators)

\* Any lookup finds the tries, because an empty one is built first.
register_mapping == IF trie_inited' THEN RegisterTrie ELSE NoTrie
operator_mapping == IF trie_inited' THEN OperatorTrie ELSE NoTrie

lazy_init_trie == trie_inited' = TRUE

\* Exit or worse, if one of the lookups fails.
Lost(found) ==
  /\ pc' = IF \E r \in found : r.ret = "undefined" THEN "undefined" ELSE "exit"
  /\ UNCHANGED <<step, od, inst>>

AllFound(found) == \A r \in found : r.ret = "found"

-----------------------------------------------------------------------------
Init ==
  /\ ConvertInit
  /\ pc = "idle" /\ step = "start" /\ text = <<>>
  /\ op_str = <<>> /\ src_str = <<>> /\ dst_str = <<>>
  /\ od = EmptyOperand /\ inst = NoInstruction /\ trie_inited = FALSE

parse_instruction(t) ==
  LET m == Split(t) IN
  /\ pc = "idle"
  /\ text' = t
  /\ op_str' = m.op /\ src_str' = m.src /\ dst_str' = m.dst
  /\ pc' = IF \A s \in {m.op, m.src, m.dst} : Len(s) < TextBuffer THEN "src" ELSE "undefined"
  /\ UNCHANGED <<convert_vars, step, od, inst, trie_inited>>

Operand == IF pc = "src" THEN src_str ELSE dst_str
AtStep(s) == pc \in {"src", "dst"} /\ step = s
InMemory == Operand # <<>> /\ Operand[1] \notin {"$", "%"}
strings == <<text, op_str, src_str, dst_str>>

\* The operand is complete: the other one is next, or the operator.
Complete(operand) ==
  /\ inst' = [inst EXCEPT ![pc] = operand]
  /\ pc' = IF pc = "src" THEN "dst" ELSE "op"
  /\ step' = "start" /\ od' = EmptyOperand

NoOperand ==
  /\ AtStep("start") /\ Operand = <<>>
  /\ Complete(EmptyOperand)
  /\ UNCHANGED <<convert_vars, strings, trie_inited>>

Immediate ==
  /\ AtStep("start") /\ Operand # <<>> /\ Operand[1] = "$"
  /\ string2uint_range(Tail(Operand))
  /\ step' = "imm"
  /\ UNCHANGED <<pc, strings, od, inst, trie_inited>>

Register ==
  /\ AtStep("start") /\ Operand # <<>> /\ Operand[1] = "%"
  /\ lazy_init_trie
  /\ LET r == trie_get(register_mapping, Operand) IN
     IF r.ret = "found"
     THEN Complete([EmptyOperand EXCEPT !.type = "REG", !.reg1 = r.val])
     ELSE Lost({r})
  /\ UNCHANGED <<convert_vars, strings>>

Overrun ==
  /\ AtStep("start") /\ InMemory /\ ~Fit(Parts(Operand))
  /\ pc' = "undefined"
  /\ UNCHANGED <<convert_vars, step, strings, od, inst, trie_inited>>

\* imm is converted if it is there.
Memory ==
  /\ AtStep("start") /\ InMemory /\ Fit(Parts(Operand))
  /\ IF Parts(Operand).imm # <<>>
     THEN string2uint_range(Parts(Operand).imm) /\ step' = "imm"
     ELSE UNCHANGED convert_vars /\ step' = "scal"
  /\ UNCHANGED <<pc, strings, od, inst, trie_inited>>

ImmediateRead ==
  LET imm == [od EXCEPT !.imm = val] IN
  /\ AtStep("imm") /\ ret = "value"
  /\ CASE ~InMemory                  -> Complete([imm EXCEPT !.type = "IMM"])
       [] InMemory /\ Parts(Operand).parens = 0 -> Complete([imm EXCEPT !.type = "MEM_IMM"])
       [] OTHER -> od' = imm /\ step' = "scal" /\ UNCHANGED <<pc, inst>>
  /\ UNCHANGED <<convert_vars, strings, trie_inited>>

Scale ==
  /\ AtStep("scal")
  /\ IF Parts(Operand).scal # <<>>
     THEN string2uint_range(Parts(Operand).scal) /\ step' = "scaled"
     ELSE UNCHANGED convert_vars /\ step' = "regs"
  /\ UNCHANGED <<pc, strings, od, inst, trie_inited>>

ScaleRead ==
  /\ AtStep("scaled") /\ ret = "value"
  /\ IF val \in {1, 2, 4, 8}
     THEN od' = [od EXCEPT !.scal = val] /\ step' = "regs" /\ UNCHANGED pc
     ELSE pc' = "exit" /\ UNCHANGED <<od, step>>
  /\ UNCHANGED <<convert_vars, strings, inst, trie_inited>>

\* The registers that are there are looked up; the commas give the type.
MemoryRegisters ==
  LET parts == Parts(Operand)
      LookUp(name) == IF name = <<>> THEN [ret |-> "found", val |-> 0]
                      ELSE trie_get(register_mapping, name)
      r1 == LookUp(parts.reg1)
      r2 == LookUp(parts.reg2)
  IN
  /\ AtStep("regs")
  /\ IF parts.reg1 # <<>> \/ parts.reg2 # <<>> THEN lazy_init_trie ELSE UNCHANGED trie_inited
  /\ IF AllFound({r1, r2})
     THEN Complete([od EXCEPT !.type = TypeOf(parts), !.reg1 = r1.val, !.reg2 = r2.val])
     ELSE Lost(IF r1.ret = "found" THEN {r2} ELSE {r1})
  /\ UNCHANGED <<convert_vars, strings>>

NumberRefused ==
  /\ pc \in {"src", "dst"} /\ ret = "exit"
  /\ pc' = "exit"
  /\ UNCHANGED <<convert_vars, step, strings, od, inst, trie_inited>>

Operator ==
  /\ pc = "op"
  /\ lazy_init_trie
  /\ LET r == trie_get(operator_mapping, op_str) IN
     IF r.ret = "found"
     THEN inst' = [inst EXCEPT !.op = r.val] /\ pc' = "parsed" /\ UNCHANGED <<step, od>>
     ELSE Lost({r})
  /\ UNCHANGED <<convert_vars, strings>>

\* The instruction is executed; its locals go out of scope.
Executed ==
  /\ pc = "parsed" /\ pc' = "idle"
  /\ text' = <<>> /\ op_str' = <<>> /\ src_str' = <<>> /\ dst_str' = <<>>
  /\ inst' = NoInstruction
  /\ str' = <<>> /\ i' = 1 /\ state' = 0 /\ uv' = 0 /\ sign_bit' = 0 /\ exact' = 0
  /\ ret' = "value" /\ val' = 0
  /\ UNCHANGED <<step, od, trie_inited>>

Converting ==
  /\ pc \in {"src", "dst"} /\ Convert
  /\ UNCHANGED <<pc, step, strings, od, inst, trie_inited>>

Next ==
  \/ \E t \in Texts : parse_instruction(t)
  \/ NoOperand \/ Immediate \/ Register \/ Memory \/ Overrun
  \/ Converting \/ ImmediateRead \/ Scale \/ ScaleRead \/ MemoryRegisters \/ NumberRefused
  \/ Operator \/ Executed

Spec == Init /\ [][Next]_vars

-----------------------------------------------------------------------------
(* Properties                                                              *)

StartsName(name, table) == \E n \in DOMAIN table : IsStrictPrefix(name, n)

Resolves(name, value, table) ==
  IF name \in DOMAIN table THEN value = table[name]
  ELSE StartsName(name, table) /\ value = Fresh

\* A text that is parsed has the operator and the registers that it names: a
\* name that is not in the table is taken for none that is.  Only the beginning
\* of a name is accepted without being one, and has the value of a fresh node:
\* no register, but INST_MOV as an operator.
NamesResolve ==
  pc = "parsed" =>
    /\ Resolves(op_str, inst.op, Operators)
    /\ inst.src.type = "REG" => Resolves(src_str, inst.src.reg1, Registers)
    /\ inst.dst.type = "REG" => Resolves(dst_str, inst.dst.reg1, Registers)
=============================================================================
