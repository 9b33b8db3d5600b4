------------------------------ MODULE MCParser ------------------------------
(***************************************************************************)
(* The texts for InstParser: instructions written out from what they mean, *)
(* with every format of an operand, every short text in the place of a     *)
(* number, and every short text in the place of a name.                    *)
(***************************************************************************)
EXTENDS InstParser, TLC

CONSTANTS NumberCharacters, NumberLength,   \* these and a tab make the texts in the
                                            \* place of a number
          NameCharacters, NameLength        \* the texts in the place of a name

Chars(s) == [k \in 1..Len(s) |-> SubSeq(s, k, k)]

\* The registers lie one behind the other, 64 bits each; the parts of a register
\* share its address, except for the second byte.
RegisterFile == 1000

Legacy == <<"a", "b", "c", "d", "si", "di", "bp", "sp">>
Suffix == <<"x", "x", "x", "x", "", "", "", "">>
New == <<"8", "9", "10", "11", "12", "13", "14", "15">>

AllParts(k) ==
  {"%r" \o Legacy[k] \o Suffix[k], "%e" \o Legacy[k] \o Suffix[k], "%" \o Legacy[k] \o Suffix[k],
   "%" \o Legacy[k] \o "l"}

MCRegisters ==
  LET Low  == UNION {{<<name, 8 * (k - 1)>> : name \in AllParts(k)} : k \in 1..8}
      High == {<<"%" \o Legacy[k] \o "h", 8 * (k - 1) + 1>> : k \in 1..8}
      More == {<<"%r" \o New[k] \o part, 8 * (k + 7)>> : k \in 1..8, part \in {"", "d", "w", "b"}}
      all  == Low \cup High \cup More
  IN  [name \in {Chars(r[1]) : r \in all} |->
         RegisterFile + (CHOOSE r \in all : Chars(r[1]) = name)[2]]

MCOperators ==
  Chars("mov") :> 0 @@ Chars("movq") :> 0 @@ Chars("push") :> 1 @@ Chars("pop") :> 2 @@
  Chars("leaveq") :> 3 @@ Chars("callq") :> 4 @@ Chars("retq") :> 5 @@ Chars("add") :> 6 @@
  Chars("sub") :> 7 @@ Chars("cmpq") :> 8 @@ Chars("jne") :> 9 @@ Chars("jmp") :> 10

-----------------------------------------------------------------------------
(* Operands as they are written and as they are meant.                     *)
Number(s, n) == [text |-> Chars(s), means |-> n]

Displacements == {Number("0", 0), Number("17", 17), Number("0x1f", 31), Number("-0x8", W - 8)}
Scales == {Number("1", 1), Number("8", 8)}
Names == {[text |-> name, means |-> Registers[name]] : name \in DOMAIN Registers}
OneName == {n \in Names : n.text \in {Chars("%rsp"), Chars("%r8")}}

Means(type, imm, scal, reg1, reg2) ==
  [type |-> type, imm |-> imm, scal |-> scal, reg1 |-> reg1, reg2 |-> reg2]

Absent == [text |-> <<>>, means |-> 0]
Comma == Chars(",")

\* imm(reg1,reg2,scal) with the parts that the type says; Absent ones are not written.
InParentheses(imm, r1, r2, s, type) ==
  [text |-> imm.text \o Chars("(") \o r1.text
              \o (IF r2 = Absent THEN <<>> ELSE Comma \o r2.text)
              \o (IF s = Absent THEN <<>> ELSE Comma \o s.text) \o Chars(")"),
   means |-> Means(type, imm.means, s.means, r1.means, r2.means)]

Addressing(imm, Types) ==
  LET T(n) == Types[n] IN
       {InParentheses(imm, r, Absent, Absent, T(1)) : r \in OneName}
  \cup {InParentheses(imm, r, q, Absent, T(2)) : r, q \in OneName}
  \cup {InParentheses(imm, Absent, q, s, T(3)) : q \in OneName, s \in Scales}
  \cup {InParentheses(imm, r, q, s, T(4)) : r, q \in OneName, s \in Scales}

MemoryOperands ==
  Addressing(Absent, <<"MEM_REG1", "MEM_REG1_REG2", "MEM_REG2_SCAL", "MEM_REG1_REG2_SCAL">>)
  \cup UNION {Addressing(d, <<"MEM_IMM_REG1", "MEM_IMM_REG1_REG2", "MEM_IMM_REG2_SCAL",
                              "MEM_IMM_REG1_REG2_SCAL">>) : d \in Displacements}
  \cup {[text |-> d.text, means |-> Means("MEM_IMM", d.means, 0, 0, 0)] : d \in Displacements}

RegisterOperands ==
  {[text |-> n.text, means |-> Means("REG", 0, 0, n.means, 0)] : n \in Names}

ImmediateOperands ==
  {[text |-> Chars("$") \o d.text, means |-> Means("IMM", d.means, 0, 0, 0)] : d \in Displacements}

Rax == CHOOSE o \in RegisterOperands : o.text = Chars("%rax")
Nothing == [text |-> <<>>, means |-> EmptyOperand]

Operands == MemoryOperands \cup RegisterOperands \cup ImmediateOperands

\* Blanks where the programs of test_headware.c and objdump have them: in front,
\* behind the operator, behind the comma, at the end; none inside an operand.
Written(name, src, gap, dst, end) ==
  [text |-> end \o name \o (IF src = Nothing THEN <<>> ELSE Chars("  ") \o src.text)
                \o (IF dst = Nothing THEN <<>> ELSE Comma \o gap \o dst.text) \o end,
   means |-> [op |-> Operators[name], src |-> src.means, dst |-> dst.means]]

Instructions ==
       {Written(Chars("mov"), o, <<>>, Rax, <<>>) : o \in Operands}
  \cup {Written(Chars("mov"), Rax, g, o, <<>>) : o \in Operands, g \in {<<>>, Chars(" ")}}
  \cup {Written(n, Rax, Chars(" "), Rax, Chars(" ")) : n \in DOMAIN Operators}
  \cup {Written(n, o, <<>>, Nothing, <<>>) : o \in {Rax} \cup ImmediateOperands, n \in DOMAIN Operators}
  \cup {Written(n, Nothing, <<>>, Nothing, e) : n \in DOMAIN Operators, e \in {<<>>, Chars(" ")}}

-----------------------------------------------------------------------------
Short(chars, n) == UNION {[1..k -> chars] : k \in 0..n}

MCTexts ==
       {w.text : w \in Instructions}
  \cup {Chars("mov $") \o s \o Chars(",%rax") :
          s \in Short(NumberCharacters \cup {"\t"}, NumberLength)}
  \cup {s \o Chars(" %rax,%rax") : s \in Short(NameCharacters, NameLength)}
  \cup {Chars("mov %") \o s \o Chars(",%rax") : s \in Short(NameCharacters, NameLength)}
  \cup {Chars("mov 1(%rax,%r8,") \o s.text \o Chars("),%rax") :
          s \in {Number("3", 3), Number("16", 16)}}
  \cup {Chars("mov (%rax, %r8),%rax"), Chars("mov %rax ,%rax"), Chars("mov (%rax),(%r8, %rax)"),
        Chars("mov 1(,,),%rax"), Chars("mov (%rax,%r8,1,1),%rax"), Chars("mov (%raxraxra),%rax")}

-----------------------------------------------------------------------------
(* Properties                                                              *)

\* An instruction that is written out from its meaning is parsed back to that
\* meaning, whatever format its operands have and wherever blanks are allowed;
\* it never stops the program.
ParsesAsWritten ==
  \A w \in Instructions :
    text = w.text => /\ pc \notin {"exit", "undefined"}
                     /\ pc = "parsed" => inst = w.means
=============================================================================
