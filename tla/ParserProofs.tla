--------------------------- MODULE ParserProofs ---------------------------
(***************************************************************************)
(* Theorems about InstParser and the Convert it uses: whatever the width   *)
(* of a word, the texts of the instructions and the names in the tables, a *)
(* number is read as what its digits denote, reduced to a word, and a name *)
(* as what the table says of it.                                           *)
(***************************************************************************)
EXTENDS InstParser, FiniteSetTheorems, WellFoundedInduction, SequenceTheorems, TLAPS

-----------------------------------------------------------------------------
(* Remainders                                                              *)

LEMMA IntDivMod ==
  ASSUME NEW a \in Int, NEW b \in Nat \ {0}
  PROVE  /\ a \div b \in Int /\ a % b \in 0 .. b - 1
         /\ a = b * (a \div b) + (a % b)
OBVIOUS

LEMMA IntModUnique ==
  ASSUME NEW a \in Int, NEW b \in Nat \ {0}, NEW q \in Int, NEW r \in 0 .. b - 1,
         a = b * q + r
  PROVE  a % b = r
OBVIOUS

LEMMA IntModSmall ==
  ASSUME NEW b \in Nat \ {0}, NEW a \in 0 .. b - 1
  PROVE  a \in Nat /\ a % b = a
OBVIOUS

\* A word may be reduced before a further digit is added to it.
Shifted(e, m, d) == e * m + d

LEMMA ReduceBefore ==
  ASSUME NEW e \in Nat, NEW b \in Nat \ {0}, NEW m \in Nat, NEW d \in Nat
  PROVE  Shifted(e % b, m, d) % b = Shifted(e, m, d) % b
<1> DEFINE q == e \div b
           r == e % b
           s == r * m + d
           p == s \div b
           t == s % b
<1>1. q \in Int /\ r \in Nat /\ e = b * q + r
  BY IntDivMod
<1> HIDE DEF q, r
<1>2. s \in Int
  BY <1>1
<1>3. p \in Int /\ t \in 0 .. b - 1 /\ s = b * p + t
  <2> HIDE DEF s
  <2> QED
    BY <1>2, IntDivMod
<1> HIDE DEF p, t
<1>4. e * m + d = b * (q * m + p) + t
  <2>1. e * m + d = (b * q + r) * m + d
    BY <1>1
  <2>2. (b * q + r) * m = b * (q * m) + r * m
    BY <1>1
  <2>3. b * (q * m + p) = b * (q * m) + b * p
    BY <1>1, <1>3
  <2> QED
    BY <1>1, <1>3, <2>1, <2>2, <2>3
<1>5. (e * m + d) % b = t
  <2> DEFINE z == e * m + d
             y == q * m + p
  <2>1. z \in Int /\ y \in Int /\ z = b * y + t
    BY <1>1, <1>3, <1>4
  <2> HIDE DEF z, y
  <2>2. z % b = t
    BY <1>3, <2>1, IntModUnique
  <2> QED
    BY <2>2 DEF z
<1> QED
  BY <1>5, Zenon DEF s, t, r, Shifted

\* ... and before it is negated.
LEMMA ReduceNegated ==
  ASSUME NEW e \in Nat, NEW b \in Nat \ {0}
  PROVE  (-(e % b)) % b = (-e) % b
<1> DEFINE q == e \div b
           r == e % b
           p == (-r) \div b
           t == (-r) % b
<1>1. q \in Int /\ r \in Nat /\ e = b * q + r
  BY IntDivMod
<1> HIDE DEF q, r
<1>2. p \in Int /\ t \in 0 .. b - 1 /\ -r = b * p + t
  <2>1. -r \in Int
    BY <1>1
  <2> QED
    BY <2>1, IntDivMod
<1> HIDE DEF p, t
<1>3. -e = b * (p - q) + t
  <2>1. b * (p - q) = b * p - b * q
    BY <1>1, <1>2
  <2> QED
    BY <1>1, <1>2, <2>1
<1>4. (-e) % b = t
  <2>1. -e \in Int /\ p - q \in Int
    BY <1>1, <1>2
  <2> QED
    BY <1>2, <1>3, <2>1, IntModUnique
<1> QED
  BY <1>4 DEF t, r

-----------------------------------------------------------------------------
(* The inductive invariant                                                 *)

Denoted == IF sign_bit = 1 THEN -exact ELSE exact

\* The value so far is the number so far, reduced to a word; it is returned
\* with its sign.
Inv ==
  /\ exact \in Nat /\ uv = exact % W
  /\ sign_bit \in {0, 1} /\ state \in 0 .. 6
  /\ ret = "value" => val = Denoted % W

LEMMA WordPositive == W \in Nat \ {0}
BY WordAssumption

LEMMA DigitType == \A c \in Hex : Digit(c) \in Nat
<1> SUFFICES ASSUME NEW c \in Hex PROVE Digit(c) \in Nat
  OBVIOUS
<1>1. \E k \in 1 .. 16 : HexDigits[k] = c
  BY DEF Hex
<1>2. (CHOOSE k \in 1 .. 16 : HexDigits[k] = c) \in 1 .. 16
  BY <1>1
<1> DEFINE n == CHOOSE k \in 1 .. 16 : HexDigits[k] = c
<1>3. Digit(c) = n - 1 /\ n \in 1 .. 16
  BY <1>2 DEF Digit
<1> HIDE DEF n
<1> QED
  BY <1>3

LEMMA Characters ==
  /\ "0" \in Decimal /\ Decimal \subseteq Hex
  /\ Space \in White /\ Space \notin {Minus, "x"} /\ \A c \in White : c \notin Hex
  /\ Minus \notin Decimal /\ "x" \notin Decimal
  /\ Digit("0") = 0
<1>1. /\ HexDigits[1] = "0" /\ HexDigits[2] = "1" /\ HexDigits[3] = "2" /\ HexDigits[4] = "3"
      /\ HexDigits[5] = "4" /\ HexDigits[6] = "5" /\ HexDigits[7] = "6" /\ HexDigits[8] = "7"
      /\ HexDigits[9] = "8" /\ HexDigits[10] = "9" /\ HexDigits[11] = "a"
      /\ HexDigits[12] = "b" /\ HexDigits[13] = "c" /\ HexDigits[14] = "d"
      /\ HexDigits[15] = "e" /\ HexDigits[16] = "f"
  BY DEF HexDigits
<1>2. ASSUME NEW k \in 1 .. 16
      PROVE  /\ HexDigits[k] \notin White /\ HexDigits[k] \notin {Minus, "x"}
             /\ HexDigits[k] = "0" => k = 1
  <2>1. \/ k = 1 \/ k = 2 \/ k = 3 \/ k = 4 \/ k = 5 \/ k = 6 \/ k = 7 \/ k = 8 \/ k = 9
        \/ k = 10 \/ k = 11 \/ k = 12 \/ k = 13 \/ k = 14 \/ k = 15 \/ k = 16
    OBVIOUS
  <2> QED
    BY <1>1, <2>1 DEF White, Space, Minus
<1>3. "0" \in Decimal /\ Decimal \subseteq Hex
  BY <1>1 DEF Decimal, Hex
<1>4. \A c \in Hex : c \notin White /\ c \notin {Minus, "x"}
  BY <1>2 DEF Hex
<1>5. Digit("0") = 0
  <2>1. 1 \in 1 .. 16
    OBVIOUS
  <2>2. (CHOOSE k \in 1 .. 16 : HexDigits[k] = "0") = 1
    BY <1>1, <1>2, <2>1
  <2> QED
    BY <2>2 DEF Digit
<1>6. Space \in White /\ Space \notin {Minus, "x"}
  BY DEF White, Space, Minus, Minus
<1> QED
  BY <1>3, <1>4, <1>5, <1>6, Zenon

\* The characters c that lead from state s into each other state.
Leads(s, c, next) ==
  \/ next = 0 /\ s = 0 /\ c = Space
  \/ next = 1 /\ s \in {0, 3} /\ c = "0"
  \/ next = 2 /\ \/ s \in {1, 2} /\ c \in Decimal
                 \/ s \in {0, 3} /\ c \in Decimal \ {"0"}
  \/ next = 3 /\ s = 0 /\ c = Minus
  \/ next = 4 /\ s = 1 /\ c = "x"
  \/ next = 5 /\ s \in {4, 5} /\ c \in Hex
  \/ next = 6 /\ \/ s \in {1, 2} /\ c = Space
                 \/ s \in {5, 6} /\ c \in White

LEMMA TargetLeads ==
  ASSUME NEW s \in 0 .. 6, NEW c
  PROVE  /\ \A next \in 0 .. 6 : Leads(s, c, next) => Target(s, c) = next
         /\ Target(s, c) # Dead => Target(s, c) \in 0 .. 6 /\ Leads(s, c, Target(s, c))
<1>1. /\ \A x \in Decimal : x \in Hex /\ x # Space /\ x # Minus /\ x # "x"
      /\ \A x \in Hex : x \notin White
      /\ "0" \in Decimal /\ Space \in White /\ Space \notin {Minus, "x"}
  BY Characters, Zenon
<1>2. ASSUME NEW next \in 0 .. 6, Leads(s, c, next) PROVE Target(s, c) = next
  <2>1. CASE next = 0
    BY <1>1, <1>2, <2>1 DEF Leads, Target
  <2>2. CASE next = 1
    BY <1>1, <1>2, <2>2 DEF Leads, Target
  <2>3. CASE next = 2
    <3>1. c \in Decimal /\ s \in {0, 1, 2, 3} /\ (c = "0" => s \in {1, 2})
      BY <1>2, <2>3 DEF Leads
    <3>2. c # Space /\ c # Minus /\ c # "x" /\ c \in Hex
      BY <1>1, <3>1, Zenon
    <3>3. Target(s, c) = 2
      BY <3>1, <3>2 DEF Target
    <3> QED
      BY <2>3, <3>3
  <2>4. CASE next = 3
    <3>1. s = 0 /\ c = Minus
      BY <1>2, <2>4 DEF Leads
    <3>2. c \notin Decimal /\ c # Space /\ c # "0"
      BY <1>1, <3>1
    <3>3. Target(s, c) = 3
      BY <3>1, <3>2 DEF Target
    <3> QED
      BY <2>4, <3>3
  <2>5. CASE next = 4
    <3>1. s = 1 /\ c = "x"
      BY <1>2, <2>5 DEF Leads
    <3>2. c \notin Decimal /\ c # Space
      BY <1>1, <3>1
    <3>3. Target(s, c) = 4
      BY <3>1, <3>2 DEF Target
    <3> QED
      BY <2>5, <3>3
  <2>6. CASE next = 5
    BY <1>1, <1>2, <2>6 DEF Leads, Target
  <2>7. CASE next = 6
    BY <1>1, <1>2, <2>7 DEF Leads, Target
  <2> QED
    BY <2>1, <2>2, <2>3, <2>4, <2>5, <2>6, <2>7
<1>3. ASSUME \A next \in 0 .. 6 : ~Leads(s, c, next) PROVE Target(s, c) = Dead
  BY <1>1, <1>3 DEF Leads, Target
<1>4. ASSUME Target(s, c) # Dead PROVE Target(s, c) \in 0 .. 6 /\ Leads(s, c, Target(s, c))
  <2>1. PICK next \in 0 .. 6 : Leads(s, c, next)
    BY <1>3, <1>4
  <2> QED
    BY <1>2, <2>1
<1> QED
  BY <1>2, <1>4

\* Only a digit leads into the states that count it.
LEMMA TargetCounts ==
  ASSUME NEW s \in 0 .. 6, NEW c
  PROVE  /\ Target(s, c) # Dead => Target(s, c) \in 0 .. 6
         /\ Target(s, c) \in {1, 2, 5} => c \in Hex
<1>1. Target(s, c) # Dead => Target(s, c) \in 0 .. 6
  BY TargetLeads, Zenon
<1>2. ASSUME Target(s, c) \in {1, 2, 5} PROVE c \in Hex
  <2>1. Target(s, c) # Dead
    BY <1>2 DEF Dead
  <2>2. Leads(s, c, Target(s, c))
    BY <2>1, TargetLeads, Zenon
  <2>3. Leads(s, c, 1) \/ Leads(s, c, 2) \/ Leads(s, c, 5)
    BY <1>2, <2>2
  <2>4. c = "0" \/ c \in Decimal \/ c \in Hex
    BY <2>3 DEF Leads
  <2> QED
    BY <2>4, Characters
<1> QED
  BY <1>1, <1>2

\* Extending the reduced value and extending the number agree.
LEMMA ExtendedAgrees ==
  ASSUME NEW s \in 0 .. 6, NEW c, s \in {1, 2, 5} => c \in Hex, NEW e \in Nat
  PROVE  /\ Extended(e, s, c) \in Nat
         /\ Extended(e % W, s, c) % W = Extended(e, s, c) % W
<1>1. W \in Nat \ {0}
  BY WordPositive
<1>2. CASE s \in {1, 2}
  <2>1. Digit(c) \in Nat
    BY <1>2, DigitType
  <2>2. ((e % W) * 10 + Digit(c)) % W = (e * 10 + Digit(c)) % W
    <3>1. 10 \in Nat
      OBVIOUS
    <3>2. Shifted(e % W, 10, Digit(c)) % W = Shifted(e, 10, Digit(c)) % W
      BY <1>1, <2>1, <3>1, ReduceBefore
    <3> QED
      BY <3>2, Zenon DEF Shifted
  <2> QED
    BY <1>2, <2>1, <2>2 DEF Extended
<1>3. CASE s = 5
  <2>1. Digit(c) \in Nat
    BY <1>3, DigitType
  <2>2. ((e % W) * 16 + Digit(c)) % W = (e * 16 + Digit(c)) % W
    <3>1. 16 \in Nat
      OBVIOUS
    <3>2. Shifted(e % W, 16, Digit(c)) % W = Shifted(e, 16, Digit(c)) % W
      BY <1>1, <2>1, <3>1, ReduceBefore
    <3> QED
      BY <3>2, Zenon DEF Shifted
  <2> QED
    BY <1>3, <2>1, <2>2 DEF Extended
<1>4. CASE s \notin {1, 2, 5}
  <2>1. (e % W) % W = e % W
    <3>1. e % W \in 0 .. W - 1
      BY <1>1, IntDivMod
    <3> QED
      BY <1>1, <3>1, IntModSmall
  <2> QED
    BY <1>4, <2>1 DEF Extended
<1> QED
  BY <1>2, <1>3, <1>4

LEMMA ZeroReduced == 0 % W = 0
BY WordPositive, IntModSmall

LEMMA InitInv == Init => Inv
BY ZeroReduced DEF Init, ConvertInit, Inv, Denoted

LEMMA BeginKeeps ==
  ASSUME NEW s, string2uint_range(s)
  PROVE  Inv'
BY ZeroReduced DEF string2uint_range, Inv, Denoted

LEMMA ConvertKeeps ==
  ASSUME Inv, Convert
  PROVE  Inv'
<1>1. CASE ReadCharacter
  <2> DEFINE next == Target(state, str[i])
             c == str[i]
  <2>1. /\ next # Dead /\ state' = next /\ ret' = ret /\ ret # "value"
        /\ uv' = Extended(uv, next, c) % W /\ exact' = Extended(exact, next, c)
        /\ sign_bit' \in {0, 1}
    BY <1>1 DEF ReadCharacter, Reading, Inv
  <2>2. next \in 0 .. 6 /\ (next \in {1, 2, 5} => c \in Hex)
    BY <2>1, TargetCounts DEF Inv
  <2> HIDE DEF next, c
  <2>3. exact \in Nat /\ uv = exact % W
    BY DEF Inv
  <2>4. /\ Extended(exact, next, c) \in Nat
        /\ Extended(exact % W, next, c) % W = Extended(exact, next, c) % W
    BY <2>2, <2>3, ExtendedAgrees
  <2> QED
    BY <2>1, <2>2, <2>3, <2>4 DEF Inv
<1>2. CASE Fail
  BY <1>2 DEF Fail, Inv
<1>3. CASE ReturnUnsigned
  BY <1>3 DEF ReturnUnsigned, Inv, Denoted
<1>4. CASE ReturnNegated
  <2>1. (-uv) % W = (-exact) % W
    BY WordPositive, ReduceNegated DEF Inv
  <2> QED
    BY <1>4, <2>1 DEF ReturnNegated, Inv, Denoted
<1> QED
  BY <1>1, <1>2, <1>3, <1>4 DEF Convert

LEMMA FrameKeeps ==
  ASSUME Inv, UNCHANGED convert_vars
  PROVE  Inv'
BY DEF Inv, Denoted, convert_vars

LEMMA StepInv ==
  ASSUME Inv, [Next]_vars
  PROVE  Inv'
<1>1. ASSUME NEW t \in Texts, parse_instruction(t) PROVE Inv'
  BY <1>1, FrameKeeps DEF parse_instruction
<1>2. CASE NoOperand
  BY <1>2, FrameKeeps DEF NoOperand
<1>3. CASE Immediate
  BY <1>3, BeginKeeps DEF Immediate
<1>4. CASE Register
  BY <1>4, FrameKeeps DEF Register
<1>5. CASE Memory
  BY <1>5, FrameKeeps, BeginKeeps DEF Memory
<1>6. CASE Overrun
  BY <1>6, FrameKeeps DEF Overrun
<1>7. CASE Converting
  BY <1>7, ConvertKeeps DEF Converting
<1>8. CASE ImmediateRead
  BY <1>8, FrameKeeps DEF ImmediateRead
<1>9. CASE Scale
  BY <1>9, FrameKeeps, BeginKeeps DEF Scale
<1>10. CASE ScaleRead
  BY <1>10, FrameKeeps DEF ScaleRead
<1>11. CASE MemoryRegisters
  BY <1>11, FrameKeeps DEF MemoryRegisters
<1>12. CASE NumberRefused
  BY <1>12, FrameKeeps DEF NumberRefused
<1>13. CASE Operator
  BY <1>13, FrameKeeps DEF Operator
<1>14. CASE Executed
  BY <1>14, ZeroReduced DEF Executed, Inv, Denoted
<1>15. CASE UNCHANGED vars
  BY <1>15, FrameKeeps DEF vars
<1> QED
  BY <1>1, <1>2, <1>3, <1>4, <1>5, <1>6, <1>7, <1>8, <1>9, <1>10, <1>11, <1>12, <1>13,
     <1>14, <1>15 DEF Next

THEOREM InvHolds == Spec => []Inv
<1>1. Inv /\ [Next]_vars => Inv'
  BY StepInv
<1> QED
  BY <1>1, InitInv, PTL DEF Spec

-----------------------------------------------------------------------------
(* Numerals                                                                *)

Shape(s) == [start : 1 .. Len(s), negative : BOOLEAN, hex : BOOLEAN, to : 1 .. Len(s)]

LEMMA Places ==
  ASSUME NEW s \in Seq(STRING), NEW n \in Shape(s)
  PROVE  /\ Len(s) \in Nat /\ n.start \in 1 .. Len(s) /\ n.to \in 1 .. Len(s)
         /\ n.negative \in BOOLEAN /\ n.hex \in BOOLEAN
         /\ Body(n) \in Nat /\ From(n) \in Nat
         /\ Body(n) = IF n.negative THEN n.start + 1 ELSE n.start
         /\ From(n) = IF n.hex THEN Body(n) + 2 ELSE Body(n)
BY DEF Shape, Body, From

\* The states in which the automaton may be behind position p of a text that is
\* the numeral n.
Stands(n, p) ==
  IF p < n.start THEN {0} ELSE IF p < Body(n) THEN {3}
  ELSE IF p < From(n) THEN (IF p = Body(n) THEN {1} ELSE {4})
  ELSE IF p <= n.to THEN (IF n.hex THEN {5} ELSE {1, 2}) ELSE {6}

\* It goes from one of them to the next.
LEMMA Advances ==
  ASSUME NEW s \in Seq(STRING), NEW n \in Shape(s), IsNumeral(s, n, Len(s)),
         NEW p \in 0 .. Len(s) - 1, NEW q \in Stands(n, p)
  PROVE  Target(q, s[p + 1]) \in Stands(n, p + 1)
<1> DEFINE c == s[p + 1]
<1>1. /\ Len(s) \in Nat /\ n.start \in 1 .. Len(s) /\ n.to \in 1 .. Len(s)
      /\ n.negative \in BOOLEAN /\ n.hex \in BOOLEAN
      /\ Body(n) = IF n.negative THEN n.start + 1 ELSE n.start
      /\ From(n) = IF n.hex THEN Body(n) + 2 ELSE Body(n)
      /\ From(n) <= n.to
  BY Places, Zenon DEF IsNumeral
<1>0. /\ q = 0 /\ c = Space => Target(q, c) = 0
      /\ q = 0 /\ c = Minus => Target(q, c) = 3
      /\ q \in {0, 3} /\ c = "0" => Target(q, c) = 1
      /\ q = 1 /\ c = "x" => Target(q, c) = 4
      /\ q \in {0, 1, 2, 3} /\ c \in Decimal => Target(q, c) \in {1, 2}
      /\ q \in {4, 5} /\ c \in Hex => Target(q, c) = 5
      /\ q \in {1, 2} /\ c = Space => Target(q, c) = 6
      /\ q \in {5, 6} /\ c \in White => Target(q, c) = 6
  <2>1. q \in 0 .. 6
    BY DEF Stands
  <2> HIDE DEF c
  <2>2. \A next \in 0 .. 6 : Leads(q, c, next) => Target(q, c) = next
    BY <2>1, TargetLeads, Zenon
  <2>3. ASSUME q \in {0, 1, 2, 3}, c \in Decimal PROVE Target(q, c) \in {1, 2}
    <3>1. Leads(q, c, 1) \/ Leads(q, c, 2)
      BY <2>3 DEF Leads
    <3> QED
      BY <2>2, <3>1
  <2>4. /\ Leads(q, c, 0) => Target(q, c) = 0
        /\ Leads(q, c, 1) => Target(q, c) = 1
        /\ Leads(q, c, 3) => Target(q, c) = 3
        /\ Leads(q, c, 4) => Target(q, c) = 4
        /\ Leads(q, c, 5) => Target(q, c) = 5
        /\ Leads(q, c, 6) => Target(q, c) = 6
    BY <2>2
  <2> QED
    BY <2>3, <2>4 DEF Leads
<1>2. CASE p + 1 < n.start
  <2>1. c = Space
    <3>1. \A k \in 1 .. n.start - 1 : s[k] = Space
      BY Zenon DEF IsNumeral, Opens
    <3>2. p + 1 \in 1 .. n.start - 1
      BY <1>1, <1>2
    <3> QED
      BY <3>1, <3>2
  <2>2. q = 0 /\ Stands(n, p + 1) = {0}
    BY <1>1, <1>2 DEF Stands
  <2>3. Target(q, c) = 0
    BY <2>1, <2>2, <1>0
  <2> QED
    BY <2>2, <2>3
<1>3. CASE p + 1 = n.start /\ n.negative
  <2>1. c = Minus
    BY <1>1, <1>3 DEF IsNumeral, Opens
  <2>2. q = 0 /\ Stands(n, p + 1) = {3}
    BY <1>1, <1>3 DEF Stands
  <2>3. Target(q, c) = 3
    BY <2>1, <2>2, <1>0
  <2> QED
    BY <2>2, <2>3
<1>4. CASE p + 1 = Body(n) /\ n.hex
  <2>1. c = "0"
    BY <1>4 DEF IsNumeral, Opens
  <2>2. q \in {0, 3} /\ Stands(n, p + 1) = {1}
    BY <1>1, <1>4 DEF Stands
  <2>3. Target(q, c) = 1
    BY <2>1, <2>2, <1>0
  <2> QED
    BY <2>2, <2>3
<1>5. CASE p + 1 = Body(n) + 1 /\ n.hex
  <2>1. c = "x"
    <3>1. s[Body(n) + 1] = "x"
      BY <1>5 DEF IsNumeral, Opens
    <3> QED
      BY <1>5, <3>1
  <2>2. q = 1 /\ Stands(n, p + 1) = {4}
    BY <1>1, <1>5 DEF Stands
  <2>3. Target(q, c) = 4
    BY <2>1, <2>2, <1>0
  <2> QED
    BY <2>2, <2>3
<1>6. CASE p + 1 \in From(n) .. n.to
  <2>1. c \in IF n.hex THEN Hex ELSE Decimal
    BY <1>6 DEF IsNumeral
  <2>2. CASE n.hex
    <3>1. q \in {4, 5} /\ Stands(n, p + 1) = {5}
      BY <1>1, <1>6, <2>2 DEF Stands
    <3>2. Target(q, c) = 5
      BY <2>1, <2>2, <3>1, <1>0
    <3> QED
      BY <3>1, <3>2
  <2>3. CASE ~n.hex
    <3>1. q \in {0, 1, 2, 3} /\ Stands(n, p + 1) = {1, 2}
      BY <1>1, <1>6, <2>3 DEF Stands
    <3>2. Target(q, c) \in {1, 2}
      BY <2>1, <2>3, <3>1, <1>0
    <3> QED
      BY <3>1, <3>2
  <2> QED
    BY <2>2, <2>3
<1>7. CASE p + 1 > n.to
  <2>1. c \in White /\ (~n.hex /\ p = n.to => c = Space)
    <3>1. p + 1 \in n.to + 1 .. Len(s)
      BY <1>1, <1>7
    <3>2. p = n.to => n.to < Len(s)
      BY <1>1
    <3> QED
      BY <3>1, <3>2 DEF IsNumeral
  <2>2. Stands(n, p + 1) = {6}
    <3>1. /\ ~ (p + 1 < n.start) /\ ~ (p + 1 < Body(n))
          /\ ~ (p + 1 < From(n)) /\ ~ (p + 1 <= n.to)
      <4>1. n.start \in Int /\ n.start <= Body(n) /\ Body(n) \in Int
        BY <1>1
      <4>2. Body(n) <= From(n) /\ From(n) \in Int /\ From(n) <= n.to /\ n.to \in Int
        BY <1>1, <4>1
      <4>3. p \in Int /\ n.to < p + 1
        BY <1>7, <4>2
      <4> QED
        BY <4>1, <4>2, <4>3
    <3> QED
      BY <3>1, Zenon DEF Stands
  <2>3. CASE p = n.to /\ ~n.hex
    <3>1. q \in {1, 2} /\ c = Space
      <4>1. p \in From(n) .. n.to /\ n.start <= p /\ Body(n) <= p /\ ~n.hex
        BY <1>1, <2>3
      <4>2. Stands(n, p) = {1, 2}
        BY <1>1, <4>1 DEF Stands
      <4> QED
        BY <2>1, <2>3, <4>2
    <3>2. Target(q, c) = 6
      BY <3>1, <1>0
    <3> QED
      BY <2>2, <3>2
  <2>4. CASE p > n.to \/ n.hex
    <3>1. q \in {5, 6}
      BY <1>1, <1>7, <2>4 DEF Stands
    <3>2. Target(q, c) = 6
      BY <2>1, <3>1, <1>0
    <3> QED
      BY <2>2, <3>2
  <2> QED
    BY <1>1, <1>7, <2>3, <2>4
<1> QED
  BY <1>1, <1>2, <1>3, <1>4, <1>5, <1>6, <1>7

-----------------------------------------------------------------------------
(* The number that a numeral denotes                                       *)

\* A non-empty set of natural numbers has a least element.
LEMMA LeastNatural ==
  ASSUME NEW T \in SUBSET Nat, T # {}
  PROVE  \E x \in T : \A y \in T : x <= y
<1> DEFINE R == {p \in Nat \X Nat : p[1] < p[2]}
<1>1. IsWellFoundedOn(R, Nat)
  BY NatLessThanWellFounded DEF OpToRel
<1>2. PICK x \in T : \A y \in T : <<y, x>> \notin R
  <2> HIDE DEF R
  <2> QED
    BY <1>1, WFMin
<1>3. ASSUME NEW y \in T PROVE x <= y
  <2>1. <<y, x>> \notin R /\ x \in Nat /\ y \in Nat
    BY <1>2
  <2>2. ~(y < x)
    BY <2>1
  <2> QED
    BY <2>1, <2>2
<1> QED
  BY <1>3

\* Induction without a predicate as a parameter: a set of numbers that holds
\* 0 and the successor of each of its members holds every number.
LEMMA NaturalSet ==
  ASSUME NEW T, 0 \in T, \A n \in Nat : n \in T => n + 1 \in T
  PROVE  Nat \subseteq T
<1> SUFFICES ASSUME Nat \ T # {} PROVE FALSE
  OBVIOUS
<1>1. PICK x \in Nat \ T : \A y \in Nat \ T : x <= y
  BY LeastNatural
<1>2. x - 1 \in Nat /\ x - 1 \notin Nat \ T
  BY <1>1
<1>3. (x - 1) + 1 \in T
  BY <1>2
<1> QED
  BY <1>1, <1>3

Base(n) == IF n.hex THEN 16 ELSE 10

\* v holds the numbers that the digits of n up to each position up to m denote.
Denotes(v, s, n, m) ==
  v = [k \in 0 .. m |-> IF k < From(n) THEN 0 ELSE v[k - 1] * Base(n) + Digit(s[k])]

LEMMA DenotesExists ==
  ASSUME NEW s \in Seq(STRING), NEW n \in Shape(s)
  PROVE  \A m \in Nat : \E v : Denotes(v, s, n, m)
<1> DEFINE T == {m \in Nat : \E v : Denotes(v, s, n, m)}
           Next1(v, k) == IF k < From(n) THEN 0 ELSE v[k - 1] * Base(n) + Digit(s[k])
<1>1. From(n) \in Nat \ {0}
  BY Places
<1>2. 0 \in T
  <2> DEFINE v == [k \in 0 .. 0 |-> 0]
  <2>1. \A k \in 0 .. 0 : k < From(n)
    BY <1>1
  <2>2. v = [k \in 0 .. 0 |-> Next1(v, k)]
    BY <2>1
  <2> HIDE DEF v
  <2>3. Denotes(v, s, n, 0)
    BY <2>2, Zenon DEF Denotes
  <2> QED
    BY <2>3
<1>3. ASSUME NEW m \in Nat, m \in T PROVE m + 1 \in T
  <2>1. PICK v : Denotes(v, s, n, m)
    BY <1>3
  <2> DEFINE w == [k \in 0 .. m + 1 |-> Next1(v, k)]
  <2>2. \A k \in 0 .. m : w[k] = v[k]
    <3>1. \A k \in 0 .. m : v[k] = Next1(v, k)
      BY <2>1, Zenon DEF Denotes
    <3>2. \A k \in 0 .. m : k \in 0 .. m + 1
      OBVIOUS
    <3>3. \A k \in 0 .. m + 1 : w[k] = Next1(v, k)
      BY Zenon
    <3> HIDE DEF w, Next1
    <3> QED
      BY <3>1, <3>2, <3>3, Zenon
  <2>3. ASSUME NEW k \in 0 .. m + 1 PROVE Next1(v, k) = Next1(w, k)
    <3>1. CASE k < From(n)
      BY <3>1
    <3>2. CASE ~(k < From(n))
      <4>1. k - 1 \in 0 .. m
        BY <1>1, <3>2
      <4>2. w[k - 1] = v[k - 1]
        BY <2>2, <4>1, Zenon
      <4> HIDE DEF w
      <4> QED
        BY <4>2, Zenon
    <3> QED
      BY <3>1, <3>2
  <2>4. w = [k \in 0 .. m + 1 |-> Next1(w, k)]
    <3>1. w = [k \in 0 .. m + 1 |-> Next1(v, k)]
      BY Zenon
    <3> HIDE DEF w, Next1
    <3> QED
      BY <2>3, <3>1, Zenon
  <2> HIDE DEF w
  <2>5. Denotes(w, s, n, m + 1)
    BY <2>4, Zenon DEF Denotes
  <2> QED
    BY <2>5
<1> HIDE DEF T
<1>4. Nat \subseteq T
  BY <1>2, <1>3, NaturalSet
<1> QED
  BY <1>4 DEF T

LEMMA ValuesAre ==
  ASSUME NEW s \in Seq(STRING), NEW n \in Shape(s), IsNumeral(s, n, Len(s))
  PROVE  \A k \in 0 .. n.to :
           /\ Values(s, n)[k] \in Nat
           /\ Values(s, n)[k] = IF k < From(n) THEN 0
                                ELSE Values(s, n)[k - 1] * Base(n) + Digit(s[k])
<1>1. From(n) \in Nat \ {0} /\ n.to \in Nat
  BY Places
<1> DEFINE v == Values(s, n)
<1>2. Denotes(v, s, n, n.to)
  <2>1. v = CHOOSE w : Denotes(w, s, n, n.to)
    BY Zenon DEF Values, Denotes, Base
  <2>2. \E w : Denotes(w, s, n, n.to)
    BY <1>1, DenotesExists
  <2> QED
    BY <2>1, <2>2, Zenon
<1>3. \A k \in 0 .. n.to :
        v[k] = IF k < From(n) THEN 0 ELSE v[k - 1] * Base(n) + Digit(s[k])
  BY <1>2, Zenon DEF Denotes
<1> HIDE DEF v
<1> DEFINE T == {k \in Nat : k <= n.to => v[k] \in Nat}
<1>4. 0 \in T
  BY <1>1, <1>3
<1>5. ASSUME NEW k \in Nat, k \in T PROVE k + 1 \in T
  <2> SUFFICES ASSUME k + 1 <= n.to PROVE v[k + 1] \in Nat
    OBVIOUS
  <2>1. v[k] \in Nat /\ k + 1 \in 0 .. n.to /\ (k + 1) - 1 = k
    BY <1>1, <1>5
  <2>2. v[k + 1] = IF k + 1 < From(n) THEN 0 ELSE v[k] * Base(n) + Digit(s[k + 1])
    BY <1>3, <2>1
  <2>3. CASE k + 1 < From(n)
    BY <2>2, <2>3
  <2>4. CASE ~(k + 1 < From(n))
    <3>1. k + 1 \in From(n) .. n.to
      BY <1>1, <2>4
    <3>2. s[k + 1] \in IF n.hex THEN Hex ELSE Decimal
      BY <3>1 DEF IsNumeral
    <3>3. Digit(s[k + 1]) \in Nat
      BY <3>2, Characters, DigitType
    <3> QED
      BY <2>1, <2>2, <2>4, <3>3 DEF Base
  <2> QED
    BY <2>3, <2>4
<1>6. Nat \subseteq T
  <2> HIDE DEF T
  <2> QED
    BY <1>4, <1>5, NaturalSet
<1>7. \A k \in 0 .. n.to : v[k] \in Nat
  BY <1>1, <1>6
<1> QED
  BY <1>3, <1>7 DEF v

\* A further digit never makes the number smaller.
LEMMA ValuesGrow ==
  ASSUME NEW s \in Seq(STRING), NEW n \in Shape(s), IsNumeral(s, n, Len(s))
  PROVE  \A k \in 0 .. n.to : /\ k > 0 => Values(s, n)[k - 1] <= Values(s, n)[k]
                              /\ Values(s, n)[k] <= Magnitude(s, n)
<1>1. From(n) \in Nat \ {0} /\ n.to \in Nat \ {0}
  BY Places
<1> DEFINE v == Values(s, n)
<1>2. \A k \in 0 .. n.to :
        /\ v[k] \in Nat
        /\ v[k] = IF k < From(n) THEN 0 ELSE v[k - 1] * Base(n) + Digit(s[k])
  BY ValuesAre
<1>3. Magnitude(s, n) = v[n.to]
  BY DEF Magnitude
<1> HIDE DEF v
<1>4. ASSUME NEW k \in 0 .. n.to, k > 0 PROVE v[k - 1] <= v[k]
  <2>1. k - 1 \in 0 .. n.to
    BY <1>1, <1>4
  <2>2. v[k - 1] \in Nat /\ v[k] \in Nat
    BY <1>2, <2>1
  <2>3. CASE k < From(n)
    <3>1. k - 1 < From(n)
      BY <1>1, <2>3
    <3>2. v[k - 1] = 0
      BY <1>2, <2>1, <3>1
    <3> QED
      BY <2>2, <3>2
  <2>4. CASE ~(k < From(n))
    <3>1. s[k] \in IF n.hex THEN Hex ELSE Decimal
      <4>1. k \in From(n) .. n.to
        BY <1>1, <2>4
      <4> QED
        BY <4>1 DEF IsNumeral
    <3>2. Digit(s[k]) \in Nat
      BY <3>1, Characters, DigitType
    <3>3. v[k] = v[k - 1] * Base(n) + Digit(s[k])
      BY <1>2, <2>4
    <3> QED
      BY <2>2, <3>2, <3>3 DEF Base
  <2> QED
    BY <2>3, <2>4
<1> DEFINE T == {d \in Nat : d <= n.to => v[n.to - d] <= v[n.to]}
<1>5. 0 \in T
  <2>1. n.to \in 0 .. n.to /\ n.to - 0 = n.to
    BY <1>1
  <2>2. v[n.to] \in Nat
    BY <1>2, <2>1
  <2> QED
    BY <2>1, <2>2
<1>6. ASSUME NEW d \in Nat, d \in T PROVE d + 1 \in T
  <2> SUFFICES ASSUME d + 1 <= n.to PROVE v[n.to - (d + 1)] <= v[n.to]
    OBVIOUS
  <2>1. /\ n.to - d \in 0 .. n.to /\ n.to - d > 0 /\ n.to - (d + 1) = (n.to - d) - 1
        /\ n.to - (d + 1) \in 0 .. n.to /\ n.to \in 0 .. n.to
    BY <1>1
  <2>2. v[n.to - (d + 1)] <= v[n.to - d]
    BY <1>4, <2>1
  <2>3. v[n.to - d] <= v[n.to]
    BY <1>1, <1>6
  <2>4. v[n.to - (d + 1)] \in Nat /\ v[n.to - d] \in Nat /\ v[n.to] \in Nat
    BY <1>2, <2>1
  <2> QED
    BY <2>2, <2>3, <2>4
<1>7. Nat \subseteq T
  <2> HIDE DEF T
  <2> QED
    BY <1>5, <1>6, NaturalSet
<1>8. ASSUME NEW k \in 0 .. n.to PROVE v[k] <= v[n.to]
  <2>1. n.to - k \in Nat /\ n.to - k <= n.to /\ n.to - (n.to - k) = k
    BY <1>1
  <2>2. n.to - k \in T
    BY <1>7, <2>1
  <2> QED
    BY <2>1, <2>2
<1> QED
  BY <1>3, <1>4, <1>8 DEF v

\* The number that the first p characters of a text denote that is the numeral n.
Counted(s, n, p) == Values(s, n)[IF p <= n.to THEN p ELSE n.to]

LEMMA Counts ==
  ASSUME NEW s \in Seq(STRING), NEW n \in Shape(s), IsNumeral(s, n, Len(s)),
         NEW p \in 0 .. Len(s) - 1, NEW q \in Stands(n, p + 1)
  PROVE  Extended(Counted(s, n, p), q, s[p + 1]) = Counted(s, n, p + 1)
<1> DEFINE v == Values(s, n)
           c == s[p + 1]
<1>1. /\ Len(s) \in Nat /\ n.start \in 1 .. Len(s) /\ n.to \in 1 .. Len(s)
      /\ n.negative \in BOOLEAN /\ n.hex \in BOOLEAN
      /\ Body(n) = IF n.negative THEN n.start + 1 ELSE n.start
      /\ From(n) = IF n.hex THEN Body(n) + 2 ELSE Body(n)
      /\ From(n) <= n.to
  BY Places, Zenon DEF IsNumeral
<1>2. \A k \in 0 .. n.to :
        /\ v[k] \in Nat
        /\ v[k] = IF k < From(n) THEN 0 ELSE v[k - 1] * Base(n) + Digit(s[k])
  BY ValuesAre
<1> HIDE DEF v
<1>3. CASE p + 1 > n.to
  <2>1. q = 6
    BY <1>1, <1>3 DEF Stands
  <2>2. Counted(s, n, p) = v[n.to] /\ Counted(s, n, p + 1) = v[n.to]
    <3>1. p <= n.to => p = n.to
      BY <1>1, <1>3
    <3>2. ~(p + 1 <= n.to)
      BY <1>1, <1>3
    <3> QED
      BY <3>1, <3>2 DEF Counted, v
  <2> QED
    BY <2>1, <2>2 DEF Extended
<1>4. CASE p + 1 <= n.to
  <2>1. p \in 0 .. n.to /\ p + 1 \in 0 .. n.to /\ p <= n.to /\ (p + 1) - 1 = p
    BY <1>1, <1>4
  <2>2. Counted(s, n, p) = v[p] /\ Counted(s, n, p + 1) = v[p + 1]
    BY <1>4, <2>1 DEF Counted, v
  <2>3. v[p] \in Nat
    BY <1>2, <2>1
  <2>4. v[p + 1] = IF p + 1 < From(n) THEN 0 ELSE v[p] * Base(n) + Digit(c)
    BY <1>2, <2>1
  <2>5. CASE p + 1 < From(n)
    <3>1. v[p] = 0 /\ v[p + 1] = 0
      <4>1. p < From(n)
        BY <1>1, <2>5
      <4>2. v[p] = 0
        BY <1>2, <2>1, <4>1
      <4> QED
        BY <2>4, <2>5, <4>2
    <3>2. q \in {0, 1, 3, 4} /\ (q = 1 => p + 1 = Body(n) /\ n.hex)
      BY <1>1, <2>5 DEF Stands
    <3>3. CASE q = 1
      <4>1. c = "0"
        BY <3>2, <3>3 DEF IsNumeral, Opens
      <4>2. Digit(c) = 0
        BY <4>1, Characters
      <4> QED
        BY <2>2, <3>1, <3>3, <4>2 DEF Extended
    <3>4. CASE q \in {0, 3, 4}
      BY <2>2, <3>1, <3>4 DEF Extended
    <3> QED
      BY <3>2, <3>3, <3>4
  <2>6. CASE ~(p + 1 < From(n))
    <3>1. v[p + 1] = v[p] * Base(n) + Digit(c)
      BY <2>4, <2>6
    <3>2. q \in IF n.hex THEN {5} ELSE {1, 2}
      BY <1>1, <1>4, <2>6 DEF Stands
    <3>3. CASE n.hex
      BY <2>2, <3>1, <3>2, <3>3 DEF Extended, Base
    <3>4. CASE ~n.hex
      BY <2>2, <3>1, <3>2, <3>4 DEF Extended, Base
    <3> QED
      BY <3>3, <3>4
  <2> QED
    BY <2>5, <2>6
<1> QED
  BY <1>1, <1>3, <1>4

-----------------------------------------------------------------------------
(* What the automaton has seen                                             *)

Numeral(start, negative, hex, to) ==
  [start |-> start, negative |-> negative, hex |-> hex, to |-> to]

\* What each state says of the first p characters of s.
Explains(s, p, q) ==
  /\ q = 0 => \A k \in 1 .. p : s[k] = Space
  /\ q = 1 => \E n \in Shape(s) : ~n.hex /\ From(n) = p /\ n.to = p /\ IsNumeral(s, n, p)
                                  /\ s[p] = "0"
  /\ q = 2 => \E n \in Shape(s) : ~n.hex /\ n.to = p /\ IsNumeral(s, n, p)
  /\ q = 3 => p > 0 /\ s[p] = Minus /\ \A k \in 1 .. p - 1 : s[k] = Space
  /\ q = 4 => \E n \in Shape(s) : n.hex /\ From(n) = p + 1 /\ Opens(s, n)
  /\ q = 5 => \E n \in Shape(s) : n.hex /\ n.to = p /\ IsNumeral(s, n, p)
  /\ q = 6 => \E n \in Shape(s) : n.to < p /\ IsNumeral(s, n, p)

\* The first digit begins a decimal numeral.
LEMMA Begins ==
  ASSUME NEW s \in Seq(STRING), NEW p \in 0 .. Len(s) - 1, NEW q \in {0, 3},
         Explains(s, p, q), s[p + 1] \in Decimal
  PROVE  \E n \in Shape(s) : /\ ~n.hex /\ From(n) = p + 1 /\ n.to = p + 1
                             /\ IsNumeral(s, n, p + 1)
<1>0. Len(s) \in Nat
  OBVIOUS
<1>1. ASSUME NEW st \in 1 .. Len(s), NEW neg \in BOOLEAN,
             p + 1 = IF neg THEN st + 1 ELSE st,
             \A k \in 1 .. st - 1 : s[k] = Space, neg => s[st] = Minus
      PROVE  \E n \in Shape(s) : /\ ~n.hex /\ From(n) = p + 1 /\ n.to = p + 1
                                 /\ IsNumeral(s, n, p + 1)
  <2> DEFINE n == Numeral(st, neg, FALSE, p + 1)
  <2>1. n \in Shape(s)
    BY <1>0 DEF Shape, Numeral
  <2>2. /\ n.start = st /\ n.negative = neg /\ n.hex = FALSE /\ n.to = p + 1
    BY DEF Numeral
  <2> HIDE DEF n
  <2>3. From(n) = p + 1
    BY <1>1, <2>2 DEF From, Body
  <2>4. Opens(s, n)
    BY <1>1, <2>2 DEF Opens
  <2>5. \A k \in p + 1 .. p + 1 : k = p + 1
    OBVIOUS
  <2>6. \A k \in p + 1 + 1 .. p + 1 : FALSE
    OBVIOUS
  <2>7. IsNumeral(s, n, p + 1)
    BY <2>2, <2>3, <2>4, <2>5, <2>6 DEF IsNumeral
  <2> QED
    BY <2>1, <2>2, <2>3, <2>7
<1>2. CASE q = 0
  <2>1. p + 1 \in 1 .. Len(s) /\ (p + 1) - 1 = p
    BY <1>0
  <2>2. \A k \in 1 .. p : s[k] = Space
    BY <1>2, Zenon DEF Explains
  <2> QED
    BY <1>1, <2>1, <2>2
<1>3. CASE q = 3
  <2>1. p > 0 /\ s[p] = Minus /\ \A k \in 1 .. p - 1 : s[k] = Space
    BY <1>3, Zenon DEF Explains
  <2>2. p \in 1 .. Len(s)
    BY <1>0, <2>1
  <2> QED
    BY <1>1, <2>1, <2>2
<1> QED
  BY <1>2, <1>3

\* A further digit makes a longer numeral.
LEMMA Longer ==
  ASSUME NEW s \in Seq(STRING), NEW p \in 0 .. Len(s) - 1, NEW n \in Shape(s),
         Opens(s, n), From(n) <= p + 1,
         \A k \in From(n) .. p + 1 : s[k] \in IF n.hex THEN Hex ELSE Decimal
  PROVE  \E m \in Shape(s) : m.hex = n.hex /\ m.to = p + 1 /\ IsNumeral(s, m, p + 1)
<1>0. Len(s) \in Nat /\ From(n) \in Nat
  BY Places
<1> DEFINE m == Numeral(n.start, n.negative, n.hex, p + 1)
<1>1. m \in Shape(s)
  BY <1>0 DEF Shape, Numeral
<1>2. m.start = n.start /\ m.negative = n.negative /\ m.hex = n.hex /\ m.to = p + 1
  BY DEF Numeral
<1> HIDE DEF m
<1>3. From(m) = From(n) /\ Body(m) = Body(n)
  BY <1>2, Zenon DEF From, Body
<1>4. Opens(s, m)
  BY <1>2, <1>3, Zenon DEF Opens
<1>5. \A k \in m.to + 1 .. p + 1 : FALSE
  BY <1>2
<1>6. IsNumeral(s, m, p + 1)
  BY <1>2, <1>3, <1>4, <1>5 DEF IsNumeral
<1> QED
  BY <1>1, <1>2, <1>6

\* A blank behind a numeral belongs to it.
LEMMA Closes ==
  ASSUME NEW s \in Seq(STRING), NEW p \in 0 .. Len(s) - 1, NEW n \in Shape(s),
         IsNumeral(s, n, p), s[p + 1] \in White,
         ~n.hex /\ n.to = p => s[p + 1] = Space
  PROVE  IsNumeral(s, n, p + 1) /\ n.to < p + 1
<1>0. Len(s) \in Nat /\ From(n) \in Nat /\ n.to \in Nat /\ n.to <= p
  BY Places DEF IsNumeral
<1>1. \A k \in n.to + 1 .. p + 1 : k \in n.to + 1 .. p \/ k = p + 1
  BY <1>0
<1>2. \A k \in n.to + 1 .. p + 1 : s[k] \in White
  BY <1>1 DEF IsNumeral
<1>3. ~n.hex /\ n.to < p + 1 => s[n.to + 1] = Space
  <2>1. CASE n.to = p
    BY <2>1
  <2>2. CASE n.to < p
    BY <2>2 DEF IsNumeral
  <2> QED
    BY <1>0, <2>1, <2>2
<1>4. n.to <= p + 1 /\ n.to < p + 1
  BY <1>0
<1>5. From(n) <= n.to /\ Opens(s, n)
      /\ \A k \in From(n) .. n.to : s[k] \in IF n.hex THEN Hex ELSE Decimal
  BY Zenon DEF IsNumeral
<1> QED
  BY <1>2, <1>3, <1>4, <1>5, Zenon DEF IsNumeral

LEMMA Explained ==
  ASSUME NEW s \in Seq(STRING), NEW p \in 0 .. Len(s) - 1, NEW q \in 0 .. 6, NEW m \in 0 .. 6,
         Explains(s, p, q), Leads(q, s[p + 1], m)
  PROVE  Explains(s, p + 1, m)
<1> DEFINE c == s[p + 1]
<1>0. Len(s) \in Nat /\ (p + 1) - 1 = p
  OBVIOUS
<1>1. ASSUME NEW n \in Shape(s), IsNumeral(s, n, p), n.to = p,
             c \in IF n.hex THEN Hex ELSE Decimal
      PROVE  \E k \in Shape(s) : k.hex = n.hex /\ k.to = p + 1 /\ IsNumeral(s, k, p + 1)
  <2>1. Opens(s, n) /\ From(n) <= n.to
        /\ \A k \in From(n) .. n.to : s[k] \in IF n.hex THEN Hex ELSE Decimal
    BY <1>1, Zenon DEF IsNumeral
  <2>2. From(n) \in Nat
    BY Places
  <2>3. \A k \in From(n) .. p + 1 : k \in From(n) .. p \/ k = p + 1
    BY <2>2
  <2>4. \A k \in From(n) .. p + 1 : s[k] \in IF n.hex THEN Hex ELSE Decimal
    BY <1>1, <2>1, <2>3
  <2>5. From(n) <= p + 1
    BY <1>1, <2>1, <2>2
  <2> QED
    BY <2>1, <2>4, <2>5, Longer
<1>2. CASE m = 0
  <2>1. q = 0 /\ c = Space
    BY <1>2 DEF Leads
  <2>2. \A k \in 1 .. p : s[k] = Space
    BY <2>1, Zenon DEF Explains
  <2>3. \A k \in 1 .. p + 1 : k \in 1 .. p \/ k = p + 1
    OBVIOUS
  <2>4. \A k \in 1 .. p + 1 : s[k] = Space
    BY <2>1, <2>2, <2>3
  <2> QED
    BY <1>2, <2>4 DEF Explains
<1>3. CASE m = 1
  <2>1. q \in {0, 3} /\ c = "0"
    BY <1>3 DEF Leads
  <2>2. \E n \in Shape(s) : /\ ~n.hex /\ From(n) = p + 1 /\ n.to = p + 1
                            /\ IsNumeral(s, n, p + 1)
    BY <2>1, Characters, Begins
  <2> QED
    BY <1>3, <2>1, <2>2 DEF Explains
<1>4. CASE m = 2
  <2>1. c \in Decimal /\ q \in {0, 1, 2, 3}
    BY <1>4 DEF Leads
  <2>2. \E n \in Shape(s) : ~n.hex /\ n.to = p + 1 /\ IsNumeral(s, n, p + 1)
    <3>1. CASE q \in {0, 3}
      BY <2>1, <3>1, Begins
    <3>2. CASE q \in {1, 2}
      <4>1. PICK n \in Shape(s) : ~n.hex /\ n.to = p /\ IsNumeral(s, n, p)
        BY <3>2 DEF Explains
      <4> QED
        BY <1>1, <2>1, <4>1
    <3> QED
      BY <2>1, <3>1, <3>2
  <2> QED
    BY <1>4, <2>2 DEF Explains
<1>5. CASE m = 3
  <2>1. q = 0 /\ c = Minus
    BY <1>5 DEF Leads
  <2>2. \A k \in 1 .. p : s[k] = Space
    BY <2>1, Zenon DEF Explains
  <2> QED
    BY <1>0, <1>5, <2>1, <2>2 DEF Explains
<1>6. CASE m = 4
  <2>1. q = 1 /\ c = "x"
    BY <1>6 DEF Leads
  <2>2. PICK n \in Shape(s) : /\ ~n.hex /\ From(n) = p /\ n.to = p /\ IsNumeral(s, n, p)
                              /\ s[p] = "0"
    BY <2>1, Zenon DEF Explains
  <2> DEFINE k == Numeral(n.start, n.negative, TRUE, n.to)
  <2>3. k \in Shape(s)
    BY DEF Shape, Numeral
  <2>4. k.start = n.start /\ k.negative = n.negative /\ k.hex /\ k.to = n.to
    BY DEF Numeral
  <2> HIDE DEF k
  <2>5. Body(n) = p /\ Body(k) = p
    BY <2>2, <2>4, Zenon DEF From, Body
  <2>6. From(k) = (p + 1) + 1
    BY <2>4, <2>5 DEF From
  <2>7. Opens(s, n)
    BY <2>2, Zenon DEF IsNumeral
  <2>8. Opens(s, k)
    BY <2>1, <2>2, <2>4, <2>5, <2>7, Zenon DEF Opens
  <2> QED
    BY <1>6, <2>3, <2>4, <2>6, <2>8 DEF Explains
<1>7. CASE m = 5
  <2>1. q \in {4, 5} /\ c \in Hex
    BY <1>7 DEF Leads
  <2>2. \E n \in Shape(s) : n.hex /\ n.to = p + 1 /\ IsNumeral(s, n, p + 1)
    <3>1. CASE q = 4
      <4>1. PICK n \in Shape(s) : n.hex /\ From(n) = p + 1 /\ Opens(s, n)
        BY <3>1, Zenon DEF Explains
      <4>2. \A k \in From(n) .. p + 1 : k = p + 1
        BY <4>1
      <4>3. \A k \in From(n) .. p + 1 : s[k] \in IF n.hex THEN Hex ELSE Decimal
        BY <2>1, <4>1, <4>2
      <4>4. From(n) <= p + 1
        BY <4>1
      <4>5. \E k \in Shape(s) : k.hex = n.hex /\ k.to = p + 1 /\ IsNumeral(s, k, p + 1)
        BY <4>1, <4>3, <4>4, Longer
      <4> QED
        BY <4>1, <4>5, Zenon
    <3>2. CASE q = 5
      <4>1. PICK n \in Shape(s) : n.hex /\ n.to = p /\ IsNumeral(s, n, p)
        BY <3>2, Zenon DEF Explains
      <4> QED
        BY <1>1, <2>1, <4>1
    <3> QED
      BY <2>1, <3>1, <3>2
  <2> QED
    BY <1>7, <2>2 DEF Explains
<1>8. CASE m = 6
  <2>1. (q \in {1, 2} /\ c = Space) \/ (q \in {5, 6} /\ c \in White)
    BY <1>8 DEF Leads
  <2>2. PICK n \in Shape(s) : IsNumeral(s, n, p) /\ (~n.hex /\ n.to = p => c = Space)
    <3>1. CASE q = 1 \/ q = 2
      BY <2>1, <3>1 DEF Explains
    <3>2. CASE q = 5
      BY <2>1, <3>2 DEF Explains
    <3>3. CASE q = 6
      BY <2>1, <3>3 DEF Explains
    <3> QED
      BY <2>1, <3>1, <3>2, <3>3
  <2>3. c \in White
    BY <2>1, Characters
  <2>4. IsNumeral(s, n, p + 1) /\ n.to < p + 1
    BY <2>2, <2>3, Closes
  <2> QED
    BY <1>8, <2>4 DEF Explains
<1> QED
  BY <1>2, <1>3, <1>4, <1>5, <1>6, <1>7, <1>8

-----------------------------------------------------------------------------
(* The inductive invariant of a conversion                                 *)

InRange(s, n) == IF n.negative THEN 2 * Magnitude(s, n) < W ELSE Magnitude(s, n) < W

\* In a text that is a numeral the automaton is where the numeral says, with its
\* sign and with the number so far; it gives up on none that is in range.
\* Whatever the text is, its state says what has been read.
TracksAt(s, j, q, number, minus, r) ==
  /\ s \in Seq(STRING) /\ j \in 1 .. Len(s) + 1 /\ q \in 0 .. 6
  /\ r \in {"running", "value", "exit"}
  /\ r = "value" => j = Len(s) + 1
  /\ q \in {0, 1, 3, 4} => number = 0
  /\ Explains(s, j - 1, q)
  /\ \A n \in Numerals(s) :
       /\ q \in Stands(n, j - 1) /\ number = Counted(s, n, j - 1)
       /\ minus = IF n.negative /\ j > n.start THEN 1 ELSE 0
       /\ r = "exit" => ~InRange(s, n)

Tracks == TracksAt(str, i, state, exact, sign_bit, ret)

LEMMA NumeralsAre == \A s : \A n \in Numerals(s) : n \in Shape(s) /\ IsNumeral(s, n, Len(s))
BY Zenon DEF Numerals, Shape

\* A conversion begins.
LEMMA TracksFromStart ==
  ASSUME NEW s \in Seq(STRING), NEW r \in {"running", "value"}, r = "value" => s = <<>>
  PROVE  TracksAt(s, 1, 0, 0, 0, r)
<1>1. Len(s) \in Nat /\ (r = "value" => Len(s) = 0)
  OBVIOUS
<1>2. Explains(s, 0, 0)
  BY DEF Explains
<1>3. ASSUME NEW n \in Numerals(s)
      PROVE  0 \in Stands(n, 0) /\ Counted(s, n, 0) = 0 /\ n.start \in Nat /\ n.start >= 1
  <2>1. n \in Shape(s) /\ IsNumeral(s, n, Len(s))
    BY NumeralsAre
  <2>2. /\ n.start \in 1 .. Len(s) /\ n.to \in 1 .. Len(s) /\ From(n) \in Nat \ {0}
    BY <2>1, Places
  <2>3. 0 \in 0 .. n.to /\ 0 < From(n) /\ 0 <= n.to
    BY <1>1, <2>2
  <2>4. Values(s, n)[0] = 0
    BY <2>1, <2>3, ValuesAre
  <2> QED
    BY <1>1, <2>2, <2>3, <2>4 DEF Stands, Counted
<1>4. 1 - 1 = 0 /\ 1 \in 1 .. Len(s) + 1 /\ 0 \in 0 .. 6 /\ (r = "value" => 1 = Len(s) + 1)
  BY <1>1
<1>5. \A n \in Numerals(s) : ~(1 > n.start)
  BY <1>3
<1>6. r # "exit"
  OBVIOUS
<1> QED
  BY <1>1, <1>2, <1>3, <1>4, <1>5, <1>6 DEF TracksAt

\* The value so far is the number so far as long as that is less than W.
LEMMA NoOverflow ==
  ASSUME Inv, Tracks, Reading, NEW n \in Numerals(str), InRange(str, n)
  PROVE  ~Overflows(Target(state, str[i])) /\ Target(state, str[i]) # Dead
<1> DEFINE next == Target(state, str[i])
           p == i - 1
<1>1. n \in Shape(str) /\ IsNumeral(str, n, Len(str))
  BY NumeralsAre
<1>2. str \in Seq(STRING) /\ Len(str) \in Nat /\ i \in 1 .. Len(str) /\ p \in 0 .. Len(str) - 1 /\ p + 1 = i
  BY DEF Tracks, TracksAt, Reading
<1>3. state \in Stands(n, p) /\ exact = Counted(str, n, p)
  BY DEF Tracks, TracksAt
<1> HIDE DEF p
<1>4. next \in Stands(n, p + 1)
  BY <1>1, <1>2, <1>3, Advances
<1> HIDE DEF next
<1>5. Extended(Counted(str, n, p), next, str[i]) = Counted(str, n, p + 1)
  BY <1>1, <1>2, <1>4, Counts
<1>6. next \in 0 .. 6
  BY <1>4 DEF Stands
<1>7. /\ Counted(str, n, p) \in Nat /\ Counted(str, n, p + 1) \in Nat
      /\ Counted(str, n, p) <= Counted(str, n, p + 1)
      /\ Counted(str, n, p + 1) < W
  <2> DEFINE v == Values(str, n)
  <2>1. \A k \in 0 .. n.to : v[k] \in Nat
    BY <1>1, <1>2, ValuesAre
  <2>2. \A k \in 0 .. n.to : (k > 0 => v[k - 1] <= v[k]) /\ v[k] <= Magnitude(str, n)
    BY <1>1, <1>2, ValuesGrow
  <2>3. n.to \in Nat /\ n.to \in 0 .. n.to
    BY <1>1, <1>2, Places
  <2>4. Magnitude(str, n) \in Nat
    BY <2>1, <2>3 DEF Magnitude
  <2> HIDE DEF v
  <2>5. Magnitude(str, n) < W
    <3>1. W \in Nat
      BY WordPositive
    <3>2. Magnitude(str, n) < W \/ 2 * Magnitude(str, n) < W
      BY DEF InRange
    <3> QED
      BY <2>4, <3>1, <3>2
  <2>6. W \in Nat
    BY WordPositive
  <2>7. CASE p + 1 <= n.to
    <3>1. p <= n.to /\ p \in 0 .. n.to /\ p + 1 \in 0 .. n.to /\ p + 1 > 0 /\ (p + 1) - 1 = p
      BY <1>2, <2>3, <2>7
    <3>2. Counted(str, n, p) = v[p] /\ Counted(str, n, p + 1) = v[p + 1]
      BY <2>7, <3>1, Zenon DEF Counted, v
    <3>3. v[p] \in Nat /\ v[p + 1] \in Nat
      BY <2>1, <3>1, Zenon
    <3>4. v[p] <= v[p + 1] /\ v[p + 1] <= Magnitude(str, n)
      BY <2>2, <3>1
    <3> QED
      BY <2>4, <2>5, <2>6, <3>2, <3>3, <3>4
  <2>8. CASE ~(p + 1 <= n.to)
    <3>1. p <= n.to => p = n.to
      BY <1>2, <2>3, <2>8
    <3>2. Counted(str, n, p) = v[n.to] /\ Counted(str, n, p + 1) = v[n.to]
      BY <2>8, <3>1, Zenon DEF Counted, v
    <3>3. v[n.to] \in Nat /\ v[n.to] = Magnitude(str, n)
      BY <2>1, <2>3, Zenon DEF Magnitude, v
    <3> QED
      BY <2>4, <2>5, <2>6, <3>2, <3>3
  <2> QED
    BY <2>7, <2>8
<1>8. uv = Counted(str, n, p)
  <2>1. uv = exact % W
    BY DEF Inv
  <2>2. W \in Nat \ {0}
    BY WordPositive
  <2>3. Counted(str, n, p) \in 0 .. W - 1
    BY <1>7, <2>2
  <2> QED
    BY <1>3, <2>1, <2>2, <2>3, IntModSmall
<1>9. Counted(str, n, p + 1) % W = Counted(str, n, p + 1)
  <2>1. W \in Nat \ {0}
    BY WordPositive
  <2>2. Counted(str, n, p + 1) \in 0 .. W - 1
    BY <1>7, <2>1
  <2> QED
    BY <2>1, <2>2, IntModSmall
<1>10. ~Overflows(next)
  <2>1. Extended(uv, next, str[i]) % W = Counted(str, n, p + 1)
    BY <1>5, <1>8, <1>9, Zenon
  <2>2. ~(Counted(str, n, p + 1) < uv)
    BY <1>7, <1>8
  <2> QED
    BY <2>1, <2>2, Zenon DEF Overflows
<1>11. next # Dead
  BY <1>6 DEF Dead
<1> QED
  BY <1>10, <1>11 DEF next

LEMMA ReadTracks ==
  ASSUME Inv, Tracks, ReadCharacter
  PROVE  Tracks'
<1> DEFINE next == Target(state, str[i])
           p == i - 1
<1>1. /\ Reading /\ next # Dead /\ state' = next /\ i' = i + 1 /\ str' = str /\ ret' = ret
      /\ exact' = Extended(exact, next, str[i])
      /\ sign_bit' = IF next = 3 THEN 1 ELSE sign_bit
  BY DEF ReadCharacter
<1>2. /\ str \in Seq(STRING) /\ Len(str) \in Nat /\ i \in 1 .. Len(str)
      /\ p \in 0 .. Len(str) - 1 /\ p + 1 = i /\ i' - 1 = p + 1 /\ i' \in 1 .. Len(str) + 1
      /\ ret' = "running"
  BY <1>1 DEF Tracks, TracksAt, Reading
<1>3. state \in 0 .. 6 /\ Explains(str, p, state) /\ (state \in {0, 1, 3, 4} => exact = 0)
  BY DEF Tracks, TracksAt
<1> HIDE DEF p
<1>4. next \in 0 .. 6 /\ Leads(state, str[i], next)
  BY <1>1, <1>3, TargetLeads, Zenon
<1> HIDE DEF next
<1>5. Explains(str, p + 1, next)
  BY <1>2, <1>3, <1>4, Explained
<1>6. next \in {0, 1, 3, 4} => exact' = 0
  <2>1. CASE next \in {0, 3, 4}
    <3>1. state \in {0, 1}
      BY <1>4, <2>1 DEF Leads
    <3> QED
      BY <1>1, <1>3, <2>1, <3>1 DEF Extended
  <2>2. CASE next = 1
    <3>1. state \in {0, 3} /\ str[i] = "0"
      BY <1>4, <2>2 DEF Leads
    <3>2. exact = 0 /\ Digit(str[i]) = 0
      BY <1>3, <3>1, Characters
    <3> QED
      BY <1>1, <2>2, <3>2 DEF Extended
  <2> QED
    BY <2>1, <2>2
<1>7. ASSUME NEW n \in Numerals(str)
      PROVE  /\ next \in Stands(n, p + 1) /\ exact' = Counted(str, n, p + 1)
             /\ sign_bit' = IF n.negative /\ i' > n.start THEN 1 ELSE 0
  <2>1. n \in Shape(str) /\ IsNumeral(str, n, Len(str))
    BY NumeralsAre
  <2>2. /\ state \in Stands(n, p) /\ exact = Counted(str, n, p)
        /\ sign_bit = IF n.negative /\ i > n.start THEN 1 ELSE 0
    BY DEF Tracks, TracksAt, p
  <2>3. next \in Stands(n, p + 1)
    BY <1>2, <2>1, <2>2, Advances DEF next
  <2>4. Extended(Counted(str, n, p), next, str[p + 1]) = Counted(str, n, p + 1)
    BY <1>2, <2>1, <2>3, Counts
  <2>5. exact' = Counted(str, n, p + 1)
    BY <1>1, <1>2, <2>2, <2>4, Zenon
  <2>6. sign_bit' = IF n.negative /\ i' > n.start THEN 1 ELSE 0
    <3>1. /\ n.start \in Nat /\ Body(n) \in Nat /\ From(n) \in Nat
          /\ Body(n) = IF n.negative THEN n.start + 1 ELSE n.start
      BY <1>2, <2>1, Places
    <3>2. next = 3 => n.negative /\ p + 1 = n.start
      BY <1>2, <2>3, <3>1 DEF Stands
    <3>3. n.negative /\ p + 1 = n.start => next = 3
      BY <1>2, <2>3, <3>1 DEF Stands
    <3> QED
      BY <1>1, <1>2, <2>2, <3>1, <3>2, <3>3
  <2> QED
    BY <2>3, <2>5, <2>6
<1> QED
  BY <1>1, <1>2, <1>4, <1>5, <1>6, <1>7 DEF Tracks, TracksAt

\* At the end of a numeral its number is read.
LEMMA ReadToEnd ==
  ASSUME Tracks, i = Len(str) + 1, NEW n \in Numerals(str)
  PROVE  /\ exact = Magnitude(str, n) /\ Magnitude(str, n) \in Nat
         /\ n.negative \in BOOLEAN /\ sign_bit = IF n.negative THEN 1 ELSE 0
<1>1. str \in Seq(STRING) /\ Len(str) \in Nat
  BY DEF Tracks, TracksAt
<1>2. n \in Shape(str) /\ IsNumeral(str, n, Len(str))
  BY NumeralsAre
<1>3. n.start \in 1 .. Len(str) /\ n.to \in 1 .. Len(str) /\ n.negative \in BOOLEAN
  BY <1>1, <1>2, Places
<1>4. exact = Counted(str, n, i - 1) /\ sign_bit = IF n.negative /\ i > n.start THEN 1 ELSE 0
  BY DEF Tracks, TracksAt
<1>5. i - 1 <= n.to => i - 1 = n.to
  BY <1>1, <1>3
<1>6. Counted(str, n, i - 1) = Magnitude(str, n)
  BY <1>5 DEF Counted, Magnitude
<1>7. i > n.start
  BY <1>1, <1>3
<1>8. n.to \in 0 .. n.to
  BY <1>3
<1>9. Magnitude(str, n) \in Nat
  BY <1>1, <1>2, <1>8, ValuesAre DEF Magnitude
<1> QED
  BY <1>3, <1>4, <1>6, <1>7, <1>9

LEMMA ConvertTracks ==
  ASSUME Inv, Tracks, Convert
  PROVE  Tracks'
<1>1. CASE ReadCharacter
  BY <1>1, ReadTracks
<1>2. CASE Fail
  <2>1. /\ UNCHANGED <<str, i, state, sign_bit, exact>> /\ ret' = "exit" /\ Reading
        /\ \/ Target(state, str[i]) = Dead
           \/ Overflows(Target(state, str[i]))
    BY <1>2 DEF Fail
  <2>2. \A n \in Numerals(str) : ~InRange(str, n)
    BY <2>1, NoOverflow
  <2> QED
    BY <2>1, <2>2 DEF Tracks, TracksAt
<1>3. ASSUME Ends PROVE i = Len(str) + 1 /\ ret = "running"
  BY <1>3 DEF Ends, Tracks, TracksAt
<1>4. CASE ReturnUnsigned
  <2>1. UNCHANGED <<str, i, state, sign_bit, exact>> /\ ret' = "value" /\ Ends
    BY <1>4 DEF ReturnUnsigned
  <2> QED
    BY <1>3, <2>1 DEF Tracks, TracksAt
<1>5. CASE ReturnNegated
  <2>1. UNCHANGED <<str, i, state, sign_bit, exact>> /\ Ends /\ sign_bit = 1
    BY <1>5 DEF ReturnNegated
  <2>2. CASE 2 * uv >= W
    <3>1. ret' = "exit"
      BY <1>5, <2>2 DEF ReturnNegated
    <3>2. ASSUME NEW n \in Numerals(str), InRange(str, n) PROVE FALSE
      <4>1. exact = Magnitude(str, n) /\ Magnitude(str, n) \in Nat /\ n.negative
        BY <1>3, <2>1, ReadToEnd
      <4>2. 2 * exact < W /\ exact \in Nat
        BY <3>2, <4>1 DEF InRange
      <4>3. W \in Nat \ {0}
        BY WordPositive
      <4>4. exact \in 0 .. W - 1
        BY <4>2, <4>3
      <4>5. uv = exact
        BY <4>3, <4>4, IntModSmall DEF Inv
      <4> QED
        BY <2>2, <4>2, <4>3, <4>5
    <3> QED
      BY <2>1, <3>1, <3>2 DEF Tracks, TracksAt
  <2>3. CASE ~(2 * uv >= W)
    <3>1. ret' = "value"
      BY <1>5, <2>3 DEF ReturnNegated
    <3> QED
      BY <1>3, <2>1, <3>1 DEF Tracks, TracksAt
  <2> QED
    BY <2>2, <2>3
<1> QED
  BY <1>1, <1>2, <1>4, <1>5 DEF Convert

LEMMA FrameTracks ==
  ASSUME Tracks, UNCHANGED convert_vars
  PROVE  Tracks'
BY DEF Tracks, TracksAt, convert_vars

LEMMA TracksConverts ==
  ASSUME Inv, Tracks
  PROVE  ConvertsNumerals
<1> SUFFICES ASSUME ret # "running" PROVE ConvertsNumerals
  BY DEF ConvertsNumerals
<1>1. ret = "value" \/ ret = "exit"
  BY DEF Tracks, TracksAt
<1>2. ret = "value" => i = Len(str) + 1 /\ val = Denoted % W
  BY DEF Tracks, TracksAt, Inv
<1>3. ASSUME Numerals(str) = {}, ret = "value" PROVE val = 0
  <2>1. Len(str) \in Nat /\ i - 1 = Len(str) /\ state \in 0 .. 6
    BY <1>2, <1>3 DEF Tracks, TracksAt
  <2>2. Explains(str, Len(str), state)
    BY <2>1 DEF Tracks, TracksAt
  <2>3. \A n \in Shape(str) : ~IsNumeral(str, n, Len(str))
    BY <1>3, Zenon DEF Numerals, Shape
  <2>4. state \notin {1, 2, 5, 6}
    BY <2>2, <2>3 DEF Explains
  <2>5. exact = 0
    BY <2>1, <2>4 DEF Tracks, TracksAt
  <2>6. Denoted = 0
    <3>1. exact \in Int /\ exact <= 0 /\ exact >= 0
      BY <2>5 DEF Inv
    <3>2. -exact = 0
      BY <3>1
    <3> QED
      BY <2>5, <3>2, Zenon DEF Denoted
  <2> QED
    BY <1>2, <1>3, <2>6, ZeroReduced
<1>4. ASSUME NEW n \in Numerals(str)
      PROVE  LET magnitude == Magnitude(str, n)
                 word == (IF n.negative THEN -magnitude ELSE magnitude) % W
                 inRange == IF n.negative THEN 2 * magnitude < W ELSE magnitude < W
             IN  IF inRange THEN ret = "value" /\ val = word
                 ELSE ret = "exit" \/ val = word
  <2>1. ret = "exit" => ~InRange(str, n)
    BY DEF Tracks, TracksAt
  <2>2. ASSUME ret = "value"
        PROVE  val = (IF n.negative THEN -Magnitude(str, n) ELSE Magnitude(str, n)) % W
    <3>1. /\ exact = Magnitude(str, n) /\ n.negative \in BOOLEAN
          /\ sign_bit = IF n.negative THEN 1 ELSE 0
      BY <1>2, <2>2, ReadToEnd
    <3>2. Denoted = IF n.negative THEN -Magnitude(str, n) ELSE Magnitude(str, n)
      BY <3>1 DEF Denoted
    <3> QED
      BY <1>2, <2>2, <3>2, Zenon
  <2> QED
    BY <1>1, <2>1, <2>2, Zenon DEF InRange
<1> QED
  BY <1>1, <1>3, <1>4, Zenon DEF ConvertsNumerals

-----------------------------------------------------------------------------
(* Folds over finite sets                                                  *)

\* The recursion by which a fold is defined, which takes pick[T] out of T first.
IsFold(g, D, base, pick, h) ==
  g = [T \in D |-> IF T = {} THEN base ELSE h[<<pick[T], g[T \ {pick[T]}]>>]]

Picks(pick, S) == \A T \in SUBSET S : T # {} => pick[T] \in T

\* Induction over the sets that a fold meets.
LEMMA FoldInduction ==
  ASSUME NEW S, IsFiniteSet(S), NEW pick, Picks(pick, S), NEW P, {} \in P,
         \A T \in SUBSET S : T # {} /\ T \ {pick[T]} \in P => T \in P
  PROVE  \A T \in SUBSET S : T \in P
<1> DEFINE N == {n \in Nat : \A T \in SUBSET S : Cardinality(T) = n => T \in P}
<1>1. 0 \in N
  <2>1. ASSUME NEW T \in SUBSET S, Cardinality(T) = 0 PROVE T = {}
    BY <2>1, FS_Subset, FS_EmptySet
  <2> QED
    BY <2>1
<1>2. ASSUME NEW n \in Nat, n \in N PROVE n + 1 \in N
  <2>1. ASSUME NEW T \in SUBSET S, Cardinality(T) = n + 1 PROVE T \in P
    <3>1. IsFiniteSet(T)
      BY FS_Subset
    <3>2. T # {}
      <4>1. Cardinality({}) = 0 /\ n + 1 # 0
        BY FS_EmptySet
      <4> QED
        BY <2>1, <4>1
    <3>3. pick[T] \in T
      BY <3>2, Zenon DEF Picks
    <3>4. Cardinality(T \ {pick[T]}) = Cardinality(T) - 1
      BY <3>1, <3>3, FS_RemoveElement
    <3>5. Cardinality(T \ {pick[T]}) = n
      BY <2>1, <3>4
    <3>6. T \ {pick[T]} \in SUBSET S
      OBVIOUS
    <3>7. T \ {pick[T]} \in P
      BY <1>2, <3>5, <3>6
    <3> QED
      BY <3>2, <3>7
  <2> QED
    BY <2>1
<1> HIDE DEF N
<1>3. Nat \subseteq N
  BY <1>1, <1>2, NaturalSet
<1>4. \A T \in SUBSET S : Cardinality(T) \in Nat
  BY FS_Subset, FS_CardinalityType
<1> QED
  BY <1>3, <1>4 DEF N

Grows(P, pick, S) == \A T \in SUBSET S : T # {} /\ T \ {pick[T]} \in P => T \in P

LEMMA FoldReaches ==
  ASSUME NEW S, IsFiniteSet(S), NEW pick, Picks(pick, S), NEW P, {} \in P, Grows(P, pick, S)
  PROVE  SUBSET S \subseteq P
<1>1. \A T \in SUBSET S : T # {} /\ T \ {pick[T]} \in P => T \in P
  BY Zenon DEF Grows
<1>2. \A T \in SUBSET S : T \in P
  BY <1>1, FoldInduction
<1> QED
  BY <1>2, Zenon

LEMMA FoldExists ==
  ASSUME NEW S, IsFiniteSet(S), NEW base, NEW pick, Picks(pick, S), NEW h
  PROVE  \E g : IsFold(g, SUBSET S, base, pick, h)
<1> DEFINE Stage(n) == {T \in SUBSET S : Cardinality(T) <= n}
           N == {n \in Nat : \E g : IsFold(g, Stage(n), base, pick, h)}
           Value(g, T) == IF T = {} THEN base ELSE h[<<pick[T], g[T \ {pick[T]}]>>]
<1>1. 0 \in N
  <2>1. \A T \in Stage(0) : T = {}
    <3> SUFFICES ASSUME NEW T \in SUBSET S, Cardinality(T) <= 0 PROVE T = {}
      OBVIOUS
    <3> QED
      BY FS_Subset, FS_EmptySet, FS_CardinalityType
  <2> DEFINE g == [T \in Stage(0) |-> base]
  <2>2. g = [T \in Stage(0) |-> Value(g, T)]
    BY <2>1
  <2> HIDE DEF g
  <2>3. IsFold(g, Stage(0), base, pick, h)
    BY <2>2, Zenon DEF IsFold
  <2> QED
    BY <2>3
<1>2. ASSUME NEW n \in Nat, n \in N PROVE n + 1 \in N
  <2>1. PICK g : IsFold(g, Stage(n), base, pick, h)
    BY <1>2
  <2> DEFINE f == [T \in Stage(n + 1) |-> Value(g, T)]
  <2>2. ASSUME NEW T \in Stage(n + 1), T # {}
        PROVE  T \ {pick[T]} \in Stage(n) /\ T \ {pick[T]} \in Stage(n + 1)
    <3>1. pick[T] \in T
      BY <2>2, Zenon DEF Picks
    <3>2. IsFiniteSet(T) /\ Cardinality(T) \in Nat
      BY FS_Subset, FS_CardinalityType
    <3>3. Cardinality(T \ {pick[T]}) = Cardinality(T) - 1
      BY <3>1, <3>2, FS_RemoveElement
    <3>4. Cardinality(T \ {pick[T]}) <= n
      BY <3>2, <3>3
    <3> QED
      BY <3>2, <3>3, <3>4
  <2>3. \A T \in Stage(n) : T \in Stage(n + 1)
    BY FS_Subset, FS_CardinalityType
  <2>4. ASSUME NEW T \in Stage(n) PROVE f[T] = g[T]
    <3>1. g[T] = Value(g, T)
      BY <2>1, Zenon DEF IsFold
    <3>2. f[T] = Value(g, T)
      BY <2>3, Zenon
    <3> QED
      BY <3>1, <3>2, Zenon
  <2>5. ASSUME NEW T \in Stage(n + 1) PROVE Value(g, T) = Value(f, T)
    <3>1. CASE T = {}
      BY <3>1
    <3>2. CASE T # {}
      <4>1. f[T \ {pick[T]}] = g[T \ {pick[T]}]
        BY <2>2, <2>4, <3>2, Zenon
      <4> HIDE DEF f
      <4> QED
        BY <4>1, Zenon
    <3> QED
      BY <3>1, <3>2
  <2>6. f = [T \in Stage(n + 1) |-> Value(g, T)]
    BY Zenon
  <2> HIDE DEF f, Stage
  <2>7. f = [T \in Stage(n + 1) |-> Value(f, T)]
    <3> HIDE DEF Value
    <3> QED
      BY <2>5, <2>6, Zenon
  <2>8. IsFold(f, Stage(n + 1), base, pick, h)
    BY <2>7, Zenon DEF IsFold
  <2> QED
    BY <2>8
<1>3. Cardinality(S) \in Nat
  BY FS_CardinalityType
<1>4. Stage(Cardinality(S)) = SUBSET S
  BY FS_Subset, FS_CardinalityType
<1> HIDE DEF N
<1>5. Nat \subseteq N
  BY <1>1, <1>2, NaturalSet
<1>6. Cardinality(S) \in N
  BY <1>3, <1>5
<1>7. PICK g : IsFold(g, Stage(Cardinality(S)), base, pick, h)
  BY <1>6 DEF N
<1> QED
  BY <1>4, <1>7

\* A fold over V with an operation on V.
LEMMA FoldTyped ==
  ASSUME NEW S, IsFiniteSet(S), NEW V, NEW base \in V, NEW pick, Picks(pick, S),
         NEW h, \A x \in S, v \in V : h[<<x, v>>] \in V
  PROVE  \E g : IsFold(g, SUBSET S, base, pick, h) /\ \A T \in SUBSET S : g[T] \in V
<1>1. PICK g : IsFold(g, SUBSET S, base, pick, h)
  BY FoldExists, Zenon
<1> DEFINE P == {T \in SUBSET S : g[T] \in V}
<1>2. ASSUME NEW T \in SUBSET S
      PROVE  g[T] = IF T = {} THEN base ELSE h[<<pick[T], g[T \ {pick[T]}]>>]
  BY <1>1, Zenon DEF IsFold
<1>3. {} \in P
  BY <1>2
<1>4. ASSUME NEW T \in SUBSET S, T # {}, T \ {pick[T]} \in P PROVE T \in P
  <2>1. pick[T] \in S /\ g[T \ {pick[T]}] \in V
    BY <1>4, Zenon DEF Picks
  <2>2. h[<<pick[T], g[T \ {pick[T]}]>>] \in V
    BY <2>1, Zenon
  <2> QED
    BY <1>2, <1>4, <2>2
<1> HIDE DEF P
<1>5. \A T \in SUBSET S : T \in P
  BY <1>3, <1>4, FoldInduction
<1> QED
  BY <1>1, <1>5 DEF P

-----------------------------------------------------------------------------
(* The parts of an instruction                                             *)

Halves == [state : 0 .. 6, parens : Nat,
           op : Seq(STRING), src : Seq(STRING), dst : Seq(STRING)]

Fields == [parens : Nat, commas : Nat, imm : Seq(STRING), reg1 : Seq(STRING),
           reg2 : Seq(STRING), scal : Seq(STRING)]

LEMMA SplitCharacterType ==
  ASSUME NEW m \in Halves, NEW c \in STRING
  PROVE  SplitCharacter(m, c) \in Halves
<1> DEFINE parens == IF c \in {"(", ")"} THEN m.parens + 1 ELSE m.parens
           q == SplitState(m.state, c, parens)
<1>1. /\ m.state \in 0 .. 6 /\ m.parens \in Nat
      /\ m.op \in Seq(STRING) /\ m.src \in Seq(STRING) /\ m.dst \in Seq(STRING)
  BY DEF Halves
<1>2. parens \in Nat
  <2>1. m.parens + 1 \in Nat
    BY <1>1
  <2> QED
    BY <1>1, <2>1, Zenon
<1> HIDE DEF parens
<1>3. q \in 0 .. 6
  <2>1. \A n \in {1, 2, 3, 4, 5, 6} : n \in 0 .. 6
    OBVIOUS
  <2>2. q \in {1, 2, 3, 4, 5, 6} \/ q = m.state
    BY Zenon DEF SplitState
  <2> QED
    BY <1>1, <2>1, <2>2, Zenon
<1> HIDE DEF q
<1>4. /\ Append(m.op, c) \in Seq(STRING) /\ Append(m.src, c) \in Seq(STRING)
      /\ Append(m.dst, c) \in Seq(STRING)
  BY <1>1
<1>5. SplitCharacter(m, c) =
        [state |-> q, parens |-> parens,
         op  |-> IF q = 1 THEN Append(m.op, c) ELSE m.op,
         src |-> IF q = 3 THEN Append(m.src, c) ELSE m.src,
         dst |-> IF q = 5 THEN Append(m.dst, c) ELSE m.dst]
  BY Zenon DEF SplitCharacter, q, parens
<1>6. /\ (IF q = 1 THEN Append(m.op, c) ELSE m.op) \in Seq(STRING)
      /\ (IF q = 3 THEN Append(m.src, c) ELSE m.src) \in Seq(STRING)
      /\ (IF q = 5 THEN Append(m.dst, c) ELSE m.dst) \in Seq(STRING)
  BY <1>1, <1>4, Zenon
<1> QED
  BY <1>2, <1>3, <1>5, <1>6 DEF Halves

LEMMA PartCharacterType ==
  ASSUME NEW m \in Fields, NEW c \in STRING
  PROVE  PartCharacter(m, c) \in Fields
<1>1. /\ m.parens + 1 \in Nat /\ m.commas + 1 \in Nat
      /\ Append(m.imm, c) \in Seq(STRING) /\ Append(m.reg1, c) \in Seq(STRING)
      /\ Append(m.reg2, c) \in Seq(STRING) /\ Append(m.scal, c) \in Seq(STRING)
  BY DEF Fields
<1>2. /\ [m EXCEPT !.parens = @ + 1] \in Fields /\ [m EXCEPT !.commas = @ + 1] \in Fields
      /\ [m EXCEPT !.imm = Append(@, c)] \in Fields
      /\ [m EXCEPT !.reg1 = Append(@, c)] \in Fields
      /\ [m EXCEPT !.reg2 = Append(@, c)] \in Fields
      /\ [m EXCEPT !.scal = Append(@, c)] \in Fields
  BY <1>1 DEF Fields
<1> QED
  BY <1>2, Zenon DEF PartCharacter

\* The last position of a set of positions.
LEMMA LastPosition ==
  ASSUME NEW n \in Nat
  PROVE  \A T \in SUBSET (1 .. n) : T # {} => Max(T) \in T
<1> SUFFICES ASSUME NEW T \in SUBSET (1 .. n), T # {} PROVE Max(T) \in T
  OBVIOUS
<1> DEFINE R == {n - x : x \in T}
<1>1. R \in SUBSET Nat /\ R # {}
  <2>1. \A x \in T : n - x \in Nat
    OBVIOUS
  <2>2. PICK x : x \in T
    BY Zenon
  <2>3. n - x \in R
    BY <2>2, Zenon
  <2> QED
    BY <2>1, <2>3, Zenon
<1>2. PICK r \in R : \A y \in R : r <= y
  <2> HIDE DEF R
  <2> QED
    BY <1>1, LeastNatural
<1>3. PICK x \in T : r = n - x
  BY <1>2
<1>4. \A y \in T : x >= y
  <2> SUFFICES ASSUME NEW y \in T PROVE x >= y
    OBVIOUS
  <2>1. n - y \in R
    OBVIOUS
  <2>2. n - x <= n - y
    BY <1>2, <1>3, <2>1
  <2> QED
    BY <2>2
<1> QED
  BY <1>4, Zenon DEF Max

LEMMA SplitType == \A t \in Seq(STRING) : Split(t) \in Halves
<1> SUFFICES ASSUME NEW t \in Seq(STRING) PROVE Split(t) \in Halves
  OBVIOUS
<1> DEFINE D == DOMAIN t
           base == [state |-> 0, parens |-> 0, op |-> <<>>, src |-> <<>>, dst |-> <<>>]
           pick == [T \in SUBSET D |-> Max(T)]
           h == [a \in D \X Halves |-> SplitCharacter(a[2], t[a[1]])]
           Folds(g) == g = [T \in SUBSET D |->
                              IF T = {} THEN base ELSE SplitCharacter(g[T \ {Max(T)}], t[Max(T)])]
<1>1. Len(t) \in Nat /\ D = 1 .. Len(t) /\ \A k \in D : t[k] \in STRING
  OBVIOUS
<1>2. IsFiniteSet(D)
  BY <1>1, FS_Interval
<1>3. base \in Halves
  BY DEF Halves
<1>4. Picks(pick, D)
  BY <1>1, LastPosition DEF Picks
<1>5. \A x \in D, v \in Halves : /\ h[<<x, v>>] = SplitCharacter(v, t[x])
                                 /\ SplitCharacter(v, t[x]) \in Halves
  BY <1>1, SplitCharacterType
<1>6. \A T \in SUBSET D : T # {} => Max(T) \in T /\ Max(T) \in D
  BY <1>1, LastPosition
<1>7. \A T \in SUBSET D : pick[T] = Max(T)
  OBVIOUS
<1> HIDE DEF D, base, pick, h
<1>8. \A x \in D, v \in Halves : h[<<x, v>>] \in Halves
  BY <1>5, Zenon
<1>9. PICK g : IsFold(g, SUBSET D, base, pick, h) /\ \A T \in SUBSET D : g[T] \in Halves
  BY <1>2, <1>3, <1>4, <1>8, FoldTyped
<1>10. Folds(g)
  <2>1. ASSUME NEW T \in SUBSET D
        PROVE  (IF T = {} THEN base ELSE h[<<pick[T], g[T \ {pick[T]}]>>])
                 = (IF T = {} THEN base ELSE SplitCharacter(g[T \ {Max(T)}], t[Max(T)]))
    <3>1. CASE T = {}
      BY <3>1, Zenon
    <3>2. CASE T # {}
      <4>1. Max(T) \in D /\ pick[T] = Max(T)
        BY <1>6, <1>7, <3>2, Zenon
      <4>2. T \ {Max(T)} \in SUBSET D
        OBVIOUS
      <4>3. g[T \ {Max(T)}] \in Halves
        BY <1>9, <4>2, Zenon
      <4>4. h[<<Max(T), g[T \ {Max(T)}]>>] = SplitCharacter(g[T \ {Max(T)}], t[Max(T)])
        BY <1>5, <4>1, <4>3, Zenon
      <4> QED
        BY <3>2, <4>1, <4>4, Zenon
    <3> QED
      BY <3>1, <3>2, Zenon
  <2> QED
    BY <1>9, <2>1, Zenon DEF IsFold
<1> DEFINE f == CHOOSE f : Folds(f)
<1>11. Folds(f)
  <2> HIDE DEF Folds
  <2> QED
    BY <1>10, Zenon
<1>12. Split(t) = f[D]
  BY Zenon DEF Split, FoldLeft, MapThenFoldSet, D, base
<1> HIDE DEF f
<1> DEFINE P == {T \in SUBSET D : f[T] \in Halves}
<1>13. {} \in P
  BY <1>3, <1>11
<1>14. ASSUME NEW T \in SUBSET D, T # {}, T \ {pick[T]} \in P PROVE T \in P
  <2>1. Max(T) \in D /\ f[T \ {Max(T)}] \in Halves
    BY <1>6, <1>7, <1>14
  <2>2. f[T] = SplitCharacter(f[T \ {Max(T)}], t[Max(T)])
    BY <1>11, <1>14, Zenon
  <2>3. f[T] \in Halves
    BY <1>5, <2>1, <2>2, Zenon
  <2> QED
    BY <2>3
<1> HIDE DEF P
<1>15. \A T \in SUBSET D : T \in P
  BY <1>2, <1>4, <1>13, <1>14, FoldInduction
<1>16. D \in P
  BY <1>15
<1> QED
  BY <1>12, <1>16 DEF P

LEMMA PartsType == \A t \in Seq(STRING) : Parts(t) \in Fields
<1> SUFFICES ASSUME NEW t \in Seq(STRING) PROVE Parts(t) \in Fields
  OBVIOUS
<1> DEFINE D == DOMAIN t
           base == [parens |-> 0, commas |-> 0, imm |-> <<>>, reg1 |-> <<>>,
                    reg2 |-> <<>>, scal |-> <<>>]
           pick == [T \in SUBSET D |-> Max(T)]
           h == [a \in D \X Fields |-> PartCharacter(a[2], t[a[1]])]
           Folds(g) == g = [T \in SUBSET D |->
                              IF T = {} THEN base ELSE PartCharacter(g[T \ {Max(T)}], t[Max(T)])]
<1>1. Len(t) \in Nat /\ D = 1 .. Len(t) /\ \A k \in D : t[k] \in STRING
  OBVIOUS
<1>2. IsFiniteSet(D)
  BY <1>1, FS_Interval
<1>3. base \in Fields
  BY DEF Fields
<1>4. Picks(pick, D)
  BY <1>1, LastPosition DEF Picks
<1>5. \A x \in D, v \in Fields : /\ h[<<x, v>>] = PartCharacter(v, t[x])
                                 /\ PartCharacter(v, t[x]) \in Fields
  BY <1>1, PartCharacterType
<1>6. \A T \in SUBSET D : T # {} => Max(T) \in T /\ Max(T) \in D
  BY <1>1, LastPosition
<1>7. \A T \in SUBSET D : pick[T] = Max(T)
  OBVIOUS
<1> HIDE DEF D, base, pick, h
<1>8. \A x \in D, v \in Fields : h[<<x, v>>] \in Fields
  BY <1>5, Zenon
<1>9. PICK g : IsFold(g, SUBSET D, base, pick, h) /\ \A T \in SUBSET D : g[T] \in Fields
  BY <1>2, <1>3, <1>4, <1>8, FoldTyped
<1>10. Folds(g)
  <2>1. ASSUME NEW T \in SUBSET D
        PROVE  (IF T = {} THEN base ELSE h[<<pick[T], g[T \ {pick[T]}]>>])
                 = (IF T = {} THEN base ELSE PartCharacter(g[T \ {Max(T)}], t[Max(T)]))
    <3>1. CASE T = {}
      BY <3>1, Zenon
    <3>2. CASE T # {}
      <4>1. Max(T) \in D /\ pick[T] = Max(T)
        BY <1>6, <1>7, <3>2, Zenon
      <4>2. T \ {Max(T)} \in SUBSET D
        OBVIOUS
      <4>3. g[T \ {Max(T)}] \in Fields
        BY <1>9, <4>2, Zenon
      <4>4. h[<<Max(T), g[T \ {Max(T)}]>>] = PartCharacter(g[T \ {Max(T)}], t[Max(T)])
        BY <1>5, <4>1, <4>3, Zenon
      <4> QED
        BY <3>2, <4>1, <4>4, Zenon
    <3> QED
      BY <3>1, <3>2, Zenon
  <2> QED
    BY <1>9, <2>1, Zenon DEF IsFold
<1> DEFINE f == CHOOSE f : Folds(f)
<1>11. Folds(f)
  <2> HIDE DEF Folds
  <2> QED
    BY <1>10, Zenon
<1>12. Parts(t) = f[D]
  BY Zenon DEF Parts, FoldLeft, MapThenFoldSet, D, base
<1> HIDE DEF f
<1> DEFINE P == {T \in SUBSET D : f[T] \in Fields}
<1>13. {} \in P
  BY <1>3, <1>11
<1>14. ASSUME NEW T \in SUBSET D, T # {}, T \ {pick[T]} \in P PROVE T \in P
  <2>1. Max(T) \in D /\ f[T \ {Max(T)}] \in Fields
    BY <1>6, <1>7, <1>14
  <2>2. f[T] = PartCharacter(f[T \ {Max(T)}], t[Max(T)])
    BY <1>11, <1>14, Zenon
  <2>3. f[T] \in Fields
    BY <1>5, <2>1, <2>2, Zenon
  <2> QED
    BY <2>3
<1> HIDE DEF P
<1>15. \A T \in SUBSET D : T \in P
  BY <1>2, <1>4, <1>13, <1>14, FoldInduction
<1>16. D \in P
  BY <1>15
<1> QED
  BY <1>12, <1>16 DEF P

-----------------------------------------------------------------------------
(* Numbers are read as they are written                                    *)

NumInv ==
  /\ Inv /\ Tracks
  /\ op_str \in Seq(STRING) /\ src_str \in Seq(STRING) /\ dst_str \in Seq(STRING)

LEMMA OperandParts ==
  ASSUME NumInv
  PROVE  /\ Operand \in Seq(STRING)
         /\ Operand # <<>> => Tail(Operand) \in Seq(STRING)
         /\ Parts(Operand).imm \in Seq(STRING) /\ Parts(Operand).scal \in Seq(STRING)
<1>1. Operand \in Seq(STRING)
  BY DEF NumInv, Operand
<1> HIDE DEF Operand
<1>2. Operand # <<>> => Tail(Operand) \in Seq(STRING)
  BY <1>1
<1>3. Parts(Operand) \in Fields
  BY <1>1, PartsType
<1> QED
  BY <1>1, <1>2, <1>3 DEF Fields

LEMMA BeginTracks ==
  ASSUME NEW s \in Seq(STRING), string2uint_range(s)
  PROVE  Tracks'
<1>1. /\ str' = s /\ i' = 1 /\ state' = 0 /\ exact' = 0 /\ sign_bit' = 0 /\ ret' = "running"
  BY DEF string2uint_range
<1>2. TracksAt(s, 1, 0, 0, 0, "running")
  BY TracksFromStart
<1> QED
  BY <1>1, <1>2, Zenon DEF Tracks

LEMMA EmptyTracks == TracksAt(<<>>, 1, 0, 0, 0, "value")
<1>1. <<>> \in Seq(STRING)
  OBVIOUS
<1> QED
  BY <1>1, TracksFromStart

LEMMA StepNumInv ==
  ASSUME NumInv, [Next]_vars
  PROVE  NumInv'
<1>1. Inv'
  BY StepInv DEF NumInv
<1> DEFINE Typed == op_str \in Seq(STRING) /\ src_str \in Seq(STRING) /\ dst_str \in Seq(STRING)
<1>2. Typed /\ Inv /\ Tracks
  BY DEF NumInv
<1>3. ASSUME UNCHANGED strings PROVE Typed'
  BY <1>2, <1>3 DEF strings
<1>4. ASSUME Tracks', Typed' PROVE NumInv'
  BY <1>1, <1>4 DEF NumInv
<1> HIDE DEF Typed
<1>5. ASSUME UNCHANGED convert_vars PROVE Tracks'
  BY <1>2, <1>5, FrameTracks
<1>6. ASSUME UNCHANGED <<convert_vars, strings>> PROVE NumInv'
  BY <1>3, <1>4, <1>5, <1>6
<1>7. ASSUME NEW s \in Seq(STRING), string2uint_range(s), UNCHANGED strings PROVE NumInv'
  BY <1>3, <1>4, <1>7, BeginTracks
<1>8. ASSUME NEW t \in Texts, parse_instruction(t) PROVE NumInv'
  <2>1. /\ op_str' = Split(t).op /\ src_str' = Split(t).src /\ dst_str' = Split(t).dst
        /\ UNCHANGED convert_vars
    BY <1>8 DEF parse_instruction
  <2>2. Split(t) \in Halves
    BY TextsAssumption, SplitType
  <2>3. Typed'
    BY <2>1, <2>2 DEF Halves, Typed
  <2> QED
    BY <1>4, <1>5, <2>1, <2>3
<1>9. CASE NoOperand
  BY <1>6, <1>9 DEF NoOperand
<1>10. CASE Immediate
  BY <1>7, <1>10, OperandParts DEF Immediate
<1>11. CASE Register
  BY <1>6, <1>11 DEF Register
<1>12. CASE Memory
  BY <1>6, <1>7, <1>12, OperandParts DEF Memory
<1>13. CASE Overrun
  BY <1>6, <1>13 DEF Overrun
<1>14. CASE Converting
  BY <1>2, <1>3, <1>4, <1>14, ConvertTracks DEF Converting
<1>15. CASE ImmediateRead
  BY <1>6, <1>15 DEF ImmediateRead
<1>16. CASE Scale
  BY <1>6, <1>7, <1>16, OperandParts DEF Scale
<1>17. CASE ScaleRead
  BY <1>6, <1>17 DEF ScaleRead
<1>18. CASE MemoryRegisters
  BY <1>6, <1>18 DEF MemoryRegisters
<1>19. CASE NumberRefused
  BY <1>6, <1>19 DEF NumberRefused
<1>20. CASE Operator
  BY <1>6, <1>20 DEF Operator
<1>21. CASE Executed
  <2>1. /\ op_str' = <<>> /\ src_str' = <<>> /\ dst_str' = <<>>
        /\ str' = <<>> /\ i' = 1 /\ state' = 0 /\ exact' = 0 /\ sign_bit' = 0 /\ ret' = "value"
    BY <1>21 DEF Executed
  <2>2. Typed'
    BY <2>1 DEF Typed
  <2>3. Tracks'
    BY <2>1, EmptyTracks, Zenon DEF Tracks
  <2> QED
    BY <1>4, <2>2, <2>3
<1>22. CASE UNCHANGED vars
  <2>1. UNCHANGED <<convert_vars, strings>>
    BY <1>22 DEF vars, strings
  <2> QED
    BY <1>6, <2>1
<1> QED
  BY <1>8, <1>9, <1>10, <1>11, <1>12, <1>13, <1>14, <1>15, <1>16, <1>17, <1>18, <1>19,
     <1>20, <1>21, <1>22 DEF Next

LEMMA InitNumInv == Init => NumInv
<1> SUFFICES ASSUME Init PROVE NumInv
  OBVIOUS
<1>1. Inv
  BY InitInv
<1>2. /\ str = <<>> /\ i = 1 /\ state = 0 /\ exact = 0 /\ sign_bit = 0 /\ ret = "value"
      /\ op_str = <<>> /\ src_str = <<>> /\ dst_str = <<>>
  BY DEF Init, ConvertInit
<1>3. Tracks
  BY <1>2, EmptyTracks, Zenon DEF Tracks
<1> QED
  BY <1>1, <1>2, <1>3 DEF NumInv

\* A numeral in range is read as its number, one beyond the range stops the
\* program or is reduced, and a text that is none stops it or is read as 0: for
\* words of any width and instructions of any length.
THEOREM ConvertsNumeralsHolds == Spec => []ConvertsNumerals
<1>1. NumInv /\ [Next]_vars => NumInv'
  BY StepNumInv
<1>2. NumInv => ConvertsNumerals
  BY TracksConverts DEF NumInv
<1> QED
  BY <1>1, <1>2, InitNumInv, PTL DEF Spec

-----------------------------------------------------------------------------
(* The tries                                                               *)

\* The trie of the names in S: a node for each of their prefixes.
IsTrie(t, S, table) ==
  /\ t = [p \in DOMAIN t |-> t[p]]
  /\ DOMAIN t = UNION {Prefixes(name) : name \in S}
  /\ \A p \in DOMAIN t : t[p] = IF p \in S THEN table[p] ELSE Fresh

LEMMA OwnPrefix == \A name \in Seq(STRING) : name \in Prefixes(name)
<1> SUFFICES ASSUME NEW name \in Seq(STRING) PROVE name \in Prefixes(name)
  OBVIOUS
<1>1. Len(name) \in 0 .. Len(name) /\ SubSeq(name, 1, Len(name)) = name
  OBVIOUS
<1> QED
  BY <1>1 DEF Prefixes

LEMMA InsertExtends ==
  ASSUME NEW table, NEW S, S \subseteq Seq(STRING), NEW name \in S,
         NEW t, IsTrie(t, S \ {name}, table)
  PROVE  IsTrie(trie_insert(t, name, table[name]), S, table)
<1> DEFINE u == trie_insert(t, name, table[name])
<1>1. DOMAIN t = UNION {Prefixes(x) : x \in S \ {name}}
  BY Zenon DEF IsTrie
<1>2. /\ DOMAIN u = DOMAIN t \cup Prefixes(name) /\ u = [p \in DOMAIN u |-> u[p]]
      /\ \A p \in DOMAIN u : u[p] = IF p = name THEN table[name]
                                    ELSE IF p \in DOMAIN t THEN t[p] ELSE Fresh
  BY DEF trie_insert
<1> HIDE DEF u
<1>3. DOMAIN u = UNION {Prefixes(x) : x \in S}
  BY <1>1, <1>2
<1>4. ASSUME NEW p \in DOMAIN u PROVE u[p] = IF p \in S THEN table[p] ELSE Fresh
  <2>1. CASE p = name
    BY <1>2, <2>1
  <2>2. CASE p # name /\ p \in DOMAIN t
    <3>1. t[p] = IF p \in S \ {name} THEN table[p] ELSE Fresh
      BY <2>2, Zenon DEF IsTrie
    <3> QED
      BY <1>2, <2>2, <3>1
  <2>3. CASE p # name /\ p \notin DOMAIN t
    <3>1. p \notin S
      <4> SUFFICES ASSUME p \in S PROVE FALSE
        OBVIOUS
      <4>1. p \in S \ {name} /\ p \in Prefixes(p)
        BY <2>3, OwnPrefix
      <4>2. p \in DOMAIN t
        BY <1>1, <4>1
      <4> QED
        BY <2>3, <4>2
    <3> QED
      BY <1>2, <2>3, <3>1
  <2> QED
    BY <2>1, <2>2, <2>3
<1> QED
  BY <1>2, <1>3, <1>4, Zenon DEF IsTrie, u

\* Any order of insertion builds the same trie.
LEMMA InsertedIsTrie ==
  ASSUME NEW table, IsFiniteSet(DOMAIN table), DOMAIN table \subseteq Seq(STRING)
  PROVE  IsTrie(Inserted(table), DOMAIN table, table)
<1> DEFINE D == DOMAIN table
           first(T) == CHOOSE x \in T : TRUE
           All(T) == UNION {Prefixes(name) : name \in T}
           trie(T) == [p \in All(T) |-> IF p \in T THEN table[p] ELSE Fresh]
           pick == [T \in SUBSET D |-> first(T)]
           Folds(g) == g = [T \in SUBSET D |->
                              IF T = {} THEN NoTrie
                              ELSE trie_insert(g[T \ {first(T)}], first(T), table[first(T)])]
           f == [T \in SUBSET D |-> trie(T)]
<1>1. \A T \in SUBSET D : T # {} => first(T) \in T
  BY Zenon
<1>2. \A T \in SUBSET D : pick[T] = first(T)
  BY Zenon
<1>3. Picks(pick, D)
  BY <1>1, <1>2, Zenon DEF Picks
<1>4. \A T : IsTrie(trie(T), T, table)
  BY DEF IsTrie
<1>5. \A T, t : IsTrie(t, T, table) => t = trie(T)
  <2> SUFFICES ASSUME NEW T, NEW t, IsTrie(t, T, table) PROVE t = trie(T)
    BY Zenon
  <2>1. DOMAIN t = All(T) /\ t = [p \in DOMAIN t |-> t[p]]
    BY Zenon DEF IsTrie
  <2>2. \A p \in All(T) : t[p] = IF p \in T THEN table[p] ELSE Fresh
    BY <2>1, Zenon DEF IsTrie
  <2> HIDE DEF All
  <2> QED
    BY <2>1, <2>2
<1> HIDE DEF first, pick, trie, All
<1>6. trie({}) = NoTrie
  <2>1. All({}) = {}
    BY DEF All
  <2> QED
    BY <2>1 DEF trie, NoTrie
<1>7. ASSUME NEW T \in SUBSET D, T # {}
      PROVE  /\ first(T) \in T /\ T \ {first(T)} \in SUBSET D
             /\ \A t : IsTrie(t, T \ {first(T)}, table)
                       => trie_insert(t, first(T), table[first(T)]) = trie(T)
  <2>1. first(T) \in T /\ T \subseteq Seq(STRING)
    BY <1>1, <1>7
  <2>2. ASSUME NEW t, IsTrie(t, T \ {first(T)}, table)
        PROVE  trie_insert(t, first(T), table[first(T)]) = trie(T)
    BY <1>5, <2>1, <2>2, InsertExtends, Zenon
  <2> QED
    BY <2>1, <2>2
<1>8. Folds(f)
  <2>1. ASSUME NEW T \in SUBSET D
        PROVE  trie(T) = IF T = {} THEN NoTrie
                         ELSE trie_insert(f[T \ {first(T)}], first(T), table[first(T)])
    <3>1. CASE T = {}
      BY <1>6, <3>1, Zenon
    <3>2. CASE T # {}
      <4>1. f[T \ {first(T)}] = trie(T \ {first(T)})
        BY <1>7, <3>2, Zenon
      <4>2. IsTrie(f[T \ {first(T)}], T \ {first(T)}, table)
        BY <1>4, <4>1, Zenon
      <4> QED
        BY <1>7, <3>2, <4>2, Zenon
    <3> QED
      BY <3>1, <3>2, Zenon
  <2>2. f = [T \in SUBSET D |-> trie(T)]
    OBVIOUS
  <2> HIDE DEF f
  <2> QED
    BY <2>1, <2>2, Zenon
<1> HIDE DEF f
<1> DEFINE g == CHOOSE g : Folds(g)
<1>9. Folds(g)
  <2> HIDE DEF Folds
  <2> QED
    BY <1>8, Zenon
<1>10. Inserted(table) = g[D]
  BY Zenon DEF Inserted, FoldSet, MapThenFoldSet, D, first
<1> HIDE DEF g
<1> DEFINE P == {T \in SUBSET D : g[T] = trie(T)}
<1>11. {} \in P
  BY <1>6, <1>9
<1>12. ASSUME NEW T \in SUBSET D, T # {}, T \ {pick[T]} \in P PROVE T \in P
  <2>1. g[T \ {first(T)}] = trie(T \ {first(T)})
    BY <1>2, <1>12
  <2>2. g[T] = trie_insert(g[T \ {first(T)}], first(T), table[first(T)])
    BY <1>9, <1>12, Zenon
  <2>3. g[T] = trie(T)
    BY <1>4, <1>7, <1>12, <2>1, <2>2, Zenon
  <2> QED
    BY <2>3
<1> HIDE DEF P
<1>13. \A T \in SUBSET D : T \in P
  <2>1. IsFiniteSet(D)
    OBVIOUS
  <2>2. Grows(P, pick, D)
    BY <1>12, Zenon DEF Grows
  <2> HIDE DEF D
  <2>3. SUBSET D \subseteq P
    BY <1>3, <1>11, <2>1, <2>2, FoldReaches, Zenon
  <2> QED
    BY <2>3, Zenon
<1>14. D \in P
  BY <1>13
<1> QED
  BY <1>4, <1>10, <1>14, Zenon DEF P, D

\* A name that is found is in the table, or begins a name that is.
LEMMA FoundResolves ==
  ASSUME NEW table, IsFiniteSet(DOMAIN table), DOMAIN table \subseteq Seq(STRING),
         NEW key, trie_get(Inserted(table), key).ret = "found"
  PROVE  Resolves(key, trie_get(Inserted(table), key).val, table)
<1> DEFINE t == Inserted(table)
           r == trie_get(t, key)
<1>1. IsTrie(t, DOMAIN table, table)
  BY InsertedIsTrie
<1> HIDE DEF t
<1>2. key \in DOMAIN t /\ r.val = t[key]
  BY DEF trie_get, t
<1>3. t[key] = IF key \in DOMAIN table THEN table[key] ELSE Fresh
  BY <1>1, <1>2, Zenon DEF IsTrie
<1>4. CASE key \in DOMAIN table
  BY <1>2, <1>3, <1>4, Zenon DEF Resolves, t
<1>5. CASE key \notin DOMAIN table
  <2>1. PICK name \in DOMAIN table : key \in Prefixes(name)
    BY <1>1, <1>2 DEF IsTrie
  <2>2. PICK n \in 0 .. Len(name) : key = SubSeq(name, 1, n)
    BY <2>1 DEF Prefixes
  <2>3. name \in Seq(STRING) /\ Len(name) \in Nat
    OBVIOUS
  <2>4. Len(key) = n /\ key \in Seq(STRING)
    BY <2>2, <2>3
  <2>5. SubSeq(key, 1, Len(key)) = key
    BY <2>4
  <2>6. IsStrictPrefix(key, name)
    <3>1. Len(key) <= Len(name)
      BY <2>3, <2>4
    <3>2. SubSeq(name, 1, Len(key)) = key /\ key # name
      BY <1>5, <2>2, <2>4, Zenon
    <3> QED
      BY <2>5, <3>1, <3>2, Zenon DEF IsStrictPrefix, IsPrefix
  <2> QED
    BY <1>2, <1>3, <1>5, <2>6, Zenon DEF Resolves, StartsName, t
<1> QED
  BY <1>4, <1>5

-----------------------------------------------------------------------------
(* Names are looked up as they are written                                 *)

Keys == {"type", "imm", "scal", "reg1", "reg2"}

\* What has been parsed of the instruction resolves.  An operand under
\* construction is none that is a register.
NamesInv ==
  /\ DOMAIN inst = {"op", "src", "dst"} /\ DOMAIN od = Keys
  /\ pc \in {"dst", "op", "parsed"} /\ inst.src.type = "REG"
       => Resolves(src_str, inst.src.reg1, Registers)
  /\ pc \in {"op", "parsed"} /\ inst.dst.type = "REG"
       => Resolves(dst_str, inst.dst.reg1, Registers)
  /\ pc = "parsed" => Resolves(op_str, inst.op, Operators)

LEMMA CompleteResolves ==
  ASSUME NamesInv, pc \in {"src", "dst"}, UNCHANGED strings, NEW operand,
         operand.type = "REG" => Resolves(Operand, operand.reg1, Registers),
         Complete(operand)
  PROVE  NamesInv'
<1>1. /\ inst' = [inst EXCEPT ![pc] = operand] /\ od' = EmptyOperand
      /\ pc' = IF pc = "src" THEN "dst" ELSE "op"
  BY DEF Complete
<1>2. DOMAIN inst = {"op", "src", "dst"}
  BY DEF NamesInv
<1>3. DOMAIN inst' = {"op", "src", "dst"}
  BY <1>1, <1>2
<1>4. DOMAIN od' = Keys
  BY <1>1 DEF EmptyOperand, Keys
<1>5. src_str' = src_str /\ dst_str' = dst_str /\ op_str' = op_str
  BY DEF strings
<1>6. CASE pc = "src"
  <2>1. inst'.src = operand /\ pc' = "dst" /\ Operand = src_str
    BY <1>1, <1>2, <1>6 DEF Operand
  <2> QED
    BY <1>3, <1>4, <1>5, <2>1 DEF NamesInv
<1>7. CASE pc = "dst"
  <2>1. inst'.src = inst.src /\ inst'.dst = operand /\ pc' = "op" /\ Operand = dst_str
    BY <1>1, <1>2, <1>7 DEF Operand
  <2>2. inst.src.type = "REG" => Resolves(src_str, inst.src.reg1, Registers)
    BY <1>7 DEF NamesInv
  <2> QED
    BY <1>3, <1>4, <1>5, <2>1, <2>2 DEF NamesInv
<1> QED
  BY <1>6, <1>7

\* A step within an operand, or one that stops the program.
LEMMA SameResolves ==
  ASSUME NamesInv, UNCHANGED <<strings, inst>>, DOMAIN od' = Keys,
         pc' = pc \/ pc' \in {"exit", "undefined"}
  PROVE  NamesInv'
<1>1. src_str' = src_str /\ dst_str' = dst_str /\ op_str' = op_str /\ inst' = inst
  BY DEF strings
<1>2. CASE pc' = pc
  BY <1>1, <1>2 DEF NamesInv
<1>3. CASE pc' \in {"exit", "undefined"}
  BY <1>1, <1>3 DEF NamesInv
<1> QED
  BY <1>2, <1>3

LEMMA ExceptOperand ==
  ASSUME NamesInv, NEW x
  PROVE  /\ DOMAIN [od EXCEPT !.imm = x] = Keys /\ DOMAIN [od EXCEPT !.scal = x] = Keys
         /\ \A y, z : [[od EXCEPT !.imm = y] EXCEPT !.type = z].type = z
         /\ \A y, z : [od EXCEPT !.type = x, !.reg1 = y, !.reg2 = z].type = x
BY DEF NamesInv, Keys

LEMMA LostResolves ==
  ASSUME NamesInv, UNCHANGED strings, NEW found, Lost(found)
  PROVE  NamesInv'
<1>1. /\ pc' \in {"exit", "undefined"} /\ inst' = inst /\ od' = od
  BY DEF Lost
<1>2. DOMAIN od' = Keys
  BY <1>1 DEF NamesInv
<1> QED
  BY <1>1, <1>2, SameResolves

LEMMA FoundRegister ==
  ASSUME NEW key, lazy_init_trie, trie_get(register_mapping, key).ret = "found"
  PROVE  Resolves(key, trie_get(register_mapping, key).val, Registers)
<1>1. register_mapping = Inserted(Registers)
  BY Zenon DEF lazy_init_trie, register_mapping, RegisterTrie
<1>2. trie_get(Inserted(Registers), key).ret = "found"
  BY <1>1, Zenon
<1>3. IsFiniteSet(DOMAIN Registers) /\ DOMAIN Registers \subseteq Seq(STRING)
  BY TableAssumption, Zenon
<1>4. Resolves(key, trie_get(Inserted(Registers), key).val, Registers)
  BY <1>2, <1>3, FoundResolves, Zenon
<1> QED
  BY <1>1, <1>4, Zenon

LEMMA FoundOperator ==
  ASSUME NEW key, lazy_init_trie, trie_get(operator_mapping, key).ret = "found"
  PROVE  Resolves(key, trie_get(operator_mapping, key).val, Operators)
<1>1. operator_mapping = Inserted(Operators)
  BY Zenon DEF lazy_init_trie, operator_mapping, OperatorTrie
<1>2. trie_get(Inserted(Operators), key).ret = "found"
  BY <1>1, Zenon
<1>3. IsFiniteSet(DOMAIN Operators) /\ DOMAIN Operators \subseteq Seq(STRING)
  BY TableAssumption, Zenon
<1>4. Resolves(key, trie_get(Inserted(Operators), key).val, Operators)
  BY <1>2, <1>3, FoundResolves, Zenon
<1> QED
  BY <1>1, <1>4, Zenon

LEMMA RegisterNames ==
  ASSUME NamesInv, Register
  PROVE  NamesInv'
<1> DEFINE r == trie_get(register_mapping, Operand)
           operand == [EmptyOperand EXCEPT !.type = "REG", !.reg1 = r.val]
<1>1. /\ pc \in {"src", "dst"} /\ lazy_init_trie /\ UNCHANGED strings
      /\ r.ret = "found" => Complete(operand)
      /\ r.ret # "found" => Lost({r})
  BY Zenon DEF Register, AtStep
<1>2. CASE r.ret = "found"
  <2>1. operand.reg1 = r.val
    BY DEF EmptyOperand
  <2>2. Resolves(Operand, r.val, Registers)
    BY <1>1, <1>2, FoundRegister, Zenon
  <2>3. Complete(operand)
    BY <1>1, <1>2, Zenon
  <2> HIDE DEF operand, r
  <2>4. Resolves(Operand, operand.reg1, Registers)
    BY <2>1, <2>2, Zenon
  <2> QED
    BY <1>1, <2>3, <2>4, CompleteResolves, Zenon
<1>3. CASE r.ret # "found"
  <2>1. Lost({r})
    BY <1>1, <1>3, Zenon
  <2> QED
    BY <1>1, <2>1, LostResolves, Zenon
<1> QED
  BY <1>2, <1>3, Zenon

LEMMA ImmediateNames ==
  ASSUME NamesInv, ImmediateRead
  PROVE  NamesInv'
<1> DEFINE imm == [od EXCEPT !.imm = val]
           one == [imm EXCEPT !.type = "IMM"]
           two == [imm EXCEPT !.type = "MEM_IMM"]
<1>1. /\ pc \in {"src", "dst"} /\ UNCHANGED strings
      /\ \/ Complete(one)
         \/ Complete(two)
         \/ od' = imm /\ UNCHANGED <<pc, inst>>
  BY DEF ImmediateRead, AtStep
<1>2. CASE Complete(one)
  <2>1. one.type # "REG"
    BY ExceptOperand
  <2> HIDE DEF one
  <2> QED
    BY <1>1, <1>2, <2>1, CompleteResolves, Zenon
<1>3. CASE Complete(two)
  <2>1. two.type # "REG"
    BY ExceptOperand
  <2> HIDE DEF two
  <2> QED
    BY <1>1, <1>3, <2>1, CompleteResolves, Zenon
<1>4. CASE od' = imm /\ UNCHANGED <<pc, inst>>
  <2>1. DOMAIN od' = Keys
    BY <1>4, ExceptOperand
  <2> QED
    BY <1>1, <1>4, <2>1, SameResolves
<1> QED
  BY <1>1, <1>2, <1>3, <1>4, Zenon

LEMMA ScaleNames ==
  ASSUME NamesInv, ScaleRead
  PROVE  NamesInv'
<1>1. /\ UNCHANGED <<strings, inst>>
      /\ \/ od' = [od EXCEPT !.scal = val] /\ pc' = pc
         \/ od' = od /\ pc' = "exit"
  BY DEF ScaleRead
<1>2. DOMAIN od' = Keys
  BY <1>1, ExceptOperand DEF NamesInv
<1> QED
  BY <1>1, <1>2, SameResolves

LEMMA MemoryNames ==
  ASSUME NamesInv, MemoryRegisters
  PROVE  NamesInv'
<1>1. /\ pc \in {"src", "dst"} /\ UNCHANGED strings
      /\ \/ \E p, q : Complete([od EXCEPT !.type = TypeOf(Parts(Operand)),
                                          !.reg1 = p, !.reg2 = q])
         \/ \E found : Lost(found)
  BY Zenon DEF MemoryRegisters, AtStep
<1>2. CASE \E p, q : Complete([od EXCEPT !.type = TypeOf(Parts(Operand)),
                                         !.reg1 = p, !.reg2 = q])
  <2> PICK p, q : Complete([od EXCEPT !.type = TypeOf(Parts(Operand)),
                                      !.reg1 = p, !.reg2 = q])
    BY <1>2, Zenon
  <2> DEFINE operand == [od EXCEPT !.type = TypeOf(Parts(Operand)), !.reg1 = p, !.reg2 = q]
  <2>1. TypeOf(Parts(Operand)) # "REG"
    <3> DEFINE parts == Parts(Operand)
    <3> HIDE DEF parts
    <3>1. TypeOf(parts) # "REG"
      BY DEF TypeOf
    <3> QED
      BY <3>1, Zenon DEF parts
  <2>2. operand.type # "REG"
    BY <2>1, ExceptOperand, Zenon
  <2>3. Complete(operand)
    BY Zenon
  <2> HIDE DEF operand
  <2> QED
    BY <1>1, <2>2, <2>3, CompleteResolves, Zenon
<1>3. CASE \E found : Lost(found)
  BY <1>1, <1>3, LostResolves, Zenon
<1> QED
  BY <1>1, <1>2, <1>3, Zenon

LEMMA OperatorNames ==
  ASSUME NamesInv, Operator
  PROVE  NamesInv'
<1> DEFINE r == trie_get(operator_mapping, op_str)
<1>1. /\ pc = "op" /\ lazy_init_trie /\ UNCHANGED strings
      /\ r.ret = "found" => /\ inst' = [inst EXCEPT !.op = r.val]
                            /\ pc' = "parsed" /\ UNCHANGED <<step, od>>
      /\ r.ret # "found" => Lost({r})
  BY Zenon DEF Operator
<1>2. CASE r.ret = "found"
  <2>1. Resolves(op_str, r.val, Operators)
    BY <1>1, <1>2, FoundOperator, Zenon
  <2>2. /\ inst' = [inst EXCEPT !.op = r.val] /\ pc' = "parsed" /\ od' = od
        /\ src_str' = src_str /\ dst_str' = dst_str /\ op_str' = op_str
    BY <1>1, <1>2, Zenon DEF strings
  <2> HIDE DEF r
  <2>3. /\ DOMAIN inst' = {"op", "src", "dst"} /\ inst'.op = r.val
        /\ inst'.src = inst.src /\ inst'.dst = inst.dst
    BY <2>2 DEF NamesInv
  <2>4. /\ inst.src.type = "REG" => Resolves(src_str, inst.src.reg1, Registers)
        /\ inst.dst.type = "REG" => Resolves(dst_str, inst.dst.reg1, Registers)
    BY <1>1 DEF NamesInv
  <2>5. DOMAIN od' = Keys
    BY <2>2 DEF NamesInv
  <2> QED
    BY <2>1, <2>2, <2>3, <2>4, <2>5 DEF NamesInv
<1>3. CASE r.ret # "found"
  <2>1. Lost({r})
    BY <1>1, <1>3, Zenon
  <2> QED
    BY <1>1, <2>1, LostResolves, Zenon
<1> QED
  BY <1>2, <1>3, Zenon

LEMMA StepNames ==
  ASSUME NamesInv, [Next]_vars
  PROVE  NamesInv'
<1>1. ASSUME NEW t \in Texts, parse_instruction(t) PROVE NamesInv'
  <2>1. inst' = inst /\ od' = od /\ pc' \in {"src", "undefined"}
    BY <1>1 DEF parse_instruction
  <2> QED
    BY <2>1 DEF NamesInv
<1>2. CASE NoOperand
  <2>1. pc \in {"src", "dst"} /\ UNCHANGED strings /\ Complete(EmptyOperand)
    BY <1>2, Zenon DEF NoOperand, AtStep
  <2>2. EmptyOperand.type # "REG"
    BY DEF EmptyOperand
  <2> QED
    BY <2>1, <2>2, CompleteResolves, Zenon
<1>3. ASSUME UNCHANGED <<strings, inst, od>>, pc' = pc \/ pc' \in {"exit", "undefined"}
      PROVE  NamesInv'
  <2>1. DOMAIN od' = Keys
    BY <1>3 DEF NamesInv
  <2> QED
    BY <1>3, <2>1, SameResolves
<1>4. CASE Immediate
  BY <1>3, <1>4, Zenon DEF Immediate
<1>5. CASE Register
  BY <1>5, RegisterNames
<1>6. CASE Memory
  BY <1>3, <1>6, Zenon DEF Memory
<1>7. CASE Overrun
  <2>1. pc' \in {"exit", "undefined"} /\ UNCHANGED <<strings, inst, od>>
    BY <1>7 DEF Overrun
  <2> QED
    BY <1>3, <2>1
<1>8. CASE Converting
  BY <1>3, <1>8, Zenon DEF Converting
<1>9. CASE ImmediateRead
  BY <1>9, ImmediateNames
<1>10. CASE Scale
  BY <1>3, <1>10, Zenon DEF Scale
<1>11. CASE ScaleRead
  BY <1>11, ScaleNames
<1>12. CASE MemoryRegisters
  BY <1>12, MemoryNames
<1>13. CASE NumberRefused
  <2>1. pc' \in {"exit", "undefined"} /\ UNCHANGED <<strings, inst, od>>
    BY <1>13 DEF NumberRefused
  <2> QED
    BY <1>3, <2>1
<1>14. CASE Operator
  BY <1>14, OperatorNames
<1>15. CASE Executed
  <2>1. inst' = NoInstruction /\ od' = od /\ pc' = "idle"
    BY <1>15, Zenon DEF Executed
  <2>2. DOMAIN inst' = {"op", "src", "dst"}
    BY <2>1 DEF NoInstruction
  <2> QED
    BY <2>1, <2>2 DEF NamesInv
<1>16. CASE UNCHANGED vars
  BY <1>3, <1>16 DEF vars, strings
<1> QED
  BY <1>1, <1>2, <1>4, <1>5, <1>6, <1>7, <1>8, <1>9, <1>10, <1>11, <1>12, <1>13,
     <1>14, <1>15, <1>16, Zenon DEF Next

LEMMA InitNames == Init => NamesInv
<1> SUFFICES ASSUME Init PROVE NamesInv
  OBVIOUS
<1>1. pc = "idle" /\ od = EmptyOperand /\ inst = NoInstruction
  BY Zenon DEF Init
<1> QED
  BY <1>1 DEF NamesInv, EmptyOperand, NoInstruction, Keys

\* Whatever names the tables hold and whatever the program's texts, a parsed
\* instruction has the operator and the registers that its text names; only the
\* beginning of a name in the table is taken for a name without being one.
THEOREM NamesResolveHolds == Spec => []NamesResolve
<1>1. NamesInv /\ [Next]_vars => NamesInv'
  BY StepNames
<1>2. NamesInv => NamesResolve
  BY Zenon DEF NamesInv, NamesResolve
<1> QED
  BY <1>1, <1>2, InitNames, PTL DEF Spec
=============================================================================
