------------------------------ MODULE Convert ------------------------------
(***************************************************************************)
(* string2uint_range of src/src/common/convert.c: the automaton that reads *)
(* a decimal or hexadecimal numeral into a 64-bit word, one character a    *)
(* step.  A caller starts it with string2uint_range and reads ret and val  *)
(* when it has returned; InstParser is the caller.  The operators named    *)
(* Mut... are faulty variants of the one that follows them; nothing uses   *)
(* them here.                                                              *)
(***************************************************************************)
EXTENDS Integers, Sequences

CONSTANT W    \* the values of a uint64_t, 2^64 in the code

ASSUME WordAssumption == W \in Nat /\ W >= 16 /\ W % 2 = 0

VARIABLES str,        \* the characters from start to end
          i,          \* the position in str
          state,      \* the state of the automaton
          uv,         \* the value so far
          sign_bit,   \* 1 behind a minus
          exact,      \* uv, had it not been reduced to a word (ghost)
          ret,        \* "running", "value" when it has returned, "exit"
          val         \* the value returned

convert_vars == <<str, i, state, uv, sign_bit, exact, ret, val>>

HexDigits == <<"0", "1", "2", "3", "4", "5", "6", "7", "8", "9",
               "a", "b", "c", "d", "e", "f">>
Hex == {HexDigits[k] : k \in 1..16}
Decimal == {HexDigits[k] : k \in 1..10}
Space == " "
Minus == "-"
White == {Space, "\t", "\r", "\n"}

Digit(c) == (CHOOSE k \in 1..16 : HexDigits[k] = c) - 1

Dead == 7

\* The state behind a character: 0 before the number, 1 behind a first zero,
\* 2 in a decimal, 3 behind the sign, 4 behind 0x, 5 in a hexadecimal, 6 behind
\* the number.  Dead stands for goto fail.
MutTarget(s, c) ==
  CASE s \in {0, 3} /\ c = "0"       -> 1
    [] s \in {1, 2} /\ c \in Decimal -> 2
    [] s \in {0, 3} /\ c \in Decimal \ {"0"} -> 2
    [] s = 0 /\ c = Minus            -> 3
    [] s = 0 /\ c = Space            -> 0
    [] s \in {1, 2} /\ c = "x"       -> 4
    [] s \in {1, 2} /\ c = Space     -> 6
    [] s \in {4, 5} /\ c \in Hex     -> 5
    [] s \in {5, 6} /\ c \in White   -> 6
    [] OTHER                         -> Dead

Target(s, c) ==
  CASE s \in {0, 3} /\ c = "0"       -> 1
    [] s \in {1, 2} /\ c \in Decimal -> 2
    [] s \in {0, 3} /\ c \in Decimal \ {"0"} -> 2
    [] s = 0 /\ c = Minus            -> 3
    [] s = 0 /\ c = Space            -> 0
    [] s = 1 /\ c = "x"              -> 4
    [] s \in {1, 2} /\ c = Space     -> 6
    [] s \in {4, 5} /\ c \in Hex     -> 5
    [] s \in {5, 6} /\ c \in White   -> 6
    [] OTHER                         -> Dead

-----------------------------------------------------------------------------
ConvertInit ==
  /\ str = <<>> /\ i = 1 /\ state = 0 /\ uv = 0 /\ sign_bit = 0 /\ exact = 0
  /\ ret = "value" /\ val = 0

string2uint_range(s) ==
  /\ str' = s /\ i' = 1 /\ state' = 0 /\ uv' = 0 /\ sign_bit' = 0 /\ exact' = 0
  /\ ret' = "running" /\ val' = 0

Reading == ret = "running" /\ i <= Len(str)

Extended(number, s, c) ==
  CASE s \in {1, 2} -> number * 10 + Digit(c)
    [] s = 5        -> number * 16 + Digit(c)
    [] OTHER        -> number

\* "maybe overflow": a value that gets smaller has overflowed.
Overflows(next) == Extended(uv, next, str[i]) % W < uv

ReadCharacter ==
  LET next == Target(state, str[i]) IN
  /\ Reading /\ next # Dead /\ ~Overflows(next)
  /\ i' = i + 1 /\ state' = next
  /\ uv' = Extended(uv, next, str[i]) % W
  /\ exact' = Extended(exact, next, str[i])
  /\ sign_bit' = IF next = 3 THEN 1 ELSE sign_bit
  /\ UNCHANGED <<str, ret, val>>

Fail ==
  LET next == Target(state, str[i]) IN
  /\ Reading /\ (next = Dead \/ Overflows(next))
  /\ ret' = "exit"
  /\ UNCHANGED <<str, i, state, uv, sign_bit, exact, val>>

Ends == ret = "running" /\ i > Len(str)

ReturnUnsigned ==
  /\ Ends /\ sign_bit = 0
  /\ ret' = "value" /\ val' = uv
  /\ UNCHANGED <<str, i, state, uv, sign_bit, exact>>

\* The sign bit must be free for the negation.
ReturnNegated ==
  /\ Ends /\ sign_bit = 1
  /\ IF 2 * uv >= W THEN ret' = "exit" /\ UNCHANGED val
     ELSE ret' = "value" /\ val' = (-uv) % W
  /\ UNCHANGED <<str, i, state, uv, sign_bit, exact>>

Convert == ReadCharacter \/ Fail \/ ReturnUnsigned \/ ReturnNegated

-----------------------------------------------------------------------------
(* Properties                                                              *)

\* The numerals as one would define them: spaces, a minus or none, then decimal
\* digits or 0x and hexadecimal ones, then white space, which begins with a
\* space behind a decimal.  The part of s up to position last is the numeral
\* with the blanks up to n.start, and the last digit at n.to.
Body(n) == IF n.negative THEN n.start + 1 ELSE n.start
From(n) == IF n.hex THEN Body(n) + 2 ELSE Body(n)

Opens(s, n) ==
  /\ \A k \in 1..n.start - 1 : s[k] = Space
  /\ n.negative => s[n.start] = Minus
  /\ n.hex => s[Body(n)] = "0" /\ s[Body(n) + 1] = "x"

IsNumeral(s, n, last) ==
  /\ From(n) <= n.to /\ n.to <= last
  /\ Opens(s, n)
  /\ \A k \in From(n)..n.to : s[k] \in IF n.hex THEN Hex ELSE Decimal
  /\ \A k \in n.to + 1..last : s[k] \in White
  /\ ~n.hex /\ n.to < last => s[n.to + 1] = Space

Numerals(s) ==
  {n \in [start : 1..Len(s), negative : BOOLEAN, hex : BOOLEAN, to : 1..Len(s)] :
     IsNumeral(s, n, Len(s))}

\* The number that the digits up to each position denote.
Values(s, n) ==
  LET value[k \in 0..n.to] ==
        IF k < From(n) THEN 0
        ELSE value[k - 1] * (IF n.hex THEN 16 ELSE 10) + Digit(s[k])
  IN  value

Magnitude(s, n) == Values(s, n)[n.to]

\* A numeral in range is read as its number, a negative one (whose magnitude
\* has the top bit free) in two's complement.  One beyond the range stops the
\* program or, where the check of the overflow misses it, is reduced.  Any
\* other text stops the program, unless a part is missing: "", "-" and "0x"
\* are read as 0.
ConvertsNumerals ==
  ret # "running" =>
    /\ Numerals(str) = {} => ret = "exit" \/ val = 0
    /\ \A n \in Numerals(str) :
         LET magnitude == Magnitude(str, n)
             word == (IF n.negative THEN -magnitude ELSE magnitude) % W
             inRange == IF n.negative THEN 2 * magnitude < W ELSE magnitude < W
         IN  IF inRange THEN ret = "value" /\ val = word
             ELSE ret = "exit" \/ val = word
=============================================================================
