----------------------------- MODULE ElfProofs -----------------------------
(***************************************************************************)
(* Theorems about ElfTool, for any number of sources, any files and any    *)
(* capacity of the array of events: nothing that is gone is used, the      *)
(* tables of a file last until they are freed, and a program that ends     *)
(* leaves nothing allocated.  The argument is that the list of the tagged  *)
(* allocator is always in the order in which the tables are freed: each    *)
(* search of tag_free, which cannot find the last block of the list, looks *)
(* for the first one; the exception is the section table of the linked     *)
(* elf, which is last, is missed and stays for tag_destroy.                *)
(***************************************************************************)
EXTENDS ElfTool, SequenceTheorems, TLAPS

DstSymt == <<Dst, "symt">>
DstSht == <<Dst, "sht">>

Index == [sht |-> 1, symt |-> 2, reltext |-> 3, reldata |-> 4]

\* The place of a table in the order in which the program allocates them.
Base == 4 * (MaxSources + 1)
Rank(f, x) == IF f # Dst THEN 4 * f + Index[x] - 1
              ELSE IF x = "symt" THEN Base ELSE Base + 1
RankOf(b) == Rank(b[1], b[2])

\* The place of position j before the c turns that list s has made.
Home(s, c, j) == IF j <= Len(s) - c THEN j + c ELSE j - (Len(s) - c)

OrderedAt(s, c) ==
  \A j, l \in 1 .. Len(s) : Home(s, c, j) < Home(s, c, l) => RankOf(s[j]) < RankOf(s[l])

-----------------------------------------------------------------------------
(* Lists in order                                                          *)

LEMMA RankType ==
  ASSUME NEW b \in Blocks
  PROVE  RankOf(b) \in Nat
BY ElfAssumption DEF RankOf, Rank, Base, Index, Elfs, TableNames, Dst

LEMMA InToSet ==
  ASSUME NEW s \in Seq(Blocks), NEW x
  PROVE  x \in ToSet(s) <=> \E j \in 1 .. Len(s) : s[j] = x
<1>1. DOMAIN s = 1 .. Len(s)
  OBVIOUS
<1> QED
  BY <1>1, Zenon DEF ToSet

LEMMA OrderedAppend ==
  ASSUME NEW s \in Seq(Blocks), NEW b \in Blocks, OrderedAt(s, 0),
         \A x \in ToSet(s) : RankOf(x) < RankOf(b)
  PROVE  /\ OrderedAt(Append(s, b), 0) /\ Append(s, b) \in Seq(Blocks)
         /\ ToSet(Append(s, b)) = ToSet(s) \cup {b}
<1> DEFINE r == Append(s, b)
<1>1. r \in Seq(Blocks) /\ Len(r) = Len(s) + 1 /\ r[Len(r)] = b
      /\ Len(s) \in Nat /\ \A j \in 1 .. Len(s) : r[j] = s[j]
  OBVIOUS
<1>2. ToSet(r) = ToSet(s) \cup {b}
  BY <1>1 DEF ToSet
<1>3. OrderedAt(r, 0)
  <2> SUFFICES ASSUME NEW j \in 1 .. Len(r), NEW l \in 1 .. Len(r), j < l
               PROVE  RankOf(r[j]) < RankOf(r[l])
    BY <1>1 DEF OrderedAt, Home
  <2>1. j \in 1 .. Len(s) /\ r[j] = s[j] /\ s[j] \in ToSet(s)
    BY <1>1 DEF ToSet
  <2>2. CASE l = Len(r)
    BY <2>1, <2>2, <1>1
  <2>3. CASE l # Len(r)
    BY <2>1, <2>3, <1>1 DEF OrderedAt, Home
  <2> QED
    BY <2>2, <2>3
<1> QED
  BY <1>1, <1>2, <1>3

LEMMA Turned ==
  ASSUME NEW s \in Seq(Blocks), s # <<>>, NEW r, r = Append(Tail(s), Head(s))
  PROVE  /\ r \in Seq(Blocks) /\ Len(r) = Len(s) /\ Len(s) \in Nat \ {0}
         /\ r[Len(s)] = s[1]
         /\ \A j \in 1 .. Len(s) - 1 : r[j] = s[j + 1]
         /\ ToSet(r) = ToSet(s)
<1>1. /\ Head(s) = s[1] /\ Head(s) \in Blocks /\ Tail(s) \in Seq(Blocks) /\ Len(s) \in Nat \ {0}
      /\ Len(Tail(s)) = Len(s) - 1 /\ \A j \in 1 .. Len(s) - 1 : Tail(s)[j] = s[j + 1]
  OBVIOUS
<1>2. /\ r \in Seq(Blocks) /\ Len(r) = Len(s) /\ r[Len(s)] = s[1]
      /\ \A j \in 1 .. Len(s) - 1 : r[j] = s[j + 1]
  BY <1>1
<1>3. ASSUME NEW j \in 1 .. Len(s)
      PROVE  /\ \E l \in 1 .. Len(s) : r[j] = s[l]
             /\ \E l \in 1 .. Len(s) : s[j] = r[l]
  <2>1. CASE j = Len(s)
    <3>1. r[j] = s[1] /\ 1 \in 1 .. Len(s)
      BY <1>1, <1>2, <2>1
    <3>2. CASE j = 1
      BY <3>1, <3>2, <2>1
    <3>3. CASE j # 1
      <4>1. j - 1 \in 1 .. Len(s) - 1 /\ j - 1 \in 1 .. Len(s) /\ (j - 1) + 1 = j
        BY <3>3
      <4>2. r[j - 1] = s[j]
        BY <4>1, <1>2
      <4> QED
        BY <4>1, <4>2, <3>1
    <3> QED
      BY <3>2, <3>3
  <2>2. CASE j # Len(s)
    <3>1. j \in 1 .. Len(s) - 1 /\ j + 1 \in 1 .. Len(s)
      BY <2>2
    <3>2. r[j] = s[j + 1]
      BY <3>1, <1>2
    <3>3. CASE j = 1
      <4>1. r[Len(s)] = s[j] /\ Len(s) \in 1 .. Len(s)
        BY <3>3, <1>1, <1>2
      <4> QED
        BY <4>1, <3>1, <3>2
    <3>4. CASE j # 1
      <4>1. j - 1 \in 1 .. Len(s) - 1 /\ j - 1 \in 1 .. Len(s) /\ (j - 1) + 1 = j
        BY <3>4
      <4>2. r[j - 1] = s[j]
        BY <4>1, <1>2
      <4> QED
        BY <4>1, <4>2, <3>1, <3>2
    <3> QED
      BY <3>3, <3>4
  <2> QED
    BY <2>1, <2>2
<1>4. ToSet(r) = ToSet(s)
  <2>1. ASSUME NEW x
        PROVE  /\ x \in ToSet(r) <=> \E l \in 1 .. Len(s) : r[l] = x
               /\ x \in ToSet(s) <=> \E l \in 1 .. Len(s) : s[l] = x
    <3>1. Len(r) = Len(s) /\ r \in Seq(Blocks)
      BY <1>2
    <3> QED
      BY <3>1, InToSet
  <2> QED
    BY <1>3, <2>1, Zenon
<1> QED
  BY <1>1, <1>2, <1>4

LEMMA OrderedTurn ==
  ASSUME NEW s \in Seq(Blocks), NEW c \in 0 .. Len(s) - 1, OrderedAt(s, c),
         NEW r, r = Append(Tail(s), Head(s)), NEW d, d = c + 1
  PROVE  OrderedAt(r, d)
<1>1. s # <<>> /\ Len(s) \in Nat
  OBVIOUS
<1>2. /\ Len(r) = Len(s) /\ r[Len(s)] = s[1]
      /\ \A j \in 1 .. Len(s) - 1 : r[j] = s[j + 1]
  BY <1>1, Turned
<1> DEFINE From(j) == IF j = Len(s) THEN 1 ELSE j + 1
<1>3. ASSUME NEW j \in 1 .. Len(s)
      PROVE  From(j) \in 1 .. Len(s) /\ r[j] = s[From(j)] /\ Home(r, d, j) = Home(s, c, From(j))
  <2>1. CASE j = Len(s)
    BY <2>1, <1>1, <1>2 DEF Home
  <2>2. CASE j # Len(s)
    <3>1. j \in 1 .. Len(s) - 1 /\ From(j) = j + 1
      BY <2>2
    <3>2. r[j] = s[j + 1] /\ Len(r) = Len(s)
      BY <3>1, <1>2
    <3> QED
      BY <3>1, <3>2, <1>1 DEF Home
  <2> QED
    BY <2>1, <2>2
<1> HIDE DEF From
<1> SUFFICES ASSUME NEW j \in 1 .. Len(s), NEW l \in 1 .. Len(s),
                    Home(r, d, j) < Home(r, d, l)
             PROVE  RankOf(r[j]) < RankOf(r[l])
  BY <1>2, Zenon DEF OrderedAt
<1>4. Home(s, c, From(j)) < Home(s, c, From(l)) /\ From(j) \in 1 .. Len(s) /\ From(l) \in 1 .. Len(s)
  BY <1>3
<1>5. RankOf(s[From(j)]) < RankOf(s[From(l)])
  BY <1>4, Zenon DEF OrderedAt
<1> QED
  BY <1>3, <1>5, Zenon

LEMMA OrderedFull ==
  ASSUME NEW s \in Seq(Blocks), OrderedAt(s, Len(s))
  PROVE  OrderedAt(s, 0)
<1>1. \A j \in 1 .. Len(s) : Home(s, Len(s), j) = j /\ Home(s, 0, j) = j
  BY DEF Home
<1> QED
  BY <1>1 DEF OrderedAt

\* No block is twice on the list, so that deleting the first one takes it off.
LEMMA OrderedRest ==
  ASSUME NEW s \in Seq(Blocks), OrderedAt(s, 0), NEW j \in DOMAIN s, s[j] = s[1]
  PROVE  /\ RemoveAt(s, j) \in Seq(Blocks) /\ OrderedAt(RemoveAt(s, j), 0)
         /\ ToSet(RemoveAt(s, j)) = ToSet(s) \ {s[1]}
<1>1. Len(s) \in Nat \ {0} /\ DOMAIN s = 1 .. Len(s) /\ \A l \in 1 .. Len(s) : RankOf(s[l]) \in Nat
  BY RankType
<1>2. \A l, m \in 1 .. Len(s) : l < m => RankOf(s[l]) < RankOf(s[m])
  BY <1>1 DEF OrderedAt, Home
<1>3. j = 1
  BY <1>1, <1>2
<1> DEFINE r == RemoveAt(s, 1)
<1>4. SubSeq(s, 1, 1 - 1) = <<>> /\ SubSeq(s, 1 + 1, Len(s)) = Tail(s)
  <2>1. SubSeq(s, 1, 0) = <<>>
    BY SubSeqEmpty, <1>1
  <2>2. SubSeq(s, 2, Len(s)) = Tail(s)
    BY HeadTailProperties, <1>1
  <2> QED
    BY <2>1, <2>2
<1>5. r = Tail(s)
  BY <1>4 DEF RemoveAt
<1>6. /\ Tail(s) \in Seq(Blocks) /\ Len(Tail(s)) = Len(s) - 1
      /\ \A l \in 1 .. Len(s) - 1 : Tail(s)[l] = s[l + 1] /\ l + 1 \in 1 .. Len(s)
  BY <1>1
<1>7. OrderedAt(Tail(s), 0)
  <2> SUFFICES ASSUME NEW l \in 1 .. Len(Tail(s)), NEW m \in 1 .. Len(Tail(s)), l < m
               PROVE  RankOf(Tail(s)[l]) < RankOf(Tail(s)[m])
    BY DEF OrderedAt, Home
  <2>1. l + 1 \in 1 .. Len(s) /\ m + 1 \in 1 .. Len(s) /\ l + 1 < m + 1
        /\ Tail(s)[l] = s[l + 1] /\ Tail(s)[m] = s[m + 1]
    BY <1>6
  <2> QED
    BY <2>1, <1>2
<1>8. ToSet(Tail(s)) = ToSet(s) \ {s[1]}
  <2>1. ASSUME NEW l \in 1 .. Len(s), s[l] # s[1]
        PROVE  \E m \in 1 .. Len(s) - 1 : Tail(s)[m] = s[l]
    <3>1. l - 1 \in 1 .. Len(s) - 1 /\ (l - 1) + 1 = l
      BY <2>1
    <3> QED
      BY <3>1, <1>6
  <2>2. ASSUME NEW l \in 1 .. Len(s) - 1
        PROVE  Tail(s)[l] # s[1] /\ \E m \in 1 .. Len(s) : Tail(s)[l] = s[m]
    <3>1. l + 1 \in 1 .. Len(s) /\ Tail(s)[l] = s[l + 1] /\ 1 < l + 1 /\ 1 \in 1 .. Len(s)
      BY <1>6, <1>1
    <3>2. RankOf(s[1]) < RankOf(s[l + 1])
      BY <3>1, <1>2
    <3> QED
      BY <3>1, <3>2, <1>1
  <2>3. ASSUME NEW x
        PROVE  /\ x \in ToSet(Tail(s)) <=> \E l \in 1 .. Len(s) - 1 : Tail(s)[l] = x
               /\ x \in ToSet(s) <=> \E l \in 1 .. Len(s) : s[l] = x
    <3>1. Len(Tail(s)) = Len(s) - 1 /\ Tail(s) \in Seq(Blocks)
      BY <1>6
    <3>2. x \in ToSet(Tail(s)) <=> \E l \in 1 .. Len(Tail(s)) : Tail(s)[l] = x
      BY <3>1, InToSet
    <3>3. x \in ToSet(s) <=> \E l \in 1 .. Len(s) : s[l] = x
      BY InToSet
    <3> QED
      BY <3>1, <3>2, <3>3, Zenon
  <2>4. ASSUME NEW x
        PROVE  x \in ToSet(Tail(s)) <=> x \in ToSet(s) /\ x # s[1]
    <3>1. ASSUME x \in ToSet(Tail(s)) PROVE x \in ToSet(s) /\ x # s[1]
      BY <3>1, <2>2, <2>3
    <3>2. ASSUME x \in ToSet(s), x # s[1] PROVE x \in ToSet(Tail(s))
      BY <3>2, <2>1, <2>3
    <3> QED
      BY <3>1, <3>2
  <2> QED
    BY <2>4, Zenon
<1> QED
  BY <1>3, <1>5, <1>6, <1>7, <1>8

LEMMA OrderedHead ==
  ASSUME NEW s \in Seq(Blocks), OrderedAt(s, 0), NEW b \in ToSet(s),
         \A x \in ToSet(s) : RankOf(b) <= RankOf(x)
  PROVE  s # <<>> /\ s[1] = b
<1>1. PICK j \in 1 .. Len(s) : s[j] = b
  BY DEF ToSet
<1>2. Len(s) \in Nat \ {0} /\ 1 \in 1 .. Len(s) /\ s[1] \in ToSet(s) /\ s[1] \in Blocks /\ b \in Blocks
  BY <1>1 DEF ToSet
<1>3. RankOf(s[1]) \in Nat /\ RankOf(b) \in Nat
  BY <1>2, RankType
<1>4. 1 < j => RankOf(s[1]) < RankOf(s[j])
  BY <1>2 DEF OrderedAt, Home
<1> QED
  BY <1>1, <1>2, <1>3, <1>4

\* The iterator gives the head twice, so that the turns show all but the last.
LEMMA LastIsMissed ==
  ASSUME NEW s \in Seq(Blocks), NEW c \in 0 .. Len(s) - 1, OrderedAt(s, c),
         NEW b \in ToSet(s), NEW a \in ToSet(s), a # b,
         \A x \in ToSet(s) : RankOf(x) <= RankOf(b), NEW q,
         q = IF c = 0 THEN s[1] ELSE s[Len(s)]
  PROVE  q # b
<1>1. Len(s) \in Nat \ {0} /\ \A l \in 1 .. Len(s) : s[l] \in ToSet(s) /\ s[l] \in Blocks
  BY DEF ToSet
<1>2. \A l \in 1 .. Len(s) : RankOf(s[l]) \in Nat
  BY <1>1, RankType
<1>3. CASE c = 0
  <2>1. PICK j \in 1 .. Len(s) : s[j] # s[1]
    BY <1>1 DEF ToSet
  <2>2. RankOf(s[1]) < RankOf(s[j])
    BY <1>1, <1>3, <2>1 DEF OrderedAt, Home
  <2>3. RankOf(s[j]) <= RankOf(b)
    BY <1>1
  <2> QED
    BY <2>2, <2>3, <1>1, <1>2, <1>3
<1>4. CASE c # 0
  <2> DEFINE j == Len(s) - c
  <2>1. j \in 1 .. Len(s) /\ Len(s) \in 1 .. Len(s) /\ Home(s, c, j) = Len(s)
        /\ Home(s, c, Len(s)) = c /\ c < Len(s)
    BY <1>1, <1>4 DEF Home
  <2>2. RankOf(s[Len(s)]) < RankOf(s[j])
    BY <2>1 DEF OrderedAt
  <2>3. RankOf(s[j]) <= RankOf(b)
    BY <1>1, <2>1
  <2> QED
    BY <2>1, <2>2, <2>3, <1>2, <1>4
<1> QED
  BY <1>3, <1>4

-----------------------------------------------------------------------------
(* The array of events                                                     *)

CountOf(a) == IF a = Null THEN 0 ELSE a.count

\* Is func among the events of a from the first one on?
Holds(a, first, func) == \E x \in first .. CountOf(a) - 1 : a.table[x] = func

ArrayOK(a) ==
  \/ a = Null
  \/ /\ a \in Arrays /\ a.size \in {EventSlots, 2 * EventSlots}
     /\ \A x \in 0 .. a.count - 1 : a.table[x] \in Funcs
     /\ \A x, y \in 0 .. a.count - 1 : a.table[x] = a.table[y] => x = y

LEMMA ArrayType ==
  ASSUME NEW a
  PROVE  a \in Arrays <=>
           \E s \in 1 .. 2 * EventSlots :
             a \in [size : {s}, count : 0 .. s, table : [0 .. s - 1 -> Funcs \cup {Unset}]]
BY Zenon DEF Arrays

LEMMA CountType ==
  ASSUME NEW a, ArrayOK(a)
  PROVE  CountOf(a) \in Nat
<1>1. CASE a = Null
  BY <1>1 DEF CountOf
<1>2. CASE a # Null
  <2>1. PICK s \in 1 .. 2 * EventSlots :
          a \in [size : {s}, count : 0 .. s, table : [0 .. s - 1 -> Funcs \cup {Unset}]]
    BY <1>2, ArrayType DEF ArrayOK
  <2> QED
    BY <1>2, <2>1 DEF CountOf
<1> QED
  BY <1>1, <1>2

\* One event more; since there are two at most, the array grows once at most.
LEMMA Inserted ==
  ASSUME NEW a, ArrayOK(a), NEW func \in Funcs, ~Holds(a, 0, func), NEW r,
         r = array_insert(IF a = Null THEN array_construct(EventSlots) ELSE a, func)
  PROVE  /\ ArrayOK(r) /\ r \in Arrays /\ r # Null
         /\ \A other : Holds(r, 0, other) <=> Holds(a, 0, other) \/ other = func
<1> DEFINE old == IF a = Null THEN array_construct(EventSlots) ELSE a
           c == CountOf(a)
           size == IF old.count = old.size THEN 2 * old.size ELSE old.size
<1>1. /\ old.size \in {EventSlots, 2 * EventSlots} /\ EventSlots \in Nat \ {0}
      /\ old.count = c /\ c \in 0 .. old.size
  <2>1. CASE a = Null
    BY <2>1, ElfAssumption DEF array_construct, CountOf
  <2>2. CASE a # Null
    <3>1. PICK s \in 1 .. 2 * EventSlots :
            a \in [size : {s}, count : 0 .. s, table : [0 .. s - 1 -> Funcs \cup {Unset}]]
      BY <2>2, ArrayType DEF ArrayOK
    <3> QED
      BY <2>2, <3>1, ElfAssumption DEF CountOf, ArrayOK
  <2> QED
    BY <2>1, <2>2
<1>2. /\ \A x \in 0 .. c - 1 : old.table[x] \in Funcs \ {func} /\ old.table[x] = a.table[x]
      /\ \A x, y \in 0 .. c - 1 : old.table[x] = old.table[y] => x = y
  <2>1. CASE a = Null
    BY <2>1 DEF CountOf
  <2>2. CASE a # Null
    BY <2>2 DEF ArrayOK, Holds, CountOf
  <2> QED
    BY <2>1, <2>2
<1>3. c <= 1
  <2> SUFFICES ASSUME c > 1 PROVE FALSE
    BY <1>1
  <2>1. 0 \in 0 .. c - 1 /\ 1 \in 0 .. c - 1
    BY <1>1
  <2>2. old.table[0] = old.table[1]
    BY <2>1, <1>2 DEF Funcs
  <2> QED
    BY <2>1, <2>2, <1>2
<1>4. size \in {EventSlots, 2 * EventSlots} /\ c + 1 \in 0 .. size /\ size \in 1 .. 2 * EventSlots
  BY <1>1, <1>3
<1> HIDE DEF c, size, old
<1>5. r = [size |-> size, count |-> c + 1,
           table |-> [x \in 0 .. size - 1 |->
                        IF x = c THEN func ELSE IF x < c THEN old.table[x] ELSE Unset]]
  BY <1>1 DEF array_insert, size, old
<1>6. r.size = size /\ r.count = c + 1 /\ c \in Nat
  BY <1>1, <1>5
<1>7. \A x \in 0 .. c : r.table[x] = IF x = c THEN func ELSE old.table[x]
  BY <1>1, <1>4, <1>5
<1>8. r.table \in [0 .. size - 1 -> Funcs \cup {Unset}]
  <2>1. \A x \in 0 .. size - 1 :
          (IF x = c THEN func ELSE IF x < c THEN old.table[x] ELSE Unset) \in Funcs \cup {Unset}
    BY <1>1, <1>2, <1>4
  <2> QED
    BY <2>1, <1>5
<1>9. r \in Arrays
  <2>1. r \in [size : {size}, count : 0 .. size, table : [0 .. size - 1 -> Funcs \cup {Unset}]]
    BY <1>4, <1>5, <1>8
  <2> QED
    BY <2>1, <1>4, ArrayType
<1>10. r # Null /\ CountOf(r) = c + 1
  BY <1>6, <1>9, ElfAssumption DEF CountOf
<1>11. ArrayOK(r)
  <2>1. \A x \in 0 .. c : r.table[x] \in Funcs
    BY <1>2, <1>6, <1>7
  <2>2. ASSUME NEW x \in 0 .. c, NEW y \in 0 .. c, r.table[x] = r.table[y]
        PROVE  x = y
    BY <2>2, <1>2, <1>6, <1>7
  <2>3. (c + 1) - 1 = c
    BY <1>6
  <2> QED
    BY <2>1, <2>2, <2>3, <1>4, <1>6, <1>9 DEF ArrayOK
<1>12. ASSUME NEW other
       PROVE  Holds(r, 0, other) <=> Holds(a, 0, other) \/ other = func
  <2>1. Holds(r, 0, other) <=> \E x \in 0 .. c : r.table[x] = other
    <3>1. (c + 1) - 1 = c
      BY <1>6
    <3> QED
      BY <3>1, <1>10 DEF Holds
  <2>2. Holds(a, 0, other) <=> \E x \in 0 .. c - 1 : old.table[x] = other
    BY <1>2 DEF Holds, c
  <2>3. c \in 0 .. c /\ r.table[c] = func /\ \A x \in 0 .. c : x # c => x \in 0 .. c - 1 /\ r.table[x] = old.table[x]
    BY <1>6, <1>7
  <2>4. \A x \in 0 .. c - 1 : x \in 0 .. c /\ x # c
    BY <1>6
  <2> QED
    BY <2>1, <2>2, <2>3, <2>4
<1> QED
  BY <1>9, <1>10, <1>11, <1>12

-----------------------------------------------------------------------------
(* The inductive invariant                                                 *)

Parsing == {"sht", "sections", "symt", "symbols", "reltext", "reltext_rows", "reldata",
            "reldata_rows", "sweep"}
Linking == {"dst_symt", "dst_sht", "merge"}
Early == {"read", "stopped"} \cup Parsing \cup Linking
Freeing == {"free", "freeing"}
Over == {"cleanup", "done"}

IsSet(f, x) == elf[f][x] = "set"

\* The tables with an index below this one have been freed by free_elf.
Due == IF call = "free" THEN t - 1 ELSE t

\* Which of the tables that have been allocated are free again?  The section
\* table of the linked elf goes with tag_destroy.
Freed(f, x) ==
  \/ /\ pc \in Freeing /\ f # Dst
     /\ k = Dst \/ f < k \/ (f = k /\ Index[x] < Due)
  \/ pc \in Freeing /\ f = Dst /\ k = Dst /\ x = "symt" /\ 2 < Due
  \/ pc \in Over /\ <<f, x>> # DstSht
  \/ pc \in Over /\ (~created \/ (call = "destroy" /\ 1 <= i))

\* The tables that have been allocated come before this place.
Reach ==
  IF pc \in {"read", "sht"} THEN 4 * k
  ELSE IF pc \in {"sections", "symt"} THEN 4 * k + 1
  ELSE IF pc \in {"symbols", "reltext"} THEN 4 * k + 2
  ELSE IF pc \in {"reltext_rows", "reldata"} THEN 4 * k + 3
  ELSE IF pc \in {"reldata_rows", "sweep"} THEN 4 * k + 4
  ELSE IF pc = "dst_symt" THEN Base
  ELSE IF pc = "dst_sht" THEN Base + 1 ELSE Base + 2

TypeOK ==
  /\ list \in Seq(Blocks) /\ created \in BOOLEAN
  /\ block \in [Blocks -> {"unused", "live", "freed"}] /\ tag \in [Blocks -> Tags]
  /\ call \in {"free", "sweep", "destroy", None} /\ i \in 0 .. Len(list)
  /\ n \in 1 .. MaxSources /\ k \in 0 .. MaxSources + 1 /\ t \in 1 .. 5
  /\ elf \in [Elfs -> [TableNames -> {"unset", "null", "set"}]]
  /\ released \in [Elfs -> BOOLEAN] /\ e \in Nat

\* Where the program is, and whether it has its dictionary there.
Where ==
  /\ pc \in Early \cup Freeing \cup Over
  /\ pc = "read" => k \in 1 .. n + 1 /\ dict = IF k = 1 THEN "null" ELSE "live"
  /\ pc \in Parsing => k \in 1 .. n /\ dict = "live"
  /\ pc \in Linking => dict = "live"
  /\ pc \in Freeing => k \in 0 .. n /\ dict # "live"
  /\ pc \in Over => dict # "live"
  /\ pc = "free" => t # 5

\* What the allocator is doing: tag_free looks for the first block of the list
\* or for the section table of the linked elf.
Called ==
  /\ call = None => i = 0
  /\ call = "free" =>
       /\ pc = "freeing" /\ t # 1
       /\ arg = IF IsSet(k, Tables[t - 1]) THEN <<k, Tables[t - 1]>> ELSE Null
       /\ arg \in Blocks /\ arg # DstSht => i = 0 /\ list # <<>> /\ list[1] = arg
  /\ call = "sweep" => pc = "read" /\ arg \in SweepTags
  /\ call = "destroy" => pc = "cleanup"
  /\ call # None /\ i < Len(list) => p = IF i = 0 THEN list[1] ELSE list[Len(list)]

Allocated ==
  /\ \A f \in Elfs, x \in TableNames : IsSet(f, x) => f <= n /\ Rank(f, x) < Reach
  /\ pc \in {"dst_sht", "merge"} \cup Freeing => IsSet(Dst, "symt")
  /\ pc \in {"merge"} \cup Freeing => IsSet(Dst, "sht")
  /\ pc = "cleanup" /\ created => IsSet(Dst, "sht")
  /\ ~IsSet(Dst, "reltext") /\ ~IsSet(Dst, "reldata")
  /\ pc \notin Over => (created <=> \E f \in Elfs, x \in TableNames : IsSet(f, x))

Status ==
  \A f \in Elfs, x \in TableNames :
    block[<<f, x>>] = IF ~IsSet(f, x) THEN "unused" ELSE IF Freed(f, x) THEN "freed" ELSE "live"

\* The list holds the blocks that are live, in order; tag_destroy frees the
\* blocks and the list only when it returns.
Listed ==
  /\ OrderedAt(list, i)
  /\ call # "destroy" => \A b \in Blocks : b \in ToSet(list) <=> block[b] = "live"
  /\ call = "destroy" => list = <<DstSht>> /\ created

Events ==
  /\ ArrayOK(events) /\ e <= CountOf(events)
  /\ pc = "cleanup" => events # Null
  /\ pc = "done" => events = Null /\ list = <<>> /\ call = None
  /\ e # 0 => pc = "cleanup"
  /\ call = "destroy" => e # 0
  /\ created /\ call # "destroy" => Holds(events, e, "tag_destroy")
  /\ tries = "live" <=> Holds(events, e, "trie_cleanup")
  /\ e = 0 /\ pc # "done" => /\ Holds(events, 0, "tag_destroy") => created
                             /\ tries # "freed"

Released ==
  \A f \in 1 .. n :
    IF pc \in Over THEN (\E x \in TableNames : IsSet(f, x)) => released[f]
    ELSE released[f] <=> pc \in Freeing /\ (f < k \/ k = Dst)

Inv ==
  /\ TypeOK /\ Where /\ Called /\ Allocated /\ Status /\ Listed /\ Events /\ Released
  /\ NothingDangling

-----------------------------------------------------------------------------
(* What each step leaves alone                                             *)

LEMMA Names ==
  /\ call = None => call # "free" /\ call # "sweep" /\ call # "destroy"
  /\ \A f \in Elfs, x \in TableNames : <<f, x>> \in Blocks
  /\ \A b \in Blocks : \E f \in Elfs, x \in TableNames : b = <<f, x>>
  /\ Dst \in Elfs /\ "sht" \in TableNames /\ "symt" \in TableNames
  /\ DstSht \in Blocks /\ DstSymt \in Blocks
  /\ DstSht[1] = Dst /\ DstSht[2] = "sht" /\ DstSymt[1] = Dst /\ DstSymt[2] = "symt"
<1>1. Dst \in Elfs /\ "sht" \in TableNames /\ "symt" \in TableNames
  BY ElfAssumption DEF Elfs, TableNames, Dst
<1> QED
  BY <1>1, ElfAssumption DEF DstSht, DstSymt

LEMMA EmptyInOrder ==
  OrderedAt(<<>>, 0)
BY DEF OrderedAt

LEMMA InitInv ==
  ASSUME Init
  PROVE  Inv
<1> USE DEF Init, TagInit
<1>1. TypeOK
  <2>1. list \in Seq(Blocks) /\ Len(list) = 0 /\ i \in 0 .. Len(list)
    OBVIOUS
  <2>2. n \in 1 .. MaxSources /\ k \in 0 .. MaxSources + 1 /\ t \in 1 .. 5 /\ e \in Nat
    BY ElfAssumption
  <2>3. elf \in [Elfs -> [TableNames -> {"unset", "null", "set"}]]
        /\ released \in [Elfs -> BOOLEAN]
        /\ block \in [Blocks -> {"unused", "live", "freed"}]
    BY Zenon
  <2> QED
    BY <2>1, <2>2, <2>3 DEF TypeOK
<1>2. Where
  BY DEF Where, Early, Parsing, Linking, Freeing, Over
<1>3. Called
  BY Names DEF Called
<1>4. \A f \in Elfs, x \in TableNames : ~IsSet(f, x)
  BY DEF IsSet
<1>5. Allocated
  BY <1>4, Names DEF Allocated, Freeing, Over, TableNames
<1>6. Status
  BY <1>4, Names DEF Status
<1>7. Listed
  <2>1. ToSet(list) = {}
    BY DEF ToSet
  <2> QED
    BY <2>1, Names, EmptyInOrder DEF Listed
<1>8. Events
  <2>1. CountOf(events) = 0 /\ \A func : ~Holds(events, 0, func)
    BY DEF CountOf, Holds
  <2> QED
    BY <2>1, Names DEF Events, ArrayOK
<1>9. Released
  <2>1. \A f \in 1 .. n : f \in Elfs
    BY ElfAssumption DEF Elfs
  <2> QED
    BY <2>1 DEF Released, Freeing, Over
<1> QED
  BY <1>1, <1>2, <1>3, <1>5, <1>6, <1>7, <1>8, <1>9 DEF Inv, NothingDangling

\* A step between the calls of the allocator that neither makes a block nor
\* changes which are freed.
LEMMA NoCall ==
  ASSUME Inv, call = None, UNCHANGED tag_vars,
         \A f \in Elfs, x \in TableNames :
           /\ IsSet(f, x)' <=> IsSet(f, x)
           /\ IsSet(f, x) => (Freed(f, x)' <=> Freed(f, x))
  PROVE  Called' /\ Status' /\ Listed' /\ undefined' = FALSE
<1>1. UNCHANGED <<list, created, block, call, i>>
  BY DEF tag_vars
<1>2. Called'
  BY <1>1, Names DEF Inv, Called
<1>3. Status'
  BY <1>1, Zenon DEF Inv, Status
<1>4. Listed'
  BY <1>1, Names DEF Inv, Listed
<1>5. undefined' = FALSE
  BY DEF Inv, NothingDangling, tag_vars
<1> QED
  BY <1>2, <1>3, <1>4, <1>5

LEMMA NotFreedEarly ==
  ASSUME pc \in Early, NEW f, NEW x
  PROVE  ~Freed(f, x)
BY DEF Freed, Early, Parsing, Linking, Freeing, Over

\* The same while no table has been freed.
LEMMA NoCallEarly ==
  ASSUME Inv, call = None, UNCHANGED tag_vars, pc \in Early, pc' \in Early,
         UNCHANGED <<n, tries, events, e, released>>,
         \A f \in Elfs, x \in TableNames : IsSet(f, x)' <=> IsSet(f, x)
  PROVE  /\ Called' /\ Status' /\ Listed' /\ Events' /\ Released' /\ undefined' = FALSE
         /\ pc' \notin Over
<1>1. pc \notin Freeing \cup Over /\ pc' \notin Freeing \cup Over
  BY DEF Early, Parsing, Linking, Freeing, Over
<1>2. \A f \in Elfs, x \in TableNames : ~Freed(f, x) /\ ~Freed(f, x)'
  BY <1>1 DEF Freed
<1>3. Called' /\ Status' /\ Listed' /\ undefined' = FALSE
  BY <1>2, NoCall
<1>4. UNCHANGED <<list, created, call>>
  BY DEF tag_vars
<1>5. Events'
  BY <1>1, <1>4 DEF Inv, Events, Over
<1>6. Released'
  BY <1>1 DEF Inv, Released
<1> QED
  BY <1>1, <1>3, <1>5, <1>6

LEMMA ReachBound ==
  ASSUME Inv
  PROVE  /\ Reach \in Nat /\ Reach <= Base + 2
         /\ pc \in {"read", "dst_symt"} \cup Parsing => Reach <= Base
<1>1. k \in Nat /\ MaxSources \in Nat /\ Base = 4 * MaxSources + 4
      /\ (pc \in {"read"} => k <= MaxSources + 1) /\ (pc \in Parsing => k <= MaxSources)
  BY ElfAssumption DEF Base, Inv, TypeOK, Where
<1> QED
  BY <1>1 DEF Reach, Parsing

\* A step of parse_elf, or the one that begins to link, which allocates nothing.
LEMMA QuietEarly ==
  ASSUME Inv, call = None, UNCHANGED tag_vars, pc \in Early,
         pc' \in {"read", "stopped", "dst_symt"} \cup Parsing,
         UNCHANGED <<n, k, tries, events, e, released, t>>, Reach <= Reach', Reach' \in Nat,
         elf' \in [Elfs -> [TableNames -> {"unset", "null", "set"}]],
         \A f \in Elfs, x \in TableNames : IsSet(f, x)' <=> IsSet(f, x)
  PROVE  /\ TypeOK' /\ Called' /\ Allocated' /\ Status' /\ Listed' /\ Events' /\ Released'
         /\ undefined' = FALSE
<1>1. pc' \in Early
  BY DEF Early, Parsing, Linking
<1>2. /\ Called' /\ Status' /\ Listed' /\ Events' /\ Released' /\ undefined' = FALSE
      /\ pc' \notin Over
  BY <1>1, NoCallEarly
<1>3. TypeOK'
  BY DEF Inv, TypeOK, tag_vars
<1>4. Allocated'
  <2>1. created' = created /\ n' = n
    BY DEF tag_vars
  <2>2. pc \notin Over
    BY DEF Early, Parsing, Linking, Over
  <2>3. pc' \notin {"dst_sht", "merge", "cleanup"} \cup Freeing
    BY DEF Parsing, Freeing
  <2>4. ASSUME NEW f \in Elfs, NEW x \in TableNames, IsSet(f, x)'
        PROVE  (f <= n)' /\ (Rank(f, x) < Reach)'
    <3>1. f <= n /\ Rank(f, x) < Reach
      BY <2>4 DEF Inv, Allocated
    <3>2. Rank(f, x) \in Nat /\ Reach \in Nat
      BY ReachBound, RankType, Names DEF RankOf
    <3> QED
      BY <2>1, <3>1, <3>2
  <2>5. ~IsSet(Dst, "reltext")' /\ ~IsSet(Dst, "reldata")'
    BY Names DEF Inv, Allocated, TableNames
  <2>6. created' <=> \E f \in Elfs, x \in TableNames : IsSet(f, x)'
    BY <2>1, <2>2, Zenon DEF Inv, Allocated
  <2> QED
    BY <2>3, <2>4, <2>5, <2>6, Zenon DEF Allocated
<1> QED
  BY <1>2, <1>3, <1>4

LEMMA StoppedKeeps ==
  ASSUME Inv, call = None, pc \in {"read", "merge"} \cup Parsing, Stopped
  PROVE  Inv'
<1> USE DEF Stopped
<1>1. Reach' = Base + 2 /\ Base \in Nat
  BY ElfAssumption DEF Reach, Base
<1>2. pc \in Early /\ pc' = "stopped" /\ UNCHANGED <<tag_vars, n, k, elf, tries, events, e, released, t, misused>>
  BY DEF Early, Linking, file_vars, shared_vars
<1>3. elf' \in [Elfs -> [TableNames -> {"unset", "null", "set"}]]
  BY <1>2 DEF Inv, TypeOK
<1>4. \A f \in Elfs, x \in TableNames : IsSet(f, x)' <=> IsSet(f, x)
  BY <1>2 DEF IsSet
<1>5. /\ TypeOK' /\ Called' /\ Allocated' /\ Status' /\ Listed' /\ Events' /\ Released'
      /\ undefined' = FALSE
  <2>1. Reach <= Reach' /\ Reach' \in Nat
    BY <1>1, ReachBound
  <2>2. pc' \in {"read", "stopped", "dst_symt"} \cup Parsing
    BY <1>2
  <2> HIDE DEF Stopped
  <2> QED
    BY <1>2, <1>3, <1>4, <2>1, <2>2, QuietEarly
<1>6. Where'
  BY <1>2 DEF Where, Early, Parsing, Linking, Freeing, Over
<1>7. misused' = FALSE
  BY <1>2 DEF Inv, NothingDangling
<1> QED
  BY <1>5, <1>6, <1>7 DEF Inv, NothingDangling

LEMMA ReadElfKeeps ==
  ASSUME Inv, NEW file, ReadElf(file)
  PROVE  Inv'
<1>1. call = None /\ pc = "read" /\ k <= n
  BY DEF ReadElf, Ready, Idle
<1>2. CASE Stopped
  BY <1>1, <1>2, StoppedKeeps
<1>3. CASE ~Stopped
  <2>1. /\ UNCHANGED <<tag_vars, n, k, elf, tries, events, e, misused, released, t>>
        /\ dict' = (IF dict = "null" THEN "live" ELSE dict) /\ pc' = "sht"
    BY <1>3 DEF ReadElf
  <2>2. pc \in Early /\ pc' \in Parsing /\ Reach' = Reach
    BY <1>1, <2>1 DEF Early, Parsing, Reach
  <2>3. /\ elf' \in [Elfs -> [TableNames -> {"unset", "null", "set"}]]
        /\ \A f \in Elfs, x \in TableNames : IsSet(f, x)' <=> IsSet(f, x)
    BY <2>1 DEF Inv, TypeOK, IsSet
  <2>4. Reach \in Nat /\ Reach <= Reach
    BY ReachBound
  <2>5. /\ TypeOK' /\ Called' /\ Allocated' /\ Status' /\ Listed' /\ Events' /\ Released'
        /\ undefined' = FALSE
    BY <1>1, <2>1, <2>2, <2>3, <2>4, QuietEarly
  <2>6. Where'
    BY <1>1, <2>1 DEF Inv, TypeOK, Where, Early, Parsing, Linking, Freeing, Over
  <2>7. misused' = FALSE
    BY <2>1 DEF Inv, NothingDangling
  <2> QED
    BY <2>5, <2>6, <2>7 DEF Inv, NothingDangling
<1> QED
  BY <1>2, <1>3

\* From one step of parse_elf to a later one, with the dictionary at hand.
LEMMA ParseGoesOn ==
  ASSUME Inv, call = None, misused' = FALSE, pc \in Parsing, pc' \in Parsing,
         UNCHANGED <<tag_vars, n, k, dict, tries, events, e, released, t>>,
         elf' \in [Elfs -> [TableNames -> {"unset", "null", "set"}]],
         \A f \in Elfs, x \in TableNames : IsSet(f, x)' <=> IsSet(f, x),
         Reach <= Reach', Reach' \in Nat
  PROVE  Inv'
<1>1. pc \in Early
  BY DEF Early
<1>2. /\ TypeOK' /\ Called' /\ Allocated' /\ Status' /\ Listed' /\ Events' /\ Released'
      /\ undefined' = FALSE
  BY <1>1, QuietEarly
<1>3. Where'
  BY DEF Inv, Where, Early, Parsing, Linking, Freeing, Over
<1> QED
  BY <1>2, <1>3 DEF Inv, NothingDangling

LEMMA ParseSectionsKeeps ==
  ASSUME Inv, ParseSections
  PROVE  Inv'
<1>1. call = None /\ pc = "sections" /\ pc \in Parsing
  BY DEF ParseSections, Ready, Idle, Parsing
<1>2. CASE Stopped
  BY <1>1, <1>2, StoppedKeeps
<1>3. CASE ~Stopped
  <2>1. pc' = "symt" /\ UNCHANGED <<tag_vars, n, k, elf, dict, tries, events, e, misused, released, t>>
    BY <1>3 DEF ParseSections, file_vars, shared_vars
  <2>2. pc' \in Parsing /\ Reach' = Reach /\ misused' = FALSE
    BY <1>1, <2>1 DEF Parsing, Reach, Inv, NothingDangling
  <2>3. /\ elf' \in [Elfs -> [TableNames -> {"unset", "null", "set"}]]
        /\ \A f \in Elfs, x \in TableNames : IsSet(f, x)' <=> IsSet(f, x)
    BY <2>1 DEF Inv, TypeOK, IsSet
  <2>4. Reach <= Reach' /\ Reach' \in Nat
    BY <2>2, ReachBound
  <2> QED
    BY <1>1, <2>1, <2>2, <2>3, <2>4, ParseGoesOn
<1> QED
  BY <1>2, <1>3

LEMMA ParseSymbolsKeeps ==
  ASSUME Inv, ParseSymbols
  PROVE  Inv'
<1>1. call = None /\ pc = "symbols" /\ pc \in Parsing
  BY DEF ParseSymbols, Ready, Idle, Parsing
<1>2. CASE Stopped
  BY <1>1, <1>2, StoppedKeeps
<1>3. CASE ~Stopped
  <2>1. /\ pc' = "reltext" /\ misused' = (dict = "freed")
        /\ UNCHANGED <<tag_vars, n, k, elf, dict, tries, events, e, released, t>>
    BY <1>3 DEF ParseSymbols, LooksUp
  <2>2. pc' \in Parsing /\ Reach' = Reach /\ misused' = FALSE
    BY <1>1, <2>1 DEF Parsing, Reach, Inv, Where
  <2>3. /\ elf' \in [Elfs -> [TableNames -> {"unset", "null", "set"}]]
        /\ \A f \in Elfs, x \in TableNames : IsSet(f, x)' <=> IsSet(f, x)
    BY <2>1 DEF Inv, TypeOK, IsSet
  <2>4. Reach <= Reach' /\ Reach' \in Nat
    BY <2>2, ReachBound
  <2> QED
    BY <1>1, <2>1, <2>2, <2>3, <2>4, ParseGoesOn
<1> QED
  BY <1>2, <1>3

\* One of the two relocation tables of a file: the part that allocates nothing.
LEMMA SkipRelKeeps ==
  ASSUME Inv, NEW table \in {"reltext", "reldata"}, NEW skip \in {"reldata", "sweep"},
         Ready(table), table = "reltext" <=> skip = "reldata",
         elf' = [elf EXCEPT ![k][table] = "null"], pc' = skip,
         UNCHANGED <<tag_vars, n, k, lines, symbols, shared_vars, released, t>>
  PROVE  Inv'
<1>1. call = None /\ pc = table /\ pc \in Parsing /\ pc' \in Parsing /\ misused = FALSE
  BY DEF Ready, Idle, Parsing
<1>2. misused' = FALSE /\ UNCHANGED <<tag_vars, n, k, dict, tries, events, e, released, t>>
  BY <1>1 DEF shared_vars
<1>3. k \in 1 .. n /\ k \in Elfs /\ k # Dst /\ table \in TableNames /\ k \in Nat
  BY <1>1, ElfAssumption DEF Inv, TypeOK, Where, Elfs, Dst, TableNames
<1>4. Reach <= Reach' /\ Reach' \in Nat
  BY <1>1, <1>2, <1>3 DEF Reach
<1>5. elf' \in [Elfs -> [TableNames -> {"unset", "null", "set"}]]
  BY <1>3 DEF Inv, TypeOK
<1>6. ~IsSet(k, table)
  <2>1. Reach = Rank(k, table)
    BY <1>1, <1>3 DEF Reach, Rank, Index
  <2>2. Reach \in Nat
    BY ReachBound
  <2> QED
    BY <1>3, <2>1, <2>2 DEF Inv, Allocated
<1>7. ASSUME NEW f \in Elfs, NEW x \in TableNames
      PROVE  IsSet(f, x)' <=> IsSet(f, x)
  BY <1>3, <1>6 DEF Inv, TypeOK, IsSet
<1> QED
  BY <1>1, <1>2, <1>4, <1>5, <1>7, ParseGoesOn

LEMMA ParseRelocationsKeeps ==
  ASSUME Inv, NEW table \in {"reltext", "reldata"}, NEW parse \in {"reltext_rows", "reldata_rows"},
         NEW next \in {"reldata", "sweep"}, parse = "reltext_rows" <=> next = "reldata",
         ParseRelocations(table, parse, next)
  PROVE  Inv'
<1>1. call = None /\ pc = parse /\ pc \in Parsing /\ misused = FALSE
  BY DEF ParseRelocations, Ready, Idle, Parsing
<1>2. CASE Stopped
  BY <1>1, <1>2, StoppedKeeps
<1>3. CASE ~Stopped
  <2>1. /\ pc' = next /\ (dict # "freed" => misused' = FALSE)
        /\ UNCHANGED <<tag_vars, n, k, elf, dict, tries, events, e, released, t>>
    BY <1>3 DEF ParseRelocations
  <2>2. pc' \in Parsing /\ misused' = FALSE
    BY <1>1, <2>1 DEF Parsing, Inv, Where
  <2>3. Reach' = Reach
    BY <1>1, <2>1 DEF Reach
  <2>4. /\ elf' \in [Elfs -> [TableNames -> {"unset", "null", "set"}]]
        /\ \A f \in Elfs, x \in TableNames : IsSet(f, x)' <=> IsSet(f, x)
    BY <2>1 DEF Inv, TypeOK, IsSet
  <2>5. Reach <= Reach' /\ Reach' \in Nat
    BY <2>3, ReachBound
  <2> QED
    BY <1>1, <2>1, <2>2, <2>4, <2>5, ParseGoesOn
<1> QED
  BY <1>2, <1>3

-----------------------------------------------------------------------------
(* Allocation                                                              *)

\* All that is on the list between two calls.
LEMMA OnList ==
  ASSUME Inv, call # "destroy", NEW b \in ToSet(list)
  PROVE  /\ b \in Blocks /\ block[b] = "live"
         /\ \E f \in Elfs, x \in TableNames : b = <<f, x>> /\ IsSet(f, x) /\ ~Freed(f, x)
<1>1. b \in Blocks
  BY InToSet DEF Inv, TypeOK
<1>2. block[b] = "live"
  BY <1>1 DEF Inv, Listed
<1>3. PICK f \in Elfs, x \in TableNames : b = <<f, x>>
  BY <1>1, Names
<1>4. IsSet(f, x) /\ ~Freed(f, x)
  BY <1>2, <1>3 DEF Inv, Status
<1> QED
  BY <1>1, <1>2, <1>3, <1>4

\* A new event, for the first table or the first instruction.
LEMMA AddEvent ==
  ASSUME ArrayOK(events), NEW func \in Funcs, ~Holds(events, 0, func), add_cleanup_event(func)
  PROVE  /\ ArrayOK(events') /\ events' # Null /\ CountOf(events') \in Nat
         /\ \A other : Holds(events', 0, other) <=> Holds(events, 0, other) \/ other = func
<1> DEFINE r == array_insert(IF events = Null THEN array_construct(EventSlots) ELSE events, func)
<1>1. events' = r
  BY DEF add_cleanup_event
<1>2. /\ ArrayOK(r) /\ r # Null
      /\ \A other : Holds(r, 0, other) <=> Holds(events, 0, other) \/ other = func
  BY Inserted
<1> HIDE DEF r
<1> QED
  BY <1>1, <1>2, CountType

LEMMA AllocateKeeps ==
  ASSUME Inv, pc \in Parsing \cup {"dst_symt", "dst_sht"},
         pc' \in Parsing \cup {"dst_sht", "merge"},
         NEW f \in Elfs, NEW x \in TableNames, Allocate(f, x), f <= n,
         f = Dst => x \in {"symt", "sht"},
         Rank(f, x) = Reach, Reach < Reach', Reach' \in Nat,
         pc' \in {"dst_sht", "merge"} => IsSet(Dst, "symt") \/ <<f, x>> = DstSymt,
         pc' = "merge" => IsSet(Dst, "sht") \/ <<f, x>> = DstSht
  PROVE  /\ TypeOK' /\ Called' /\ Allocated' /\ Status' /\ Listed' /\ Events' /\ Released'
         /\ NothingDangling' /\ UNCHANGED <<n, k, dict>>
<1> DEFINE b == <<f, x>>
<1>1. /\ call = None /\ undefined = FALSE
      /\ block[b] = "unused"
      /\ list' = Append(list, b) /\ created' = TRUE /\ block' = [block EXCEPT ![b] = "live"]
      /\ UNCHANGED <<tag, call, arg, i, p, undefined>>
  BY DEF Allocate, tag_malloc, BlockOf, Idle
<1>2. elf' = [elf EXCEPT ![f][x] = "set"]
      /\ UNCHANGED <<n, k, lines, symbols, dict, tries, e, misused, released, t>>
  BY DEF Allocate
<1>3. /\ pc \in Early /\ pc \notin Freeing \cup Over /\ pc' \notin Freeing \cup Over /\ pc \notin Over
      /\ pc' \notin Over /\ pc \notin {"cleanup", "done"} /\ pc' \notin {"cleanup", "done"}
  BY DEF Early, Parsing, Linking, Freeing, Over
<1>4. b \in Blocks
  BY Names
<1>5. i = 0 /\ list \in Seq(Blocks) /\ call # "destroy"
  BY <1>1, Names DEF Inv, TypeOK, Called
<1>6. ASSUME NEW g \in Elfs, NEW y \in TableNames
      PROVE  IsSet(g, y)' <=> IsSet(g, y) \/ <<g, y>> = b
  BY <1>2 DEF Inv, TypeOK, IsSet
<1>7. OrderedAt(list', 0) /\ list' \in Seq(Blocks) /\ ToSet(list') = ToSet(list) \cup {b}
  <2>1. ASSUME NEW c \in ToSet(list)
        PROVE  RankOf(c) < RankOf(b)
    <3>1. PICK g \in Elfs, y \in TableNames : c = <<g, y>> /\ IsSet(g, y)
      BY <1>5, OnList
    <3>2. Rank(g, y) < Reach
      BY <3>1 DEF Inv, Allocated
    <3> QED
      BY <3>1, <3>2 DEF RankOf
  <2>2. OrderedAt(list, 0)
    BY <1>5 DEF Inv, Listed
  <2> QED
    BY <1>1, <1>4, <1>5, <2>1, <2>2, OrderedAppend
<1> HIDE DEF b
<1>8. TypeOK'
  <2>1. i' \in 0 .. Len(list')
    BY <1>1, <1>5, <1>7
  <2>2. elf' \in [Elfs -> [TableNames -> {"unset", "null", "set"}]]
    BY <1>2 DEF Inv, TypeOK
  <2>3. block' \in [Blocks -> {"unused", "live", "freed"}]
    BY <1>1, <1>4 DEF Inv, TypeOK
  <2> QED
    BY <1>1, <1>2, <1>7, <2>1, <2>2, <2>3 DEF Inv, TypeOK
<1>9. Called'
  BY <1>1, <1>5, Names DEF Called
<1>10. Allocated'
  <2>1. ASSUME NEW g \in Elfs, NEW y \in TableNames, IsSet(g, y)'
        PROVE  g <= n' /\ (Rank(g, y) < Reach)'
    <3>1. Rank(g, y) \in Nat /\ Reach \in Nat
      BY ReachBound, RankType, Names DEF RankOf
    <3>2. CASE <<g, y>> = b
      BY <1>2, <3>1, <3>2 DEF b
    <3>3. CASE <<g, y>> # b
      <4>1. g <= n /\ Rank(g, y) < Reach
        BY <1>6, <2>1, <3>3 DEF Inv, Allocated
      <4> QED
        BY <1>2, <3>1, <4>1
    <3> QED
      BY <3>2, <3>3
  <2>2. /\ pc' \in {"dst_sht", "merge"} \cup Freeing => IsSet(Dst, "symt")'
        /\ pc' \in {"merge"} \cup Freeing => IsSet(Dst, "sht")'
    BY <1>3, <1>6, Names DEF b, DstSymt, DstSht
  <2>3. ~IsSet(Dst, "reltext")' /\ ~IsSet(Dst, "reldata")'
    <3>1. "reltext" \in TableNames /\ "reldata" \in TableNames
      BY DEF TableNames
    <3> QED
      BY <1>6, <3>1, Names DEF b, Inv, Allocated
  <2>4. created' /\ IsSet(f, x)'
    BY <1>1, <1>6 DEF b
  <2> QED
    BY <1>3, <2>1, <2>2, <2>3, <2>4 DEF Allocated
<1>11. Status'
  <2>1. \A g \in Elfs, y \in TableNames : ~Freed(g, y) /\ ~Freed(g, y)'
    BY <1>3 DEF Freed
  <2>2. ASSUME NEW g \in Elfs, NEW y \in TableNames
        PROVE  block'[<<g, y>>] = IF ~IsSet(g, y)' THEN "unused" ELSE "live"
    <3>1. <<g, y>> \in Blocks
      BY Names
    <3>2. block[<<g, y>>] = IF ~IsSet(g, y) THEN "unused" ELSE "live"
      BY <2>1 DEF Inv, Status
    <3> QED
      BY <1>1, <1>4, <1>6, <3>1, <3>2 DEF Inv, TypeOK
  <2> QED
    BY <2>1, <2>2 DEF Status
<1>12. Listed'
  <2>1. ASSUME NEW c \in Blocks
        PROVE  c \in ToSet(list') <=> block'[c] = "live"
    BY <1>1, <1>4, <1>5, <1>7 DEF Inv, Listed, TypeOK
  <2> QED
    BY <1>1, <1>5, <1>7, <2>1 DEF Listed
<1>13. Events'
  <2>1. e = 0 /\ ArrayOK(events) /\ pc # "done"
    BY <1>3 DEF Inv, Events
  <2>2. CASE created
    <3>1. UNCHANGED events
      BY <2>2 DEF Allocate
    <3> QED
      BY <1>1, <1>2, <1>3, <1>5, <2>1, <2>2, <3>1 DEF Inv, Events
  <2>3. CASE ~created
    <3>1. add_cleanup_event("tag_destroy") /\ ~Holds(events, 0, "tag_destroy")
      BY <2>1, <2>3 DEF Allocate, Inv, Events
    <3>2. /\ ArrayOK(events') /\ events' # Null /\ CountOf(events') \in Nat
          /\ \A other : Holds(events', 0, other) <=> Holds(events, 0, other) \/ other = "tag_destroy"
      BY <2>1, <3>1, AddEvent DEF Funcs
    <3>3. tries = "live" <=> Holds(events, 0, "trie_cleanup")
      BY <2>1 DEF Inv, Events
    <3>4. tries # "freed"
      BY <2>1 DEF Inv, Events
    <3> QED
      BY <1>1, <1>2, <1>3, <1>5, <2>1, <3>2, <3>3, <3>4 DEF Events
  <2> QED
    BY <2>2, <2>3
<1>14. Released'
  BY <1>2, <1>3 DEF Inv, Released
<1>15. NothingDangling'
  BY <1>1, <1>2 DEF Inv, NothingDangling
<1> QED
  BY <1>2, <1>8, <1>9, <1>10, <1>11, <1>12, <1>13, <1>14, <1>15

\* The tables of a source.
LEMMA AllocateSource ==
  ASSUME Inv, pc \in Parsing, pc' \in Parsing, NEW x \in TableNames, Allocate(k, x),
         Reach = 4 * k + Index[x] - 1, Reach' = 4 * k' + Index[x]
  PROVE  Inv'
<1>1. k \in 1 .. n /\ k \in Elfs /\ k # Dst /\ k \in Nat /\ k' = k /\ dict = "live"
  BY ElfAssumption DEF Inv, TypeOK, Where, Elfs, Dst, Allocate
<1>2. Rank(k, x) = Reach /\ Index[x] \in 1 .. 4 /\ Reach < Reach' /\ Reach' \in Nat
  BY <1>1 DEF Rank, Index, TableNames
<1>3. pc' \notin {"dst_sht", "merge"}
  BY DEF Parsing
<1>4. /\ TypeOK' /\ Called' /\ Allocated' /\ Status' /\ Listed' /\ Events' /\ Released'
      /\ NothingDangling' /\ UNCHANGED <<n, k, dict>>
  BY <1>1, <1>2, <1>3, AllocateKeeps
<1>5. Where'
  BY <1>1, <1>4 DEF Where, Early, Parsing, Linking, Freeing, Over
<1> QED
  BY <1>4, <1>5 DEF Inv

LEMMA MallocShtKeeps ==
  ASSUME Inv, MallocSht
  PROVE  Inv'
<1>1. call = None /\ pc = "sht" /\ pc \in Parsing
  BY DEF MallocSht, Ready, Idle, Parsing
<1>2. CASE Stopped
  BY <1>1, <1>2, StoppedKeeps
<1>3. CASE ~Stopped
  <2>1. Allocate(k, "sht") /\ pc' = "sections"
    BY <1>3 DEF MallocSht
  <2>2. pc' \in Parsing /\ "sht" \in TableNames /\ Index["sht"] = 1
    BY <2>1 DEF Parsing, TableNames, Index
  <2>3. k \in Nat /\ k' = k
    BY <2>1 DEF Inv, TypeOK, Allocate
  <2>4. Reach = 4 * k + Index["sht"] - 1 /\ Reach' = 4 * k' + Index["sht"]
    BY <1>1, <2>1, <2>2, <2>3 DEF Reach
  <2> QED
    BY <1>1, <2>1, <2>2, <2>4, AllocateSource
<1> QED
  BY <1>2, <1>3

LEMMA MallocSymtKeeps ==
  ASSUME Inv, MallocSymt
  PROVE  Inv'
<1>1. pc = "symt" /\ Allocate(k, "symt") /\ pc' = "symbols"
  BY DEF MallocSymt, Ready
<1>2. pc \in Parsing /\ pc' \in Parsing /\ "symt" \in TableNames /\ Index["symt"] = 2
  BY <1>1 DEF Parsing, TableNames, Index
<1>3. k \in Nat /\ k' = k
  BY <1>1 DEF Inv, TypeOK, Allocate
<1>4. Reach = 4 * k + Index["symt"] - 1 /\ Reach' = 4 * k' + Index["symt"]
  BY <1>1, <1>2, <1>3 DEF Reach
<1> QED
  BY <1>1, <1>2, <1>4, AllocateSource

LEMMA ParseReltextKeeps ==
  ASSUME Inv, ParseReltext
  PROVE  Inv'
<1>1. CASE ParseRelocations("reltext", "reltext_rows", "reldata")
  BY <1>1, ParseRelocationsKeeps
<1>2. CASE MallocRel("reltext", "reltext_rows", "reldata")
  <2>1. Ready("reltext") /\ pc = "reltext"
    BY <1>2 DEF MallocRel, Ready
  <2>2. CASE Allocate(k, "reltext") /\ pc' = "reltext_rows"
    <3>1. pc \in Parsing /\ pc' \in Parsing /\ "reltext" \in TableNames /\ Index["reltext"] = 3
      BY <2>1, <2>2 DEF Parsing, TableNames, Index
    <3>2. k \in Nat /\ k' = k
      BY <2>2 DEF Inv, TypeOK, Allocate
    <3>3. Reach = 4 * k + Index["reltext"] - 1 /\ Reach' = 4 * k' + Index["reltext"]
      BY <2>1, <2>2, <3>1, <3>2 DEF Reach
    <3> QED
      BY <2>2, <3>1, <3>3, AllocateSource
  <2>3. CASE /\ elf' = [elf EXCEPT ![k]["reltext"] = "null"] /\ pc' = "reldata"
             /\ UNCHANGED <<tag_vars, n, k, lines, symbols, shared_vars, released, t>>
    BY <2>1, <2>3, SkipRelKeeps
  <2> QED
    BY <1>2, <2>2, <2>3, Zenon DEF MallocRel
<1> QED
  BY <1>1, <1>2 DEF ParseReltext

LEMMA ParseReldataKeeps ==
  ASSUME Inv, ParseReldata
  PROVE  Inv'
<1>1. CASE ParseRelocations("reldata", "reldata_rows", "sweep")
  BY <1>1, ParseRelocationsKeeps
<1>2. CASE MallocRel("reldata", "reldata_rows", "sweep")
  <2>1. Ready("reldata") /\ pc = "reldata"
    BY <1>2 DEF MallocRel, Ready
  <2>2. CASE Allocate(k, "reldata") /\ pc' = "reldata_rows"
    <3>1. pc \in Parsing /\ pc' \in Parsing /\ "reldata" \in TableNames /\ Index["reldata"] = 4
      BY <2>1, <2>2 DEF Parsing, TableNames, Index
    <3>2. k \in Nat /\ k' = k
      BY <2>2 DEF Inv, TypeOK, Allocate
    <3>3. Reach = 4 * k + Index["reldata"] - 1 /\ Reach' = 4 * k' + Index["reldata"]
      BY <2>1, <2>2, <3>1, <3>2 DEF Reach
    <3> QED
      BY <2>2, <3>1, <3>3, AllocateSource
  <2>3. CASE /\ elf' = [elf EXCEPT ![k]["reldata"] = "null"] /\ pc' = "sweep"
             /\ UNCHANGED <<tag_vars, n, k, lines, symbols, shared_vars, released, t>>
    BY <2>1, <2>3, SkipRelKeeps
  <2> QED
    BY <1>2, <2>2, <2>3, Zenon DEF MallocRel
<1> QED
  BY <1>1, <1>2 DEF ParseReldata

LEMMA LinkSymtKeeps ==
  ASSUME Inv, LinkSymt
  PROVE  Inv'
<1>1. pc = "dst_symt" /\ Allocate(Dst, "symt") /\ pc' = "dst_sht"
  BY DEF LinkSymt, Ready
<1>2. Reach = Base /\ Reach' = Base + 1 /\ Rank(Dst, "symt") = Base /\ Base \in Nat
  BY <1>1, ElfAssumption DEF Reach, Rank, Base
<1>3. Dst <= n
  BY DEF Inv, TypeOK, Dst
<1>4. Reach < Reach' /\ Reach' \in Nat /\ Rank(Dst, "symt") = Reach
  BY <1>2
<1>5. /\ TypeOK' /\ Called' /\ Allocated' /\ Status' /\ Listed' /\ Events' /\ Released'
      /\ NothingDangling' /\ UNCHANGED <<n, k, dict>>
  BY <1>1, <1>3, <1>4, Names, AllocateKeeps DEF DstSymt
<1>6. Where'
  BY <1>1, <1>5 DEF Inv, Where, Early, Parsing, Linking, Freeing, Over
<1> QED
  BY <1>5, <1>6 DEF Inv

LEMMA LinkShtKeeps ==
  ASSUME Inv, LinkSht
  PROVE  Inv'
<1>1. pc = "dst_sht" /\ Allocate(Dst, "sht") /\ pc' = "merge"
  BY DEF LinkSht, Ready
<1>2. Reach = Base + 1 /\ Reach' = Base + 2 /\ Rank(Dst, "sht") = Base + 1 /\ Base \in Nat
  BY <1>1, ElfAssumption DEF Reach, Rank, Base
<1>3. Dst <= n /\ IsSet(Dst, "symt")
  BY <1>1 DEF Inv, TypeOK, Allocated, Dst
<1>4. Reach < Reach' /\ Reach' \in Nat /\ Rank(Dst, "sht") = Reach
  BY <1>2
<1>5. /\ TypeOK' /\ Called' /\ Allocated' /\ Status' /\ Listed' /\ Events' /\ Released'
      /\ NothingDangling' /\ UNCHANGED <<n, k, dict>>
  BY <1>1, <1>3, <1>4, Names, AllocateKeeps DEF DstSht
<1>6. Where'
  BY <1>1, <1>5 DEF Inv, Where, Early, Parsing, Linking, Freeing, Over
<1> QED
  BY <1>5, <1>6 DEF Inv

LEMMA LinkBeginsKeeps ==
  ASSUME Inv, LinkBegins
  PROVE  Inv'
<1>1. call = None /\ pc = "read" /\ k > n /\ pc \in Early
  BY DEF LinkBegins, Ready, Idle, Early
<1>2. CASE Stopped
  BY <1>1, <1>2, StoppedKeeps
<1>3. CASE ~Stopped
  <2>1. /\ elf' = [elf EXCEPT ![Dst] = [table \in TableNames |-> "null"]] /\ pc' = "dst_symt"
        /\ UNCHANGED <<tag_vars, n, k, lines, symbols, shared_vars, released, t>>
    BY <1>3 DEF LinkBegins
  <2>2. UNCHANGED <<n, k, tries, events, e, released, t, dict, misused>>
    BY <2>1 DEF shared_vars
  <2>3. Reach' = Base /\ Base \in Nat /\ Reach <= Base
    BY <1>1, <2>1, ReachBound, ElfAssumption DEF Reach, Base
  <2>4. ASSUME NEW x \in TableNames
        PROVE  ~IsSet(Dst, x)
    <3>1. Rank(Dst, x) \in Nat /\ Rank(Dst, x) >= Base
      BY <2>3 DEF Rank
    <3>2. Dst \in Elfs /\ Reach \in Nat
      BY Names, ReachBound
    <3>3. ~(Rank(Dst, x) < Reach)
      BY <2>3, <3>1, <3>2
    <3> QED
      BY <3>2, <3>3, Zenon DEF Inv, Allocated
  <2>5. elf' \in [Elfs -> [TableNames -> {"unset", "null", "set"}]]
    BY <2>1 DEF Inv, TypeOK
  <2>6. ASSUME NEW f \in Elfs, NEW x \in TableNames
        PROVE  IsSet(f, x)' <=> IsSet(f, x)
    BY <2>1, <2>4 DEF Inv, TypeOK, IsSet
  <2>7. Reach <= Reach' /\ Reach' \in Nat
    BY <2>3
  <2>8. pc' \in {"read", "stopped", "dst_symt"} \cup Parsing
    BY <2>1
  <2>9. /\ TypeOK' /\ Called' /\ Allocated' /\ Status' /\ Listed' /\ Events' /\ Released'
        /\ undefined' = FALSE
    BY <1>1, <2>1, <2>2, <2>5, <2>6, <2>7, <2>8, QuietEarly
  <2>10. Where'
    <3>1. dict = "live"
      BY <1>1 DEF Inv, TypeOK, Where
    <3> QED
      BY <2>1, <2>2, <3>1 DEF Where, Early, Parsing, Linking, Freeing, Over
  <2>11. misused' = FALSE
    BY <2>2 DEF Inv, NothingDangling
  <2> QED
    BY <2>9, <2>10, <2>11 DEF Inv, NothingDangling
<1> QED
  BY <1>2, <1>3

-----------------------------------------------------------------------------
(* Calls of the allocator, and their turns                                 *)

LEMMA SweepKeeps ==
  ASSUME Inv, Sweep
  PROVE  Inv'
<1>1. /\ call = None /\ undefined = FALSE /\ misused = FALSE /\ pc = "sweep"
      /\ pc' = "read" /\ k' = k + 1
      /\ UNCHANGED <<n, elf, symbols, released, t>>
      /\ UNCHANGED <<dict, tries, events, e, misused>>
      /\ UNCHANGED <<list, created, block, tag, undefined>>
      /\ call' = "sweep" /\ arg' \in SweepTags /\ i' = 0
      /\ p' = IF list = <<>> THEN None ELSE Head(list)
  BY DEF Sweep, Ready, Idle, tag_sweep, Begin, shared_vars
<1>2. k \in 1 .. n /\ n \in 1 .. MaxSources /\ dict = "live" /\ MaxSources \in Nat
      /\ list \in Seq(Blocks)
  BY <1>1, ElfAssumption DEF Inv, TypeOK, Where, Parsing
<1>3. Reach' = Reach
  BY <1>1, <1>2 DEF Reach
<1>4. /\ pc \in Early /\ pc \notin Freeing \cup Over /\ pc' \notin Freeing \cup Over
      /\ pc \notin Over /\ pc' \notin Over
  BY <1>1 DEF Early, Parsing, Freeing, Over
<1>5. \A f \in Elfs, x \in TableNames :
        (IsSet(f, x)' <=> IsSet(f, x)) /\ ~Freed(f, x) /\ ~Freed(f, x)'
  BY <1>1, <1>4 DEF IsSet, Freed
<1>6. TypeOK'
  <2>1. k' \in 0 .. MaxSources + 1 /\ i' \in 0 .. Len(list')
    BY <1>1, <1>2
  <2> QED
    BY <1>1, <2>1 DEF Inv, TypeOK
<1>7. Where'
  <2>1. k' \in 1 .. n' + 1 /\ k' # 1
    BY <1>1, <1>2
  <2> QED
    BY <1>1, <1>2, <2>1 DEF Where, Early, Parsing, Linking, Freeing, Over
<1>8. Called'
  <2>1. i' < Len(list') => p' = list'[1]
    BY <1>1, <1>2
  <2>2. call' # None /\ call' # "free" /\ call' # "destroy"
    BY <1>1, ElfAssumption
  <2> QED
    BY <1>1, <2>1, <2>2 DEF Called
<1>9. Allocated'
  BY <1>1, <1>3, <1>4, <1>5, Names DEF Inv, Allocated, TableNames
<1>10. Status'
  BY <1>1, <1>5 DEF Inv, Status
<1>11. Listed'
  BY <1>1, Names DEF Inv, Listed, Called
<1>12. Events'
  BY <1>1, Names DEF Inv, Events
<1>13. Released'
  BY <1>1, <1>4 DEF Inv, Released
<1>14. NothingDangling'
  BY <1>1 DEF NothingDangling
<1> QED
  BY <1>6, <1>7, <1>8, <1>9, <1>10, <1>11, <1>12, <1>13, <1>14 DEF Inv

LEMMA TableIndex ==
  /\ \A j \in 1 .. 4 : Tables[j] \in TableNames /\ Index[Tables[j]] = j
  /\ \A x \in TableNames : Index[x] \in 1 .. 4 /\ Tables[Index[x]] = x
  /\ Index["sht"] = 1 /\ Index["symt"] = 2
BY DEF Tables, TableNames, Index

\* free_elf asks for the first block of the list, or for the section table of
\* the linked elf.
LEMMA FirstIsAsked ==
  ASSUME Inv, call = None, pc = "free", NEW b \in Blocks,
         IsSet(k, Tables[t]), b = <<k, Tables[t]>>, b # DstSht
  PROVE  list # <<>> /\ list[1] = b
<1>1. k \in 0 .. n /\ k \in Elfs /\ t \in 1 .. 4 /\ k \in Nat /\ i = 0 /\ Due = t
      /\ list \in Seq(Blocks) /\ call # "destroy" /\ pc \in Freeing /\ pc \notin Over
  BY ElfAssumption, Names DEF Inv, TypeOK, Where, Called, Elfs, Due, Freeing, Over
<1>2. Tables[t] \in TableNames /\ Index[Tables[t]] = t
  BY <1>1, TableIndex
<1>3. ~Freed(k, Tables[t])
  <2>1. k # Dst \/ (Tables[t] = "symt" /\ t = 2)
    <3>1. k = Dst => Tables[t] # "sht" /\ Tables[t] # "reltext" /\ Tables[t] # "reldata"
      BY DEF DstSht, Inv, Allocated
    <3> QED
      BY <1>2, <3>1, TableIndex DEF TableNames
  <2> QED
    BY <1>1, <1>2, <2>1 DEF Freed
<1>4. b \in ToSet(list)
  <2>1. block[<<k, Tables[t]>>] = "live"
    BY <1>1, <1>2, <1>3 DEF Inv, Status
  <2> QED
    BY <1>1, <2>1 DEF Inv, Listed
<1>5. ASSUME NEW c \in ToSet(list)
      PROVE  RankOf(b) <= RankOf(c)
  <2>1. PICK f \in Elfs, x \in TableNames : c = <<f, x>> /\ IsSet(f, x) /\ ~Freed(f, x)
    BY <1>1, OnList
  <2>2. f \in 0 .. MaxSources /\ MaxSources \in Nat /\ Base = 4 * MaxSources + 4
        /\ Index[x] \in 1 .. 4
    BY ElfAssumption, TableIndex DEF Elfs, Base
  <2>3. RankOf(b) = Rank(k, Tables[t]) /\ RankOf(c) = Rank(f, x)
    BY <2>1 DEF RankOf
  <2>4. CASE k # Dst
    <3>1. RankOf(b) = 4 * k + t - 1 /\ k \in 1 .. MaxSources
      <4>1. RankOf(b) = 4 * k + t - 1
        BY <1>2, <2>3, <2>4 DEF Rank
      <4>2. n \in 1 .. MaxSources
        BY DEF Inv, TypeOK
      <4> QED
        BY <1>1, <2>2, <2>4, <4>1, <4>2 DEF Dst
    <3>2. CASE f = Dst
      BY <2>2, <2>3, <3>1, <3>2, <1>1 DEF Rank
    <3>3. CASE f # Dst
      <4>1. RankOf(c) = 4 * f + Index[x] - 1
        BY <2>3, <3>3 DEF Rank
      <4>2. k < f \/ (f = k /\ t <= Index[x])
        BY <1>1, <2>1, <2>2, <2>4, <3>3 DEF Freed
      <4> QED
        BY <1>1, <2>2, <3>1, <4>1, <4>2
    <3> QED
      BY <3>2, <3>3
  <2>5. CASE k = Dst
    <3>1. f = Dst
      BY <1>1, <2>1, <2>5 DEF Freed
    <3>2. Tables[t] = "symt"
      BY <1>2, <2>5 DEF DstSht, Inv, Allocated, TableNames
    <3> QED
      BY <2>2, <2>3, <2>5, <3>1, <3>2 DEF Rank
  <2> QED
    BY <2>4, <2>5
<1>6. OrderedAt(list, 0)
  BY <1>1 DEF Inv, Listed
<1> QED
  BY <1>1, <1>4, <1>5, <1>6, OrderedHead

LEMMA FreeTableKeeps ==
  ASSUME Inv, FreeTable
  PROVE  Inv'
<1> DEFINE b == IF elf[k][Tables[t]] = "set" THEN BlockOf(k, Tables[t]) ELSE Null
<1>1. /\ call = None /\ undefined = FALSE /\ misused = FALSE /\ pc = "free"
      /\ pc' = "freeing" /\ t' = t + 1
      /\ UNCHANGED <<list, created, block, tag, undefined>>
      /\ call' = "free" /\ arg' = b /\ i' = 0
      /\ p' = IF list = <<>> THEN None ELSE Head(list)
  BY DEF FreeTable, Ready, Idle, tag_free, Begin
<1>2. UNCHANGED <<n, k, lines, elf, symbols, dict, tries, events, e, misused, released>>
  BY DEF FreeTable, file_vars, shared_vars
<1>3. t \in 1 .. 4 /\ list \in Seq(Blocks) /\ k \in 0 .. n /\ k \in Elfs /\ k \in Nat
  BY <1>1, ElfAssumption DEF Inv, TypeOK, Where, Freeing, Elfs
<1>4. /\ pc \in Freeing /\ pc' \in Freeing /\ pc \notin Over /\ pc' \notin Over
      /\ pc \notin Early /\ pc' \notin Early
  BY <1>1 DEF Freeing, Over, Early, Parsing, Linking
<1>5. Due' = Due /\ t' - 1 = t
  BY <1>1, <1>3, Names DEF Due
<1>6. \A f \in Elfs, x \in TableNames :
        (IsSet(f, x)' <=> IsSet(f, x)) /\ (Freed(f, x)' <=> Freed(f, x))
  BY <1>1, <1>2, <1>4, <1>5, Names DEF IsSet, Freed
<1>7. TypeOK'
  <2>1. t' \in 1 .. 5 /\ i' \in 0 .. Len(list')
    BY <1>1, <1>3
  <2> QED
    BY <1>1, <1>2, <2>1 DEF Inv, TypeOK
<1>8. Where'
  BY <1>1, <1>2 DEF Inv, Where, Early, Parsing, Linking, Freeing, Over
<1>9. Called'
  <2>1. i' < Len(list') => p' = list'[1]
    BY <1>1, <1>3
  <2>2. call' # None /\ call' # "sweep" /\ call' # "destroy"
    BY <1>1, ElfAssumption
  <2>3. t' # 1 /\ arg' = (IF IsSet(k, Tables[t - 1]) THEN <<k, Tables[t - 1]>> ELSE Null)'
    BY <1>1, <1>2, <1>3, <1>5 DEF IsSet, BlockOf
  <2>4. arg' \in Blocks /\ arg' # DstSht => list' # <<>> /\ list'[1] = arg'
    <3>1. ASSUME arg' \in Blocks, arg' # DstSht
          PROVE  list # <<>> /\ list[1] = arg'
      <4>1. IsSet(k, Tables[t]) /\ arg' = <<k, Tables[t]>>
        BY <1>1, <3>1, ElfAssumption DEF IsSet, BlockOf
      <4> QED
        BY <1>1, <3>1, <4>1, FirstIsAsked
    <3> QED
      BY <1>1, <3>1
  <2> QED
    BY <1>1, <2>1, <2>2, <2>3, <2>4 DEF Called
<1>10. Allocated'
  <2>1. Reach' = Reach
    BY <1>1 DEF Reach
  <2> QED
    BY <1>1, <1>2, <1>4, <1>6, <2>1, Names DEF Inv, Allocated, TableNames
<1>11. Status'
  BY <1>1, <1>6 DEF Inv, Status
<1>12. Listed'
  BY <1>1, Names DEF Inv, Listed, Called
<1>13. Events'
  BY <1>1, <1>2, Names DEF Inv, Events
<1>14. Released'
  BY <1>1, <1>2, <1>4 DEF Inv, Released
<1>15. NothingDangling'
  BY <1>1, <1>2 DEF NothingDangling
<1> QED
  BY <1>7, <1>8, <1>9, <1>10, <1>11, <1>12, <1>13, <1>14, <1>15 DEF Inv

Others == <<n, k, elf, dict, tries, events, e, misused, pc, released, t>>

\* The block that a turn looks at is on the list.
LEMMA LooksAtListed ==
  ASSUME Inv, call # None, i < Len(list)
  PROVE  /\ list # <<>> /\ Len(list) \in Nat \ {0} /\ i \in 0 .. Len(list) - 1
         /\ p = (IF i = 0 THEN list[1] ELSE list[Len(list)])
         /\ p \in ToSet(list) /\ p \in Blocks
         /\ call # "destroy" => block[p] = "live"
<1>1. list \in Seq(Blocks) /\ i \in 0 .. Len(list)
  BY DEF Inv, TypeOK
<1>2. list # <<>> /\ Len(list) \in Nat \ {0} /\ i \in 0 .. Len(list) - 1
      /\ 1 \in 1 .. Len(list) /\ Len(list) \in 1 .. Len(list)
  BY <1>1
<1>3. p = IF i = 0 THEN list[1] ELSE list[Len(list)]
  BY DEF Inv, Called
<1>4. p \in ToSet(list) /\ p \in Blocks
  BY <1>1, <1>2, <1>3, InToSet
<1>5. call # "destroy" => block[p] = "live"
  BY <1>4, OnList
<1> QED
  BY <1>2, <1>3, <1>4, <1>5

LEMMA LastRank ==
  ASSUME NEW b \in Blocks
  PROVE  RankOf(b) <= RankOf(DstSht)
<1>1. PICK f \in Elfs, x \in TableNames : b = <<f, x>>
  BY Names
<1>2. f \in 0 .. MaxSources /\ MaxSources \in Nat /\ Base = 4 * MaxSources + 4 /\ Index[x] \in 1 .. 4
  BY ElfAssumption, TableIndex DEF Elfs, Base
<1>3. RankOf(DstSht) = Base + 1
  BY DEF RankOf, DstSht, Rank
<1>4. RankOf(b) = Rank(f, x)
  BY <1>1 DEF RankOf
<1> QED
  BY <1>2, <1>3, <1>4 DEF Rank

\* The search for the section table of the linked elf does not find it.
LEMMA DstShtIsMissed ==
  ASSUME Inv, call = "free", arg = DstSht, i < Len(list)
  PROVE  p # arg
<1>1. /\ pc = "freeing" /\ t # 1 /\ t \in 1 .. 5
      /\ arg = IF IsSet(k, Tables[t - 1]) THEN <<k, Tables[t - 1]>> ELSE Null
  BY DEF Inv, Called, TypeOK
<1>2. pc \in Freeing /\ pc \notin Over /\ call # "destroy"
  BY <1>1 DEF Freeing, Over
<1>3. IsSet(k, Tables[t - 1]) /\ k = Dst /\ Tables[t - 1] = "sht"
  BY <1>1, Names, ElfAssumption DEF DstSht
<1>4. Due = 1
  <2>1. t - 1 \in 1 .. 4
    BY <1>1
  <2>2. t - 1 = 1
    BY <1>3, <2>1, TableIndex
  <2> QED
    BY <2>2 DEF Due
<1>5. IsSet(Dst, "symt") /\ IsSet(Dst, "sht") /\ ~Freed(Dst, "symt") /\ ~Freed(Dst, "sht")
  BY <1>2, <1>3, <1>4 DEF Inv, Allocated, Freed
<1>6. block[DstSht] = "live" /\ block[DstSymt] = "live"
  BY <1>5, Names DEF Inv, Status, DstSht, DstSymt
<1>7. DstSht \in ToSet(list) /\ DstSymt \in ToSet(list)
  BY <1>2, <1>6, Names DEF Inv, Listed
<1>8. \A b \in ToSet(list) : RankOf(b) <= RankOf(DstSht)
  BY <1>2, OnList, LastRank
<1>9. call # None
  BY ElfAssumption
<1>10. /\ i \in 0 .. Len(list) - 1 /\ p = (IF i = 0 THEN list[1] ELSE list[Len(list)])
       /\ list \in Seq(Blocks) /\ OrderedAt(list, i) /\ DstSymt # DstSht
  BY <1>9, LooksAtListed DEF Inv, TypeOK, Listed, DstSymt, DstSht
<1> QED
  BY <1>7, <1>8, <1>10, LastIsMissed

\* A turn of tag_free or tag_sweep that frees nothing.
LEMMA TurnPasses ==
  ASSUME Inv, call \in {"free", "sweep"}, i < Len(list), Advance, undefined' = FALSE,
         call = "free" => arg \notin Blocks \/ arg = DstSht,
         UNCHANGED <<created, block, tag, call, arg>>, UNCHANGED Others
  PROVE  Inv'
<1>1. call # None /\ call # "destroy"
  BY ElfAssumption
<1>2. /\ list # <<>> /\ Len(list) \in Nat \ {0} /\ i \in 0 .. Len(list) - 1
      /\ list \in Seq(Blocks)
  BY <1>1, LooksAtListed DEF Inv, TypeOK
<1>3. list' = Append(Tail(list), Head(list)) /\ p' = Head(list) /\ i' = i + 1 /\ Head(list) = list[1]
  BY <1>2 DEF Advance, Rotated
<1>4. /\ list' \in Seq(Blocks) /\ Len(list') = Len(list) /\ list'[Len(list)] = list[1]
      /\ ToSet(list') = ToSet(list)
  BY <1>2, <1>3, Turned
<1>5. OrderedAt(list', i')
  <2>1. OrderedAt(list, i)
    BY DEF Inv, Listed
  <2> QED
    BY <1>2, <1>3, <2>1, OrderedTurn
<1>6. UNCHANGED <<n, k, elf, dict, tries, events, e, misused, pc, released, t>>
  BY DEF Others
<1>7. \A f \in Elfs, x \in TableNames :
        (IsSet(f, x)' <=> IsSet(f, x)) /\ (Freed(f, x)' <=> Freed(f, x))
  <2>1. Due' = Due
    BY <1>6 DEF Due
  <2> QED
    BY <1>1, <1>6, <2>1 DEF IsSet, Freed
<1>8. TypeOK'
  <2>1. i' \in 0 .. Len(list')
    BY <1>2, <1>3, <1>4
  <2> QED
    BY <1>4, <1>6, <2>1 DEF Inv, TypeOK
<1>9. Where'
  BY <1>6 DEF Inv, Where
<1>10. Called'
  <2>1. p' = list'[Len(list')] /\ i' # 0
    BY <1>2, <1>3, <1>4
  <2>2. call = "free" => arg = (IF IsSet(k, Tables[t - 1]) THEN <<k, Tables[t - 1]>> ELSE Null)'
    BY <1>6 DEF Inv, Called, IsSet
  <2> QED
    BY <1>1, <1>6, <2>1, <2>2 DEF Inv, Called
<1>11. Allocated'
  <2>1. Reach' = Reach
    BY <1>6 DEF Reach
  <2> QED
    BY <1>6, <1>7, <2>1, Names DEF Inv, Allocated, TableNames
<1>12. Status'
  BY <1>7 DEF Inv, Status
<1>13. Listed'
  BY <1>1, <1>4, <1>5 DEF Inv, Listed
<1>14. Events'
  <2>1. pc # "done"
    BY <1>1 DEF Inv, Called
  <2> QED
    BY <1>6, <2>1 DEF Inv, Events
<1>15. Released'
  BY <1>6, <1>7 DEF Inv, Released, IsSet
<1>16. NothingDangling'
  BY <1>6 DEF Inv, NothingDangling
<1> QED
  BY <1>8, <1>9, <1>10, <1>11, <1>12, <1>13, <1>14, <1>15, <1>16 DEF Inv

LEMMA FreePassesKeeps ==
  ASSUME Inv, FreePasses, UNCHANGED Others
  PROVE  Inv'
<1>1. /\ call = "free" /\ i < Len(list) /\ p # arg /\ Advance
      /\ undefined' = (block[p] = "freed") /\ UNCHANGED <<created, block, tag, call, arg>>
  BY DEF FreePasses, Turning
<1>2. call # None /\ call # "destroy"
  BY <1>1, ElfAssumption
<1>3. undefined' = FALSE
  BY <1>1, <1>2, LooksAtListed
<1>4. arg \notin Blocks \/ arg = DstSht
  BY <1>1, <1>2, LooksAtListed DEF Inv, Called
<1> QED
  BY <1>1, <1>3, <1>4, TurnPasses

LEMMA SweepTurnKeeps ==
  ASSUME Inv, SweepTurn, UNCHANGED Others
  PROVE  Inv'
<1>1. call = "sweep" /\ i < Len(list) /\ Advance /\ UNCHANGED <<created, tag, call, arg>>
  BY DEF SweepTurn, Turning
<1>2. call # None /\ call # "destroy"
  BY <1>1, ElfAssumption
<1>3. p \in Blocks /\ block[p] = "live"
  BY <1>1, <1>2, LooksAtListed
<1>4. tag[p] # arg
  BY <1>1, <1>3, ElfAssumption DEF Inv, TypeOK, Called
<1>5. undefined' = FALSE /\ UNCHANGED block
  BY <1>3, <1>4 DEF SweepTurn
<1> QED
  BY <1>1, <1>5, TurnPasses

LEMMA DestroyTurnKeeps ==
  ASSUME Inv, DestroyTurn, UNCHANGED Others
  PROVE  Inv'
<1>1. /\ call = "destroy" /\ i < Len(list) /\ Advance /\ UNCHANGED <<created, tag, call, arg>>
      /\ undefined' = (block[p] = "freed") /\ block' = [block EXCEPT ![p] = "freed"]
  BY DEF DestroyTurn, Turning, Release
<1>2. call # None
  BY <1>1, ElfAssumption
<1>3. /\ list = <<DstSht>> /\ Len(list) = 1 /\ i = 0 /\ p = DstSht /\ pc = "cleanup"
  <2>1. list = <<DstSht>> /\ pc = "cleanup"
    BY <1>1 DEF Inv, Listed, Called
  <2>2. Len(list) = 1 /\ list[1] = DstSht
    BY <2>1
  <2> QED
    BY <1>1, <1>2, <2>1, <2>2, LooksAtListed
<1>4. list' = list /\ i' = 1 /\ p' = DstSht
  <2>1. Head(list) = DstSht /\ Tail(list) = <<>> /\ Append(<<>>, DstSht) = <<DstSht>>
    BY <1>3
  <2> QED
    BY <1>1, <1>3, <2>1 DEF Advance, Rotated
<1>5. UNCHANGED <<n, k, elf, dict, tries, events, e, misused, pc, released, t>>
  BY DEF Others
<1>6. pc \in Over /\ pc \notin Freeing
  BY <1>3 DEF Over, Freeing
<1>7. ASSUME NEW f \in Elfs, NEW x \in TableNames
      PROVE  /\ IsSet(f, x)' <=> IsSet(f, x)
             /\ <<f, x>> # DstSht => (Freed(f, x)' <=> Freed(f, x))
             /\ <<f, x>> = DstSht => Freed(f, x)'
  BY <1>1, <1>4, <1>5, <1>6 DEF IsSet, Freed
<1>8. block[DstSht] = "live"
  <2>1. created /\ IsSet(Dst, "sht")
    BY <1>1, <1>3 DEF Inv, Listed, Allocated
  <2>2. ~Freed(Dst, "sht")
    BY <1>3, <1>6, <2>1 DEF Freed, DstSht
  <2> QED
    BY <2>1, <2>2, Names DEF Inv, Status, DstSht
<1>9. /\ block' = [block EXCEPT ![DstSht] = "freed"] /\ undefined' = FALSE
      /\ block \in [Blocks -> {"unused", "live", "freed"}] /\ DstSht \in Blocks
  BY <1>1, <1>3, <1>8, Names DEF Inv, TypeOK
<1>10. TypeOK'
  <2>1. i' \in 0 .. Len(list') /\ block' \in [Blocks -> {"unused", "live", "freed"}]
    BY <1>3, <1>4, <1>9
  <2> QED
    BY <1>1, <1>4, <1>5, <2>1 DEF Inv, TypeOK
<1>11. Where'
  BY <1>5 DEF Inv, Where
<1>12. Called'
  <2>1. ~(i' < Len(list')) /\ call' # "free" /\ call' # "sweep" /\ call' # None
    BY <1>1, <1>2, <1>3, <1>4
  <2> QED
    BY <1>3, <1>5, <2>1 DEF Called
<1>13. Allocated'
  <2>1. Reach' = Reach
    BY <1>5 DEF Reach
  <2> QED
    BY <1>1, <1>5, <1>6, <1>7, <2>1, Names DEF Inv, Allocated, TableNames
<1>14. Status'
  <2>1. ASSUME NEW f \in Elfs, NEW x \in TableNames
        PROVE  block'[<<f, x>>] = IF ~IsSet(f, x)' THEN "unused"
                                  ELSE IF Freed(f, x)' THEN "freed" ELSE "live"
    <3>1. <<f, x>> \in Blocks
      BY Names
    <3>2. block[<<f, x>>] = IF ~IsSet(f, x) THEN "unused" ELSE IF Freed(f, x) THEN "freed" ELSE "live"
      BY DEF Inv, Status
    <3>3. CASE <<f, x>> = DstSht
      <4>1. IsSet(f, x)' /\ Freed(f, x)'
        BY <1>7, <1>8, <3>2, <3>3
      <4> QED
        BY <1>9, <3>3, <4>1
    <3>4. CASE <<f, x>> # DstSht
      <4>1. block'[<<f, x>>] = block[<<f, x>>]
        BY <1>9, <3>1, <3>4
      <4> QED
        BY <1>7, <3>2, <3>4, <4>1
    <3> QED
      BY <3>3, <3>4
  <2> QED
    BY <2>1, Zenon DEF Status
<1>15. Listed'
  <2>1. OrderedAt(list', i')
    BY <1>3, <1>4 DEF OrderedAt, Home
  <2> QED
    BY <1>1, <1>4, <2>1 DEF Inv, Listed
<1>16. Events'
  BY <1>1, <1>3, <1>5 DEF Inv, Events
<1>17. Released'
  BY <1>5, <1>7 DEF Inv, Released, IsSet
<1>18. NothingDangling'
  BY <1>5, <1>9 DEF Inv, NothingDangling
<1> QED
  BY <1>10, <1>11, <1>12, <1>13, <1>14, <1>15, <1>16, <1>17, <1>18 DEF Inv

\* When tag_free returns, the table that it was called for is the next one that
\* free_elf has dealt with.
LEMMA FreeReturns ==
  ASSUME Inv, call = "free", call' = None, UNCHANGED Others, UNCHANGED created,
         NEW f \in Elfs, NEW x \in TableNames, IsSet(f, x)
  PROVE  /\ <<f, x>> # arg => (Freed(f, x)' <=> Freed(f, x))
         /\ <<f, x>> = arg => Freed(f, x)' \/ arg = DstSht
         /\ arg = DstSht => (Freed(f, x)' <=> Freed(f, x))
<1>1. /\ pc = "freeing" /\ t \in 1 .. 5 /\ t # 1 /\ k \in Nat
      /\ arg = IF IsSet(k, Tables[t - 1]) THEN <<k, Tables[t - 1]>> ELSE Null
  BY DEF Inv, TypeOK, Called
<1>2. UNCHANGED <<k, elf, pc, t>>
  BY DEF Others
<1>3. pc \in Freeing /\ pc \notin Over
  BY <1>1 DEF Freeing, Over
<1>4. Due = t - 1 /\ Due' = t
  BY <1>2, Names, ElfAssumption DEF Due
<1>5. t - 1 \in 1 .. 4 /\ Index[x] \in 1 .. 4
  BY <1>1, TableIndex
<1>6. x = Tables[t - 1] <=> Index[x] = t - 1
  BY <1>5, TableIndex
<1>7. <<f, x>> = arg <=> f = k /\ Index[x] = t - 1
  <2>1. <<f, x>> \in Blocks /\ Null \notin Blocks
    BY Names, ElfAssumption
  <2>2. CASE IsSet(k, Tables[t - 1])
    BY <1>1, <1>6, <2>2
  <2>3. CASE ~IsSet(k, Tables[t - 1])
    BY <1>1, <1>6, <2>1, <2>3
  <2> QED
    BY <2>2, <2>3
<1>8. CASE f # Dst
  <2>1. /\ Freed(f, x) <=> k = Dst \/ f < k \/ (f = k /\ Index[x] < t - 1)
        /\ Freed(f, x)' <=> k = Dst \/ f < k \/ (f = k /\ Index[x] < t)
    BY <1>2, <1>3, <1>4, <1>8 DEF Freed
  <2>2. Index[x] < t <=> Index[x] < t - 1 \/ Index[x] = t - 1
    BY <1>1, <1>5
  <2>3. arg = DstSht => f # k \/ k = Dst \/ Index[x] # t - 1
    BY <1>7, <1>8 DEF DstSht
  <2> QED
    BY <1>7, <2>1, <2>2, <2>3
<1>9. CASE f = Dst
  <2>1. /\ Freed(f, x) <=> k = Dst /\ x = "symt" /\ 2 < t - 1
        /\ Freed(f, x)' <=> k = Dst /\ x = "symt" /\ 2 < t
    BY <1>2, <1>3, <1>4, <1>9 DEF Freed
  <2>2. x = "sht" \/ x = "symt"
    BY <1>9 DEF Inv, Allocated, TableNames
  <2>3. CASE x = "sht"
    BY <1>9, <2>1, <2>3 DEF DstSht
  <2>4. CASE x = "symt"
    <3>1. Index[x] = 2 /\ (2 < t <=> 2 < t - 1 \/ t - 1 = 2)
      BY <1>1, <2>4, TableIndex
    <3>2. arg = DstSht => t - 1 = 1
      <4>1. ASSUME arg = DstSht PROVE t - 1 = 1
        <5>1. Tables[t - 1] = "sht"
          BY <1>1, <4>1, Names, ElfAssumption DEF DstSht
        <5> QED
          BY <1>5, <5>1, TableIndex
      <4> QED
        BY <4>1
    <3> QED
      BY <1>7, <1>9, <2>1, <2>4, <3>1, <3>2
  <2> QED
    BY <2>2, <2>3, <2>4
<1> QED
  BY <1>8, <1>9

LEMMA FreeFoundKeeps ==
  ASSUME Inv, FreeFound, UNCHANGED Others
  PROVE  Inv'
<1>1. /\ call = "free" /\ i < Len(list) /\ p = arg /\ call' = None /\ i' = 0
      /\ undefined' = (block[p] = "freed") /\ block' = [block EXCEPT ![p] = "freed"]
      /\ UNCHANGED <<created, tag>>
  BY DEF FreeFound, Turning, Release, Return
<1>2. PICK j \in DOMAIN list : list[j] = p /\ list' = RemoveAt(list, j)
  BY DEF FreeFound
<1>3. call # None /\ call # "destroy" /\ call' # "destroy" /\ call' # "free" /\ call' # "sweep"
  BY <1>1, ElfAssumption
<1>4. p \in Blocks /\ block[p] = "live" /\ list \in Seq(Blocks)
  BY <1>1, <1>3, LooksAtListed DEF Inv, TypeOK
<1>5. arg # DstSht
  BY <1>1, DstShtIsMissed
<1>6. i = 0 /\ list[1] = p /\ pc = "freeing"
  BY <1>1, <1>4, <1>5 DEF Inv, Called
<1>7. /\ list' \in Seq(Blocks) /\ OrderedAt(list', 0) /\ ToSet(list') = ToSet(list) \ {p}
  <2>1. OrderedAt(list, 0)
    BY <1>6 DEF Inv, Listed
  <2> QED
    BY <1>2, <1>4, <1>6, <2>1, OrderedRest
<1>8. UNCHANGED <<n, k, elf, dict, tries, events, e, misused, pc, released, t>>
  BY DEF Others
<1>9. \A f \in Elfs, x \in TableNames : IsSet(f, x)' <=> IsSet(f, x)
  BY <1>8 DEF IsSet
<1>10. pc \notin Over /\ pc # "done"
  BY <1>6 DEF Over
<1>11. TypeOK'
  <2>1. i' \in 0 .. Len(list')
    BY <1>1, <1>7
  <2>2. block' \in [Blocks -> {"unused", "live", "freed"}]
    BY <1>1, <1>4 DEF Inv, TypeOK
  <2> QED
    BY <1>1, <1>7, <1>8, <2>1, <2>2 DEF Inv, TypeOK
<1>12. Where'
  BY <1>8 DEF Inv, Where
<1>13. Called'
  BY <1>1, <1>3 DEF Called
<1>14. Allocated'
  <2>1. Reach' = Reach
    BY <1>8 DEF Reach
  <2> QED
    BY <1>1, <1>8, <1>9, <2>1, Names DEF Inv, Allocated, TableNames
<1>15. Status'
  <2>1. ASSUME NEW f \in Elfs, NEW x \in TableNames
        PROVE  block'[<<f, x>>] = IF ~IsSet(f, x)' THEN "unused"
                                  ELSE IF Freed(f, x)' THEN "freed" ELSE "live"
    <3>1. <<f, x>> \in Blocks /\ block \in [Blocks -> {"unused", "live", "freed"}]
      BY Names DEF Inv, TypeOK
    <3>2. block[<<f, x>>] = IF ~IsSet(f, x) THEN "unused" ELSE IF Freed(f, x) THEN "freed" ELSE "live"
      BY DEF Inv, Status
    <3>3. IsSet(f, x) => /\ <<f, x>> # arg => (Freed(f, x)' <=> Freed(f, x))
                         /\ <<f, x>> = arg => Freed(f, x)'
      BY <1>1, <1>5, FreeReturns
    <3>4. CASE <<f, x>> = p
      <4>1. IsSet(f, x)' /\ Freed(f, x)'
        BY <1>1, <1>4, <1>9, <3>2, <3>3, <3>4
      <4> QED
        BY <1>1, <3>1, <3>4, <4>1
    <3>5. CASE <<f, x>> # p
      <4>1. block'[<<f, x>>] = block[<<f, x>>]
        BY <1>1, <3>1, <3>5
      <4> QED
        BY <1>1, <1>9, <3>2, <3>3, <3>5, <4>1
    <3> QED
      BY <3>4, <3>5
  <2> QED
    BY <2>1, Zenon DEF Status
<1>16. Listed'
  <2>1. ASSUME NEW c \in Blocks
        PROVE  c \in ToSet(list') <=> block'[c] = "live"
    <3>1. c \in ToSet(list) <=> block[c] = "live"
      BY <1>3 DEF Inv, Listed
    <3>2. block \in [Blocks -> {"unused", "live", "freed"}]
      BY DEF Inv, TypeOK
    <3> QED
      BY <1>1, <1>4, <1>7, <3>1, <3>2
  <2> QED
    BY <1>1, <1>3, <1>7, <2>1 DEF Listed
<1>17. Events'
  BY <1>1, <1>3, <1>8, <1>10 DEF Inv, Events
<1>18. Released'
  BY <1>8, <1>9 DEF Inv, Released, IsSet
<1>19. NothingDangling'
  BY <1>1, <1>4, <1>8 DEF Inv, NothingDangling
<1> QED
  BY <1>11, <1>12, <1>13, <1>14, <1>15, <1>16, <1>17, <1>18, <1>19 DEF Inv

\* tag_free has found nothing, or tag_sweep has looked at all of the list.
LEMMA LoopEndsKeeps ==
  ASSUME Inv, LoopEnds, call # "destroy", UNCHANGED Others
  PROVE  Inv'
<1>1. /\ call # None /\ i = Len(list) /\ call' = None /\ i' = 0
      /\ UNCHANGED <<list, created, block, tag, undefined>>
  BY DEF LoopEnds, Return
<1>2. call' # "destroy" /\ call' # "free" /\ call' # "sweep" /\ call \in {"free", "sweep"}
  BY <1>1, ElfAssumption DEF Inv, TypeOK
<1>3. UNCHANGED <<n, k, elf, dict, tries, events, e, misused, pc, released, t>>
  BY DEF Others
<1>4. call = "free" => arg \notin Blocks \/ arg = DstSht
  <2>1. ASSUME call = "free", arg \in Blocks, arg # DstSht
        PROVE  FALSE
    <3>1. i = 0 /\ list # <<>> /\ list \in Seq(Blocks)
      BY <2>1 DEF Inv, Called, TypeOK
    <3> QED
      BY <1>1, <3>1, EmptySeq
  <2> QED
    BY <2>1
<1>5. ASSUME NEW f \in Elfs, NEW x \in TableNames
      PROVE  /\ IsSet(f, x)' <=> IsSet(f, x)
             /\ IsSet(f, x) => (Freed(f, x)' <=> Freed(f, x))
  <2>1. IsSet(f, x)' <=> IsSet(f, x)
    BY <1>3 DEF IsSet
  <2>2. CASE call = "free"
    <3>1. <<f, x>> \in Blocks
      BY Names
    <3> QED
      BY <1>1, <1>4, <2>1, <2>2, <3>1, FreeReturns
  <2>3. CASE call # "free"
    <3>1. Due' = Due
      BY <1>2, <1>3, <2>3 DEF Due
    <3> QED
      BY <1>1, <1>2, <1>3, <2>1, <3>1 DEF Freed
  <2> QED
    BY <2>2, <2>3
<1>6. TypeOK'
  <2>1. i' \in 0 .. Len(list')
    BY <1>1 DEF Inv, TypeOK
  <2> QED
    BY <1>1, <1>3, <2>1 DEF Inv, TypeOK
<1>7. Where'
  BY <1>3 DEF Inv, Where
<1>8. Called'
  BY <1>1, <1>2 DEF Called
<1>9. Allocated'
  <2>1. Reach' = Reach
    BY <1>3 DEF Reach
  <2> QED
    BY <1>1, <1>3, <1>5, <2>1, Names DEF Inv, Allocated, TableNames
<1>10. Status'
  BY <1>1, <1>5, Zenon DEF Inv, Status
<1>11. Listed'
  <2>1. OrderedAt(list', 0)
    <3>1. list \in Seq(Blocks) /\ OrderedAt(list, Len(list))
      BY <1>1 DEF Inv, TypeOK, Listed
    <3> QED
      BY <1>1, <3>1, OrderedFull
  <2> QED
    BY <1>1, <1>2, <2>1 DEF Inv, Listed
<1>12. Events'
  <2>1. pc # "done"
    BY <1>1 DEF Inv, Events
  <2> QED
    BY <1>1, <1>2, <1>3, <2>1 DEF Inv, Events
<1>13. Released'
  BY <1>3, <1>5 DEF Inv, Released, IsSet
<1>14. NothingDangling'
  BY <1>1, <1>3 DEF Inv, NothingDangling
<1> QED
  BY <1>6, <1>7, <1>8, <1>9, <1>10, <1>11, <1>12, <1>13, <1>14 DEF Inv

LEMMA DestroyReturnsKeeps ==
  ASSUME Inv, LoopEnds, call = "destroy", UNCHANGED Others
  PROVE  Inv'
<1>1. /\ i = Len(list) /\ call' = None /\ i' = 0 /\ list' = <<>> /\ created' = FALSE
      /\ UNCHANGED <<block, tag, undefined>>
  BY DEF LoopEnds, Return
<1>2. call' # "destroy" /\ call' # "free" /\ call' # "sweep" /\ call # None
  BY <1>1, ElfAssumption
<1>3. UNCHANGED <<n, k, elf, dict, tries, events, e, misused, pc, released, t>>
  BY DEF Others
<1>4. list = <<DstSht>> /\ Len(list) = 1 /\ i = 1 /\ pc = "cleanup" /\ created
  <2>1. list = <<DstSht>> /\ pc = "cleanup" /\ created
    BY DEF Inv, Listed, Called
  <2> QED
    BY <1>1, <2>1
<1>5. pc \in Over /\ pc \notin Freeing
  BY <1>4 DEF Over, Freeing
<1>6. ASSUME NEW f \in Elfs, NEW x \in TableNames
      PROVE  (IsSet(f, x)' <=> IsSet(f, x)) /\ Freed(f, x) /\ Freed(f, x)'
  BY <1>1, <1>3, <1>4, <1>5 DEF IsSet, Freed
<1>7. TypeOK'
  <2>1. list' \in Seq(Blocks) /\ i' \in 0 .. Len(list')
    BY <1>1
  <2> QED
    BY <1>1, <1>3, <2>1 DEF Inv, TypeOK
<1>8. Where'
  BY <1>3 DEF Inv, Where
<1>9. Called'
  BY <1>1, <1>2 DEF Called
<1>10. Allocated'
  <2>1. Reach' = Reach
    BY <1>3 DEF Reach
  <2> QED
    BY <1>1, <1>3, <1>5, <1>6, <2>1, Names DEF Inv, Allocated, TableNames
<1>11. Status'
  BY <1>1, <1>6, Zenon DEF Inv, Status
<1>12. Listed'
  <2>1. ToSet(list') = {}
    BY <1>1 DEF ToSet
  <2>2. ASSUME NEW c \in Blocks
        PROVE  block'[c] # "live"
    <3>1. PICK f \in Elfs, x \in TableNames : c = <<f, x>>
      BY Names
    <3> QED
      BY <1>1, <1>6, <3>1 DEF Inv, Status
  <2> QED
    BY <1>1, <1>2, <2>1, <2>2, EmptyInOrder DEF Listed
<1>13. Events'
  BY <1>1, <1>3, <1>4 DEF Inv, Events
<1>14. Released'
  BY <1>3, <1>6 DEF Inv, Released, IsSet
<1>15. NothingDangling'
  BY <1>1, <1>3 DEF Inv, NothingDangling
<1> QED
  BY <1>7, <1>8, <1>9, <1>10, <1>11, <1>12, <1>13, <1>14, <1>15 DEF Inv

LEMMA TagTurnKeeps ==
  ASSUME Inv, TagTurn
  PROVE  Inv'
<1>1. UNCHANGED Others
  BY DEF TagTurn, Others, file_vars, shared_vars
<1>2. Turn
  BY DEF TagTurn
<1> QED
  BY <1>1, <1>2, FreeFoundKeeps, FreePassesKeeps, SweepTurnKeeps, DestroyTurnKeeps,
     LoopEndsKeeps, DestroyReturnsKeeps DEF Turn

-----------------------------------------------------------------------------
(* Writing the file and freeing the elfs                                   *)

LEMMA WriteEofKeeps ==
  ASSUME Inv, WriteEof
  PROVE  Inv'
<1>1. call = None /\ pc = "merge" /\ misused = FALSE
  BY DEF WriteEof, Ready, Idle
<1>2. CASE Stopped
  BY <1>1, <1>2, StoppedKeeps
<1>3. CASE ~Stopped
  <2>1. /\ dict' = "freed" /\ misused' = (dict = "freed") /\ pc' = "free" /\ k' = 1 /\ t' = 1
        /\ UNCHANGED <<tag_vars, n, elf, tries, events, e, released>>
    BY <1>3 DEF WriteEof
  <2>2. /\ pc \in Early /\ pc' \in Freeing /\ pc' \notin Over /\ pc \notin Over /\ pc' \notin Early
        /\ pc \notin Freeing
    BY <1>1, <2>1 DEF Early, Linking, Parsing, Freeing, Over
  <2>3. n \in 1 .. MaxSources /\ MaxSources \in Nat /\ dict = "live"
    BY <1>1, ElfAssumption DEF Inv, TypeOK, Where, Linking
  <2>4. UNCHANGED <<list, created, block, tag, call, i>>
    BY <2>1 DEF tag_vars
  <2>5. ASSUME NEW f \in Elfs, NEW x \in TableNames
        PROVE  /\ IsSet(f, x)' <=> IsSet(f, x)
               /\ ~Freed(f, x) /\ ~Freed(f, x)'
    <3>1. f \in Nat /\ Index[x] \in 1 .. 4
      BY ElfAssumption, TableIndex DEF Elfs
    <3>2. Due' = 1
      BY <1>1, <2>1, <2>4, Names DEF Due
    <3> QED
      BY <2>1, <2>2, <3>1, <3>2, NotFreedEarly DEF IsSet, Freed, Dst
  <2>6. Called' /\ Status' /\ Listed' /\ undefined' = FALSE
    BY <1>1, <2>1, <2>5, NoCall
  <2>7. TypeOK'
    BY <2>1, <2>3, <2>4 DEF Inv, TypeOK
  <2>8. Where'
    BY <2>1, <2>3 DEF Where, Early, Linking, Parsing, Freeing, Over
  <2>9. Allocated'
    <3>1. Reach' = Reach
      BY <1>1, <2>1 DEF Reach
    <3>2. IsSet(Dst, "symt") /\ IsSet(Dst, "sht")
      BY <1>1 DEF Inv, Allocated
    <3> QED
      BY <2>1, <2>2, <2>4, <2>5, <3>1, <3>2, Names DEF Inv, Allocated, TableNames
  <2>10. Events'
    BY <1>1, <2>1, <2>4 DEF Inv, Events
  <2>11. Released'
    <3>1. \A f \in 1 .. n : ~released[f]
      BY <2>2 DEF Inv, Released
    <3>2. k' = 1 /\ 1 # Dst /\ n' = n /\ \A f \in 1 .. n : ~(f < 1)
      BY <2>1 DEF Dst
    <3> QED
      BY <2>1, <2>2, <3>1, <3>2 DEF Released
  <2>12. misused' = FALSE
    BY <2>1, <2>3
  <2> QED
    BY <2>6, <2>7, <2>8, <2>9, <2>10, <2>11, <2>12 DEF Inv, NothingDangling
<1> QED
  BY <1>2, <1>3

LEMMA FreeNextKeeps ==
  ASSUME Inv, FreeNext
  PROVE  Inv'
<1>1. call = None /\ pc = "freeing" /\ misused = FALSE /\ t < 5 /\ pc' = "free"
      /\ UNCHANGED <<tag_vars, n, k, elf, dict, tries, events, e, misused, released, t>>
  BY DEF FreeNext, Ready, Idle, file_vars, shared_vars
<1>2. /\ pc \in Freeing /\ pc' \in Freeing /\ pc' \notin Over /\ pc \notin Over /\ t # 5
  BY <1>1 DEF Freeing, Over
<1>3. UNCHANGED <<list, created, block, tag, call, i>>
  BY <1>1 DEF tag_vars
<1>4. \A f \in Elfs, x \in TableNames :
        (IsSet(f, x)' <=> IsSet(f, x)) /\ (Freed(f, x)' <=> Freed(f, x))
  <2>1. Due' = Due
    BY <1>1, <1>3 DEF Due
  <2> QED
    BY <1>1, <1>2, <2>1 DEF IsSet, Freed
<1>5. Called' /\ Status' /\ Listed' /\ undefined' = FALSE
  BY <1>1, <1>4, NoCall
<1>6. TypeOK'
  BY <1>1, <1>3 DEF Inv, TypeOK
<1>7. Where'
  BY <1>1, <1>2 DEF Inv, Where, Early, Linking, Parsing, Freeing, Over
<1>8. Allocated'
  <2>1. Reach' = Reach
    BY <1>1 DEF Reach
  <2> QED
    BY <1>1, <1>2, <1>3, <1>4, <2>1, Names DEF Inv, Allocated, TableNames
<1>9. Events'
  BY <1>1, <1>3 DEF Inv, Events
<1>10. Released'
  BY <1>1, <1>2 DEF Inv, Released
<1> QED
  BY <1>1, <1>5, <1>6, <1>7, <1>8, <1>9, <1>10 DEF Inv, NothingDangling

LEMMA FreeElfReturnsKeeps ==
  ASSUME Inv, FreeElfReturns
  PROVE  Inv'
<1>1. /\ call = None /\ pc = "freeing" /\ misused = FALSE /\ t = 5 /\ t' = 1
      /\ released' = [released EXCEPT ![k] = TRUE]
      /\ k' = (IF k = n THEN Dst ELSE k + 1) /\ pc' = (IF k = Dst THEN "cleanup" ELSE "free")
      /\ UNCHANGED <<tag_vars, n, elf, dict, tries, events, e, misused>>
  BY DEF FreeElfReturns, Ready, Idle, shared_vars
<1>2. pc \in Freeing /\ pc \notin Over /\ pc \notin Early
  BY <1>1 DEF Freeing, Over, Early, Linking, Parsing
<1>3. /\ k \in 0 .. n /\ n \in 1 .. MaxSources /\ MaxSources \in Nat /\ k \in Elfs /\ k \in Nat
      /\ dict # "live" /\ released \in [Elfs -> BOOLEAN] /\ n \in Nat
  BY <1>2, ElfAssumption DEF Inv, TypeOK, Where, Elfs
<1>4. UNCHANGED <<list, created, block, tag, call, i>>
  BY <1>1 DEF tag_vars
<1>5. \A f \in Elfs, x \in TableNames : IsSet(f, x)' <=> IsSet(f, x)
  BY <1>1 DEF IsSet
<1>6. created /\ IsSet(Dst, "sht") /\ IsSet(Dst, "symt")
  BY <1>2, Names DEF Inv, Allocated
<1>7. Due = 5 /\ Due' = 1
  BY <1>1, <1>4, Names DEF Due
<1>8. ASSUME NEW f \in Elfs, NEW x \in TableNames, IsSet(f, x)
      PROVE  Freed(f, x)' <=> Freed(f, x)
  <2>1. f \in Nat /\ f <= n /\ Index[x] \in 1 .. 4
    BY <1>8, ElfAssumption, TableIndex DEF Elfs, Inv, Allocated
  <2>2. CASE k = Dst
    <3>1. pc' \in Over /\ pc' \notin Freeing
      BY <1>1, <2>2 DEF Freeing, Over
    <3>2. Freed(f, x)' <=> <<f, x>> # DstSht
      BY <1>1, <1>4, <1>6, <3>1, Names DEF Freed
    <3>3. Freed(f, x) <=> f # Dst \/ x = "symt"
      BY <1>2, <1>7, <2>2 DEF Freed
    <3>4. f = Dst => x = "sht" \/ x = "symt"
      BY <1>8 DEF Inv, Allocated, TableNames
    <3> QED
      BY <3>2, <3>3, <3>4 DEF DstSht
  <2>3. CASE k # Dst
    <3>1. pc' \in Freeing /\ pc' \notin Over
      BY <1>1, <2>3 DEF Freeing, Over
    <3>2. Freed(f, x) <=> f # Dst /\ f <= k
      BY <1>2, <1>3, <1>7, <2>1, <2>3 DEF Freed
    <3>3. CASE k = n
      <4>1. k' = Dst
        BY <1>1, <3>3
      <4>2. Freed(f, x)' <=> f # Dst
        BY <1>7, <3>1, <4>1 DEF Freed
      <4> QED
        BY <2>1, <3>2, <3>3, <4>2
    <3>4. CASE k # n
      <4>1. k' = k + 1 /\ k' # Dst
        BY <1>1, <1>3, <3>4 DEF Dst
      <4>2. Freed(f, x)' <=> f # Dst /\ f < k'
        BY <1>7, <2>1, <3>1, <4>1 DEF Freed
      <4> QED
        BY <1>3, <2>1, <3>2, <4>1, <4>2
    <3> QED
      BY <3>3, <3>4
  <2> QED
    BY <2>2, <2>3
<1>9. Called' /\ Status' /\ Listed' /\ undefined' = FALSE
  BY <1>1, <1>5, <1>8, NoCall
<1>10. k' \in 0 .. MaxSources + 1 /\ (k # Dst => k' \in 0 .. n)
  BY <1>1, <1>3 DEF Dst
<1>11. TypeOK'
  BY <1>1, <1>3, <1>4, <1>10 DEF Inv, TypeOK
<1>12. Where'
  <2>1. CASE k = Dst
    BY <1>1, <1>3, <2>1 DEF Where, Early, Linking, Parsing, Freeing, Over
  <2>2. CASE k # Dst
    BY <1>1, <1>3, <1>10, <2>2 DEF Where, Early, Linking, Parsing, Freeing, Over
  <2> QED
    BY <2>1, <2>2
<1>13. Allocated'
  <2>1. Reach' = Reach
    BY <1>1 DEF Reach
  <2>2. pc' \in Freeing \cup Over
    BY <1>1 DEF Freeing, Over
  <2> QED
    BY <1>1, <1>2, <1>4, <1>5, <1>6, <2>1, <2>2, Names DEF Inv, Allocated, TableNames
<1>14. Events'
  <2>1. e = 0 /\ Holds(events, 0, "tag_destroy")
    BY <1>1, <1>6, Names DEF Inv, Events
  <2>2. events # Null
    <3>1. ASSUME events = Null PROVE FALSE
      BY <2>1, <3>1 DEF Holds, CountOf
    <3> QED
      BY <3>1
  <2>3. pc' # "done"
    BY <1>1
  <2> QED
    BY <1>1, <1>4, <2>1, <2>2, <2>3 DEF Inv, Events
<1>15. Released'
  <2>1. ASSUME NEW f \in 1 .. n
        PROVE  /\ released'[f] <=> released[f] \/ f = k
               /\ released[f] <=> f < k \/ k = Dst
    BY <1>2, <1>3, ElfAssumption, <1>1 DEF Inv, Released, Elfs
  <2>2. CASE k = Dst
    <3>1. pc' \in Over
      BY <1>1, <2>2 DEF Over
    <3> QED
      BY <1>1, <2>1, <2>2, <3>1 DEF Released
  <2>3. CASE k # Dst
    <3>1. pc' \in Freeing /\ pc' \notin Over
      BY <1>1, <2>3 DEF Freeing, Over
    <3>2. ASSUME NEW f \in 1 .. n
          PROVE  released'[f] <=> f < k' \/ k' = Dst
      <4>1. CASE k = n
        BY <1>1, <1>3, <2>1, <2>3, <4>1
      <4>2. CASE k # n
        <5>1. k' = k + 1 /\ k' # Dst
          BY <1>1, <1>3, <4>2 DEF Dst
        <5> QED
          BY <1>3, <2>1, <2>3, <5>1
      <4> QED
        BY <4>1, <4>2
    <3> QED
      BY <1>1, <3>1, <3>2 DEF Released
  <2> QED
    BY <2>2, <2>3
<1> QED
  BY <1>1, <1>9, <1>11, <1>12, <1>13, <1>14, <1>15 DEF Inv, NothingDangling

-----------------------------------------------------------------------------
(* Instructions and the end of the program                                 *)

LEMMA InstructionCycleKeeps ==
  ASSUME Inv, InstructionCycle
  PROVE  Inv'
<1>1. /\ call = None /\ pc \in {"read", "merge", "free", "cleanup"} /\ misused = FALSE
      /\ e = 0 /\ tries = "null" /\ tries' = "live" /\ add_cleanup_event("trie_cleanup")
      /\ UNCHANGED <<tag_vars, n, k, elf, dict, e, misused, pc, released, t>>
  BY DEF InstructionCycle, Ready, Idle, file_vars
<1>2. UNCHANGED <<list, created, block, tag, call, i>>
  BY <1>1 DEF tag_vars
<1>3. \A f \in Elfs, x \in TableNames :
        (IsSet(f, x)' <=> IsSet(f, x)) /\ (Freed(f, x)' <=> Freed(f, x))
  <2>1. Due' = Due
    BY <1>1, <1>2 DEF Due
  <2> QED
    BY <1>1, <1>2, <2>1 DEF IsSet, Freed
<1>4. Called' /\ Status' /\ Listed' /\ undefined' = FALSE
  BY <1>1, <1>3, NoCall
<1>5. TypeOK'
  BY <1>1, <1>2 DEF Inv, TypeOK
<1>6. Where'
  BY <1>1 DEF Inv, Where
<1>7. Allocated'
  <2>1. Reach' = Reach
    BY <1>1 DEF Reach
  <2> QED
    BY <1>1, <1>2, <1>3, <2>1, Names DEF Inv, Allocated, TableNames
<1>8. Events'
  <2>1. ArrayOK(events) /\ ~Holds(events, 0, "trie_cleanup")
        /\ (Holds(events, 0, "tag_destroy") <=> created)
    BY <1>1, Names DEF Inv, Events
  <2>2. /\ ArrayOK(events') /\ events' # Null /\ CountOf(events') \in Nat
        /\ \A other : Holds(events', 0, other) <=> Holds(events, 0, other) \/ other = "trie_cleanup"
    BY <1>1, <2>1, AddEvent DEF Funcs
  <2>3. (Holds(events', 0, "tag_destroy") <=> created) /\ Holds(events', 0, "trie_cleanup")
    BY <2>1, <2>2
  <2> QED
    BY <1>1, <1>2, <2>2, <2>3, Names DEF Events
<1>9. Released'
  BY <1>1, <1>3 DEF Inv, Released, IsSet
<1> QED
  BY <1>1, <1>4, <1>5, <1>6, <1>7, <1>8, <1>9 DEF Inv, NothingDangling

LEMMA OnlyInstructionsKeeps ==
  ASSUME Inv, OnlyInstructions
  PROVE  Inv'
<1>1. /\ call = None /\ pc = "read" /\ k = 1 /\ misused = FALSE /\ tries = "live" /\ pc' = "cleanup"
      /\ UNCHANGED <<tag_vars, n, k, elf, dict, tries, events, e, misused, released, t>>
  BY DEF OnlyInstructions, Ready, Idle, file_vars, shared_vars
<1>2. UNCHANGED <<list, created, block, tag, call, i>>
  BY <1>1 DEF tag_vars
<1>3. ASSUME NEW f \in Elfs, NEW x \in TableNames
      PROVE  ~IsSet(f, x) /\ ~IsSet(f, x)'
  <2>1. Reach = 4 /\ MaxSources \in Nat /\ f \in Nat /\ Index[x] \in 1 .. 4
        /\ Base = 4 * MaxSources + 4
    BY <1>1, ElfAssumption, TableIndex DEF Reach, Base, Elfs
  <2>2. Rank(f, x) \in Nat /\ Rank(f, x) >= 4
    BY <2>1 DEF Rank, Dst
  <2>3. ~(Rank(f, x) < Reach)
    BY <2>1, <2>2
  <2>4. ~IsSet(f, x)
    BY <2>3, Zenon DEF Inv, Allocated
  <2> QED
    BY <1>1, <2>4 DEF IsSet
<1>4. Called' /\ Status' /\ Listed' /\ undefined' = FALSE
  BY <1>1, <1>3, NoCall
<1>5. TypeOK'
  BY <1>1, <1>2 DEF Inv, TypeOK
<1>6. Where'
  BY <1>1 DEF Inv, Where, Early, Linking, Parsing, Freeing, Over
<1>7. ~created
  BY <1>1, <1>3 DEF Inv, Allocated, Over
<1>8. Allocated'
  <2>1. pc' \in Over /\ pc' \notin {"dst_sht", "merge"} \cup Freeing
    BY <1>1 DEF Over, Freeing
  <2> QED
    BY <1>2, <1>3, <1>7, <2>1, Names DEF Allocated, TableNames
<1>9. Events'
  <2>1. e = 0 /\ Holds(events, 0, "trie_cleanup")
    BY <1>1 DEF Inv, Events
  <2>2. events # Null
    <3>1. ASSUME events = Null PROVE FALSE
      BY <2>1, <3>1 DEF Holds, CountOf
    <3> QED
      BY <3>1
  <2> QED
    BY <1>1, <1>2, <2>1, <2>2 DEF Inv, Events
<1>10. Released'
  <2>1. pc' \in Over /\ \A f \in 1 .. n : f \in Elfs
    BY <1>1, ElfAssumption DEF Over, Inv, TypeOK, Elfs
  <2> QED
    BY <1>1, <1>3, <2>1 DEF Released
<1> QED
  BY <1>1, <1>4, <1>5, <1>6, <1>8, <1>9, <1>10 DEF Inv, NothingDangling

\* The event that is next, and those that come after it.
LEMMA NextEvent ==
  ASSUME ArrayOK(events), events # Null, e \in Nat, e < events.count,
         NEW d, d = e + 1
  PROVE  /\ array_get(events, e).ret = 1 /\ array_get(events, e).val = events.table[e]
         /\ events.table[e] \in Funcs /\ d <= CountOf(events)
         /\ \A func : Holds(events, e, func) <=> Holds(events, d, func) \/ events.table[e] = func
         /\ ~Holds(events, d, events.table[e])
<1>1. PICK s \in 1 .. 2 * EventSlots :
        events \in [size : {s}, count : 0 .. s, table : [0 .. s - 1 -> Funcs \cup {Unset}]]
  BY ArrayType DEF ArrayOK
<1>2. events.size = s /\ events.count \in 0 .. s /\ s \in Nat /\ CountOf(events) = events.count
  BY <1>1, ElfAssumption DEF CountOf
<1>3. e \in 0 .. events.count - 1 /\ d <= CountOf(events)
  BY <1>2
<1>4. events.table[e] \in Funcs
  BY <1>3 DEF ArrayOK
<1>5. array_get(events, e).ret = 1 /\ array_get(events, e).val = events.table[e]
  <2>1. ~(e > events.count) /\ e < events.size
    BY <1>2
  <2> QED
    BY <2>1 DEF array_get
<1>6. \A x : x \in e .. events.count - 1 <=> x = e \/ x \in d .. events.count - 1
  BY <1>2
<1>7. ASSUME NEW func
      PROVE  Holds(events, e, func) <=> Holds(events, d, func) \/ events.table[e] = func
  BY <1>2, <1>6, Zenon DEF Holds
<1>8. ~Holds(events, d, events.table[e])
  <2>1. \A x \in d .. events.count - 1 : x # e /\ x \in 0 .. events.count - 1
    BY <1>2
  <2>2. \A x \in d .. events.count - 1 : events.table[x] # events.table[e]
    BY <1>3, <2>1, Zenon DEF ArrayOK
  <2> QED
    BY <1>2, <2>2 DEF Holds
<1> QED
  BY <1>3, <1>4, <1>5, <1>7, <1>8

LEMMA RunEventKeeps ==
  ASSUME Inv, RunEvent
  PROVE  Inv'
<1>1. /\ call = None /\ undefined = FALSE /\ pc = "cleanup" /\ misused = FALSE
      /\ events # Null /\ e < events.count /\ e' = e + 1
      /\ UNCHANGED <<n, k, elf, dict, events, pc, released, t>>
  BY DEF RunEvent, Ready, Idle, file_vars
<1>2. e \in Nat /\ ArrayOK(events) /\ list \in Seq(Blocks) /\ e' \in Nat /\ e' # 0
  BY <1>1 DEF Inv, TypeOK, Events
<1> DEFINE func == events.table[e]
<1>3. /\ array_get(events, e).ret = 1 /\ array_get(events, e).val = func /\ func \in Funcs
      /\ e' <= CountOf(events)
      /\ \A g : Holds(events, e, g) <=> Holds(events, e', g) \/ func = g
      /\ ~Holds(events, e', func)
  BY <1>1, <1>2, NextEvent
<1> HIDE DEF func
<1>4. pc \in Over /\ pc \notin Freeing /\ pc # "done" /\ pc' = pc
  BY <1>1 DEF Over, Freeing
<1>5. /\ created => Holds(events, e, "tag_destroy")
      /\ tries = "live" <=> Holds(events, e, "trie_cleanup")
  BY <1>1, Names DEF Inv, Events
<1>6. \A f \in Elfs, x \in TableNames : IsSet(f, x)' <=> IsSet(f, x)
  BY <1>1 DEF IsSet
<1>7. Where' /\ Released' /\ Reach' = Reach
  BY <1>1, <1>6 DEF Inv, Where, Released, IsSet, Reach
<1>8. CASE func = "tag_destroy"
  <2>1. tag_destroy /\ UNCHANGED <<tries, misused>>
    BY <1>3, <1>8 DEF RunEvent
  <2>2. /\ created /\ call' = "destroy" /\ i' = 0
        /\ p' = (IF list = <<>> THEN None ELSE Head(list))
        /\ UNCHANGED <<list, created, block, tag, undefined>>
    BY <2>1 DEF tag_destroy, Begin
  <2>3. call' # None /\ call' # "free" /\ call' # "sweep"
    BY <2>2, ElfAssumption
  <2>4. \A f \in Elfs, x \in TableNames : Freed(f, x)' <=> Freed(f, x)
    BY <1>1, <1>4, <2>2, Names DEF Freed
  <2>5. TypeOK'
    <3>1. i' \in 0 .. Len(list')
      BY <1>2, <2>2
    <3> QED
      BY <1>1, <1>2, <2>2, <3>1 DEF Inv, TypeOK
  <2>6. list = <<DstSht>>
    <3>1. IsSet(Dst, "sht") /\ ~Freed(Dst, "sht")
      BY <1>1, <1>4, <2>2, Names DEF Inv, Allocated, Freed, DstSht
    <3>2. block[DstSht] = "live"
      BY <3>1, Names DEF Inv, Status, DstSht
    <3>3. DstSht \in ToSet(list)
      BY <1>1, <3>2, Names DEF Inv, Listed
    <3>4. ASSUME NEW c \in ToSet(list)
          PROVE  c = DstSht
      <4>1. PICK f \in Elfs, x \in TableNames : c = <<f, x>> /\ ~Freed(f, x)
        BY <1>1, <3>4, Names, OnList
      <4> QED
        BY <1>4, <4>1 DEF Freed
    <3>5. Len(list) \in Nat /\ \A j \in 1 .. Len(list) : list[j] = DstSht
      <4>1. ASSUME NEW j \in 1 .. Len(list)
            PROVE  list[j] = DstSht
        <5>1. list[j] \in ToSet(list)
          BY <1>2, InToSet
        <5> QED
          BY <3>4, <5>1
      <4> QED
        BY <1>2, <4>1
    <3>6. i = 0 /\ OrderedAt(list, 0)
      BY <1>1 DEF Inv, Called, Listed
    <3>7. ~(1 < Len(list))
      <4>1. ASSUME 1 < Len(list) PROVE FALSE
        <5>1. 1 \in 1 .. Len(list) /\ 2 \in 1 .. Len(list) /\ Home(list, 0, 1) < Home(list, 0, 2)
          BY <3>5, <4>1 DEF Home
        <5>2. RankOf(DstSht) < RankOf(DstSht)
          BY <3>5, <3>6, <5>1 DEF OrderedAt
        <5>3. RankOf(DstSht) \in Nat
          BY Names, RankType
        <5> QED
          BY <5>2, <5>3
      <4> QED
        BY <4>1
    <3>8. Len(list) = 1 /\ list[1] = DstSht
      <4>1. Len(list) # 0
        BY <1>2, <3>3, <3>5, InToSet
      <4> QED
        BY <3>5, <3>7, <4>1
    <3> QED
      BY <1>2, <3>8
  <2>7. Called'
    <3>1. p' = list'[1]
      BY <2>2, <2>6
    <3> QED
      BY <1>1, <2>2, <2>3, <3>1 DEF Called
  <2>8. Allocated'
    BY <1>1, <1>4, <1>6, <1>7, <2>2, Names DEF Inv, Allocated, TableNames
  <2>9. Status'
    BY <1>6, <2>2, <2>4, Zenon DEF Inv, Status
  <2>10. Listed'
    <3>1. OrderedAt(list, 0)
      BY <1>1 DEF Inv, Called, Listed
    <3> QED
      BY <2>2, <2>6, <3>1 DEF Listed
  <2>11. Events'
    <3>1. tries' = "live" <=> Holds(events, e', "trie_cleanup")
      BY <1>3, <1>5, <1>8, <2>1
    <3> QED
      BY <1>1, <1>2, <1>3, <2>2, <3>1 DEF Events
  <2> QED
    BY <1>1, <1>7, <2>1, <2>2, <2>5, <2>7, <2>8, <2>9, <2>10, <2>11 DEF Inv, NothingDangling
<1>9. CASE func = "trie_cleanup"
  <2>1. misused' = (tries = "freed") /\ tries' = "freed" /\ UNCHANGED tag_vars
    BY <1>3, <1>9 DEF RunEvent
  <2>2. tries = "live"
    BY <1>3, <1>5, <1>9
  <2>3. UNCHANGED <<list, created, block, tag, call, i>>
    BY <2>1 DEF tag_vars
  <2>4. \A f \in Elfs, x \in TableNames : Freed(f, x)' <=> Freed(f, x)
    BY <1>4, <2>3 DEF Freed
  <2>5. Called' /\ Status' /\ Listed' /\ undefined' = FALSE
    BY <1>1, <1>6, <2>1, <2>4, NoCall
  <2>6. TypeOK'
    BY <1>1, <1>2, <2>3 DEF Inv, TypeOK
  <2>7. Allocated'
    BY <1>1, <1>4, <1>6, <1>7, <2>3, Names DEF Inv, Allocated, TableNames
  <2>8. Events'
    <3>1. created => Holds(events, e', "tag_destroy")
      BY <1>3, <1>5, <1>9
    <3>2. ~Holds(events, e', "trie_cleanup")
      BY <1>3, <1>9
    <3> QED
      BY <1>1, <1>2, <1>3, <2>1, <2>3, <3>1, <3>2, Names DEF Events
  <2> QED
    BY <1>7, <2>1, <2>2, <2>5, <2>6, <2>7, <2>8 DEF Inv, NothingDangling
<1> QED
  BY <1>3, <1>8, <1>9 DEF Funcs

LEMMA CleanupReturnsKeeps ==
  ASSUME Inv, CleanupReturns
  PROVE  Inv'
<1>1. /\ call = None /\ pc = "cleanup" /\ misused = FALSE /\ (events = Null \/ e = events.count)
      /\ misused' = (events = Null) /\ events' = Null /\ e' = 0 /\ pc' = "done"
      /\ UNCHANGED <<tag_vars, n, k, elf, dict, tries, released, t>>
  BY DEF CleanupReturns, Ready, Idle, file_vars
<1>2. UNCHANGED <<list, created, block, tag, call, i>>
  BY <1>1 DEF tag_vars
<1>3. events # Null /\ ArrayOK(events)
  BY <1>1 DEF Inv, Events
<1>4. \A func : ~Holds(events, e, func)
  <2>1. CountOf(events) = e /\ e \in Nat
    BY <1>1, <1>3 DEF CountOf, Inv, TypeOK
  <2>2. \A x : x \notin e .. e - 1
    BY <2>1
  <2> QED
    BY <2>1, <2>2 DEF Holds
<1>5. ~created /\ tries # "live"
  BY <1>1, <1>4, Names DEF Inv, Events
<1>6. pc \in Over /\ pc' \in Over /\ pc' \notin Freeing /\ pc \notin Freeing
  BY <1>1 DEF Over, Freeing
<1>7. ASSUME NEW f \in Elfs, NEW x \in TableNames
      PROVE  (IsSet(f, x)' <=> IsSet(f, x)) /\ Freed(f, x) /\ Freed(f, x)'
  BY <1>1, <1>2, <1>5, <1>6 DEF IsSet, Freed
<1>8. Called' /\ Status' /\ Listed' /\ undefined' = FALSE
  BY <1>1, <1>7, NoCall
<1>9. list = <<>>
  <2>1. ASSUME NEW c \in ToSet(list)
        PROVE  FALSE
    BY <1>1, <1>7, <2>1, OnList, Names
  <2>2. list \in Seq(Blocks)
    BY DEF Inv, TypeOK
  <2>3. ASSUME list # <<>>
        PROVE  FALSE
    <3>1. 1 \in 1 .. Len(list)
      BY <2>2, <2>3
    <3>2. list[1] \in ToSet(list)
      BY <2>2, <3>1, InToSet
    <3> QED
      BY <2>1, <3>2
  <2> QED
    BY <2>3
<1>10. TypeOK'
  BY <1>1, <1>2 DEF Inv, TypeOK
<1>11. Where'
  BY <1>1, <1>6 DEF Inv, Where, Early, Linking, Parsing, Over, Freeing
<1>12. Allocated'
  <2>1. Reach' = Reach
    BY <1>1 DEF Reach
  <2> QED
    BY <1>1, <1>2, <1>6, <1>7, <2>1, Names DEF Inv, Allocated, TableNames
<1>13. Events'
  <2>1. CountOf(events') = 0 /\ ArrayOK(events') /\ \A func : ~Holds(events', 0, func)
    BY <1>1 DEF CountOf, ArrayOK, Holds
  <2> QED
    BY <1>1, <1>2, <1>5, <1>9, <2>1, Names DEF Events
<1>14. Released'
  BY <1>1, <1>6, <1>7 DEF Inv, Released, IsSet
<1> QED
  BY <1>1, <1>3, <1>8, <1>10, <1>11, <1>12, <1>13, <1>14 DEF Inv, NothingDangling

-----------------------------------------------------------------------------
(* The theorems                                                            *)

LEMMA StutterKeeps ==
  ASSUME Inv, UNCHANGED vars
  PROVE  Inv'
<1>1. UNCHANGED <<list, created, block, tag, call, arg, i, p, undefined>>
      /\ UNCHANGED <<n, k, elf, dict, tries, events, e, misused, pc, released, t>>
  BY DEF vars, tag_vars, file_vars, shared_vars
<1>2. \A f \in Elfs, x \in TableNames :
        (IsSet(f, x)' <=> IsSet(f, x)) /\ (Freed(f, x)' <=> Freed(f, x))
  BY <1>1 DEF IsSet, Freed, Due
<1>3. TypeOK' /\ Where' /\ NothingDangling'
  BY <1>1 DEF Inv, TypeOK, Where, NothingDangling
<1>4. Called'
  BY <1>1 DEF Inv, Called, IsSet
<1>5. Allocated'
  BY <1>1, <1>2, Names DEF Inv, Allocated, TableNames, Reach
<1>6. Status' /\ Listed'
  BY <1>1, <1>2 DEF Inv, Status, Listed
<1>7. Events' /\ Released'
  BY <1>1, <1>2 DEF Inv, Events, Released, IsSet
<1> QED
  BY <1>3, <1>4, <1>5, <1>6, <1>7 DEF Inv

LEMMA InvHolds == Spec => []Inv
<1>1. Init => Inv
  BY InitInv
<1>2. Inv /\ [Next]_vars => Inv'
  <2> SUFFICES ASSUME Inv, [Next]_vars PROVE Inv'
    OBVIOUS
  <2>1. CASE UNCHANGED vars
    BY <2>1, StutterKeeps
  <2>2. ASSUME NEW file \in Files, ReadElf(file) PROVE Inv'
    BY <2>2, ReadElfKeeps
  <2>3. CASE MallocSht \/ ParseSections \/ MallocSymt \/ ParseSymbols \/ ParseReltext
             \/ ParseReldata \/ Sweep
    BY <2>3, MallocShtKeeps, ParseSectionsKeeps, MallocSymtKeeps, ParseSymbolsKeeps,
       ParseReltextKeeps, ParseReldataKeeps, SweepKeeps
  <2>4. CASE LinkBegins \/ LinkSymt \/ LinkSht \/ WriteEof
    BY <2>4, LinkBeginsKeeps, LinkSymtKeeps, LinkShtKeeps, WriteEofKeeps
  <2>5. CASE FreeTable \/ FreeNext \/ FreeElfReturns
    BY <2>5, FreeTableKeeps, FreeNextKeeps, FreeElfReturnsKeeps
  <2>6. CASE InstructionCycle \/ OnlyInstructions \/ RunEvent \/ CleanupReturns
    BY <2>6, InstructionCycleKeeps, OnlyInstructionsKeeps, RunEventKeeps, CleanupReturnsKeeps
  <2>7. CASE TagTurn
    BY <2>7, TagTurnKeeps
  <2> QED
    BY <2>1, <2>2, <2>3, <2>4, <2>5, <2>6, <2>7, Zenon DEF Next
<1> QED
  BY <1>1, <1>2, PTL DEF Spec

\* No block, dictionary, trie or array of events is used or freed when it is
\* gone already, whichever files are linked: parse_elf, link_elf, write_eof,
\* free_elf and finally_cleanup, with the allocator under them.
THEOREM NothingDanglingHolds == Spec => []NothingDangling
<1>1. Inv => NothingDangling
  BY DEF Inv
<1> QED
  BY <1>1, InvHolds, PTL

\* The tables of a source last until free_elf of that source and end with it.
THEOREM TablesLiveUntilFreedHolds == Spec => []TablesLiveUntilFreed
<1>1. ASSUME Inv PROVE TablesLiveUntilFreed
  <2> SUFFICES ASSUME call = None, NEW f \in Sources, NEW x \in TableNames, elf[f][x] = "set"
               PROVE  /\ ~released[f] /\ ~(k = f /\ pc \in {"free", "freeing"}) =>
                           block[BlockOf(f, x)] = "live" /\ BlockOf(f, x) \in ToSet(list)
                      /\ released[f] => block[BlockOf(f, x)] = "freed"
    BY Zenon DEF TablesLiveUntilFreed
  <2>1. f \in 1 .. n /\ f \in Elfs /\ f # Dst /\ f \in Nat /\ IsSet(f, x) /\ k \in Nat
        /\ BlockOf(f, x) = <<f, x>> /\ BlockOf(f, x) \in Blocks
    BY <1>1, ElfAssumption DEF Sources, Inv, TypeOK, Elfs, Dst, IsSet, BlockOf
  <2>2. CASE pc \in Over
    <3>1. pc \notin Freeing /\ Freed(f, x) /\ released[f]
      BY <1>1, <2>1, <2>2 DEF Inv, Released, Freed, DstSht, Freeing, Over
    <3> QED
      BY <1>1, <2>1, <3>1 DEF Inv, Status
  <2>3. CASE pc \in Freeing
    <3>1. pc \notin Over
      BY <2>3 DEF Freeing, Over
    <3>2. released[f] <=> f < k \/ k = Dst
      BY <1>1, <2>1, <2>3, <3>1 DEF Inv, Released
    <3>3. released[f] => Freed(f, x)
      BY <2>1, <2>3, <3>2 DEF Freed
    <3>4. ~released[f] /\ k # f => ~Freed(f, x)
      BY <2>1, <2>3, <3>1, <3>2 DEF Freed
    <3> QED
      BY <1>1, <2>1, <2>3, <3>3, <3>4, Names DEF Inv, Status, Listed, Freeing
  <2>4. CASE pc \notin Over \cup Freeing
    <3>1. ~released[f] /\ ~Freed(f, x)
      BY <1>1, <2>1, <2>4 DEF Inv, Released, Freed
    <3> QED
      BY <1>1, <2>1, <3>1, Names DEF Inv, Status, Listed
  <2> QED
    BY <2>2, <2>3, <2>4
<1> QED
  BY <1>1, InvHolds, PTL

\* A program that ends has freed every table, the list, the dictionary, the
\* tries and the array of events.
THEOREM NothingLeaksHolds == Spec => []NothingLeaks
<1>1. ASSUME Inv PROVE NothingLeaks
  <2> SUFFICES ASSUME pc = "done"
               PROVE  /\ \A b \in Blocks : block[b] # "live"
                      /\ list = <<>> /\ ~created
                      /\ dict # "live" /\ tries # "live" /\ events = Null
    BY DEF NothingLeaks
  <2>1. pc \in Over /\ events = Null /\ list = <<>> /\ call = None /\ e = 0 /\ dict # "live"
    BY <1>1 DEF Inv, Events, Where, Over
  <2>2. \A func : ~Holds(events, e, func)
    BY <2>1 DEF Holds, CountOf
  <2>3. ~created /\ tries # "live"
    BY <1>1, <2>1, <2>2, Names DEF Inv, Events
  <2>4. ASSUME NEW b \in Blocks
        PROVE  block[b] # "live"
    <3>1. PICK f \in Elfs, x \in TableNames : b = <<f, x>>
      BY Names
    <3>2. Freed(f, x)
      BY <2>1, <2>3 DEF Freed
    <3> QED
      BY <1>1, <3>1, <3>2 DEF Inv, Status
  <2> QED
    BY <2>1, <2>3, <2>4
<1> QED
  BY <1>1, InvHolds, PTL
=============================================================================
