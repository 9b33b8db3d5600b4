----------------------------- MODULE ListProofs -----------------------------
(***************************************************************************)
(* Theorems about LinkedList, for any number of nodes: the links always    *)
(* form one ring, and the ring holds the values that Ring promises.        *)
(***************************************************************************)
EXTENDS LinkedList, FunctionTheorems, FiniteSetTheorems, WellFoundedInduction,
        SequenceTheorems, TLAPS

-----------------------------------------------------------------------------
(* Natural numbers                                                         *)

\* A non-empty set of natural numbers has a least element.
LEMMA LeastNatural ==
  ASSUME NEW T \in SUBSET Nat, T # {}
  PROVE  \E x \in T : \A y \in T : x <= y
<1> DEFINE R == {p \in Nat \X Nat : p[1] < p[2]}
<1>1. IsWellFoundedOn(R, Nat)
  BY NatLessThanWellFounded DEF OpToRel
<1>2. PICK x \in T : \A y \in T : <<y, x>> \notin R
  <2> HIDE DEF R
  <2> QED
    BY <1>1, WFMin
<1>3. ASSUME NEW y \in T PROVE x <= y
  <2>1. <<y, x>> \notin R /\ x \in Nat /\ y \in Nat
    BY <1>2
  <2>2. ~(y < x)
    BY <2>1
  <2> QED
    BY <2>1, <2>2
<1> QED
  BY <1>3

\* Induction without a predicate as a parameter: a set of numbers that holds
\* 0 and the successor of each of its members holds every number.
LEMMA NaturalSet ==
  ASSUME NEW T, 0 \in T, \A n \in Nat : n \in T => n + 1 \in T
  PROVE  Nat \subseteq T
<1> SUFFICES ASSUME Nat \ T # {} PROVE FALSE
  OBVIOUS
<1>1. PICK x \in Nat \ T : \A y \in Nat \ T : x <= y
  BY LeastNatural
<1>2. x - 1 \in Nat /\ x - 1 \notin Nat \ T
  BY <1>1
<1>3. (x - 1) + 1 \in T
  BY <1>2
<1> QED
  BY <1>1, <1>3

-----------------------------------------------------------------------------
(* Recursive functions                                                     *)

IsIteration(f, S, a, step) == /\ f \in [Nat -> S] /\ f[0] = a
                              /\ \A n \in Nat : f[n + 1] = step[f[n]]

\* A step can be repeated any number of times.
LEMMA Iteration ==
  ASSUME NEW S, NEW a \in S, NEW step \in [S -> S]
  PROVE  \E f : IsIteration(f, S, a, step)
<1> DEFINE Runs(n) == {g \in [0 .. n -> S] : /\ g[0] = a
                                            /\ \A k \in Nat : k < n => g[k + 1] = step[g[k]]}
           T == {n \in Nat : Runs(n) # {}}
<1>1. 0 \in T
  <2>1. [k \in 0 .. 0 |-> a] \in Runs(0)
    OBVIOUS
  <2> QED
    BY <2>1
<1>2. ASSUME NEW n \in Nat, n \in T PROVE n + 1 \in T
  <2>1. PICK g \in Runs(n) : TRUE
    BY <1>2
  <2>2. /\ g \in [0 .. n -> S] /\ g[0] = a /\ n \in 0 .. n
        /\ \A k \in Nat : k < n => g[k + 1] = step[g[k]]
    OBVIOUS
  <2> DEFINE h == [k \in 0 .. n + 1 |-> IF k = n + 1 THEN step[g[n]] ELSE g[k]]
  <2>3. \A k \in 0 .. n + 1 : k \in 0 .. n \/ k = n + 1
    OBVIOUS
  <2>4. h \in [0 .. n + 1 -> S] /\ h[0] = a
    BY <2>2, <2>3
  <2>5. ASSUME NEW k \in Nat, k < n + 1 PROVE h[k + 1] = step[h[k]]
    <3>1. CASE k = n
      BY <3>1
    <3>2. CASE k < n
      BY <2>2, <3>2
    <3> QED
      BY <2>5, <3>1, <3>2
  <2>6. h \in Runs(n + 1)
    <3> HIDE DEF h
    <3> QED
      BY <2>4, <2>5
  <2> QED
    BY <2>6
<1>3. \A n \in Nat : Runs(n) # {}
  <2> HIDE DEF Runs
  <2>1. Nat \subseteq T
    <3> HIDE DEF T
    <3> QED
      BY <1>1, <1>2, NaturalSet
  <2> QED
    BY <2>1
\* Longer runs continue shorter ones.
<1>4. ASSUME NEW n \in Nat, NEW g \in Runs(n), NEW h \in Runs(n + 1)
      PROVE  \A k \in 0 .. n : g[k] = h[k]
  <2> DEFINE U == {k \in Nat : k <= n => g[k] = h[k]}
  <2>1. 0 \in U
    OBVIOUS
  <2>2. ASSUME NEW k \in Nat, k \in U PROVE k + 1 \in U
    <3> SUFFICES ASSUME k + 1 <= n PROVE g[k + 1] = h[k + 1]
      OBVIOUS
    <3>1. k < n /\ k < n + 1 /\ k <= n
      OBVIOUS
    <3>2. g[k] = h[k]
      BY <2>2, <3>1
    <3>3. g[k + 1] = step[g[k]] /\ h[k + 1] = step[h[k]]
      BY <3>1
    <3> QED
      BY <3>2, <3>3
  <2>3. Nat \subseteq U
    <3> HIDE DEF U
    <3> QED
      BY <2>1, <2>2, NaturalSet
  <2> QED
    BY <2>3
<1> DEFINE run(n) == CHOOSE g \in Runs(n) : TRUE
           f == [n \in Nat |-> run(n)[n]]
<1>5. \A n \in Nat : run(n) \in Runs(n)
  BY <1>3
<1> HIDE DEF run
<1>6. f \in [Nat -> S] /\ f[0] = a
  <2>1. \A n \in Nat : n \in 0 .. n
    OBVIOUS
  <2> QED
    BY <1>5, <2>1
<1>7. ASSUME NEW n \in Nat PROVE f[n + 1] = step[f[n]]
  <2>1. run(n) \in Runs(n) /\ run(n + 1) \in Runs(n + 1) /\ n + 1 \in Nat
    BY <1>5
  <2>2. run(n + 1)[n + 1] = step[run(n + 1)[n]]
    BY <2>1
  <2>3. run(n)[n] = run(n + 1)[n]
    <3> HIDE DEF Runs
    <3>1. n \in 0 .. n
      OBVIOUS
    <3> QED
      BY <1>4, <2>1, <3>1
  <2> QED
    BY <2>1, <2>2, <2>3
<1> HIDE DEF f
<1>8. IsIteration(f, S, a, step)
  BY <1>6, <1>7 DEF IsIteration
<1> QED
  BY <1>8

-----------------------------------------------------------------------------

Node == [value : Values, next : Nodes, prev : Nodes]
Heaps == [Nodes -> Node \cup {Null}]

-----------------------------------------------------------------------------
(* The ring of a heap, with its nodes in order                             *)

Succ(i, c) == IF i = c - 1 THEN 0 ELSE i + 1

\* order numbers the c nodes of the heap hp from the head hd on, along next,
\* and prev leads back.
IsOrder(order, hp, hd, c) ==
  /\ order \in [0 .. c - 1 -> Nodes]
  /\ \A i, j \in 0 .. c - 1 : order[i] = order[j] => i = j
  /\ \A n \in Nodes : hp[n] # Null <=> \E i \in 0 .. c - 1 : order[i] = n
  /\ order[0] = hd
  /\ \A i \in 0 .. c - 1 : /\ hp[order[i]].next = order[Succ(i, c)]
                           /\ hp[order[Succ(i, c)]].prev = order[i]

Shape(hp, hd, c) ==
  IF c = 0 THEN hd = Null /\ \A n \in Nodes : hp[n] = Null
  ELSE \E order : IsOrder(order, hp, hd, c)

\* The values in that order.
Listed(order, hp, c) == [k \in 1 .. c |-> hp[order[k - 1]].value]

LEMMA NodeFacts ==
  /\ Null \notin Node /\ Null \notin Nodes /\ Null \notin Values
  /\ \A hp \in Heaps : \A n \in Nodes : hp[n] # Null => hp[n] \in Node
BY ListAssumption DEF Node, Nodes, Heaps

LEMMA OrderFacts ==
  ASSUME NEW c \in Nat \ {0}, NEW hp \in Heaps, NEW hd, NEW order,
         IsOrder(order, hp, hd, c)
  PROVE  /\ 0 \in 0 .. c - 1 /\ c - 1 \in 0 .. c - 1 /\ hd \in Nodes /\ hd # Null
         /\ \A i \in 0 .. c - 1 :
              /\ order[i] \in Nodes /\ hp[order[i]] # Null /\ hp[order[i]] \in Node
              /\ Succ(i, c) \in 0 .. c - 1
         /\ hp[hd].prev = order[c - 1]
<1>1. 0 \in 0 .. c - 1 /\ c - 1 \in 0 .. c - 1
  OBVIOUS
<1>2. \A i \in 0 .. c - 1 : Succ(i, c) \in 0 .. c - 1
  BY DEF Succ
<1>3. \A i \in 0 .. c - 1 :
        order[i] \in Nodes /\ hp[order[i]] # Null /\ hp[order[i]] \in Node
  BY NodeFacts DEF IsOrder
<1>4. Succ(c - 1, c) = 0
  BY DEF Succ
<1> QED
  BY <1>1, <1>2, <1>3, <1>4, NodeFacts DEF IsOrder

AddedAlone(hp, n, v) == [hp EXCEPT ![n] = [value |-> v, next |-> n, prev |-> n]]

Alone(n) == [i \in 0 .. 0 |-> n]

\* The first node is a ring of its own.
LEMMA FirstOrder ==
  ASSUME NEW hp \in Heaps, \A m \in Nodes : hp[m] = Null,
         NEW n \in Nodes, NEW v \in Values, NEW hp2,
         hp2 = AddedAlone(hp, n, v)
  PROVE  /\ hp2 \in Heaps
         /\ IsOrder(Alone(n), hp2, n, 1)
         /\ Listed(Alone(n), hp2, 1) = Append(<<>>, v)
<1> DEFINE node == [value |-> v, next |-> n, prev |-> n]
           order == Alone(n)
<1>1. node \in Node /\ node # Null
  BY NodeFacts DEF Node
<1>2. /\ hp2 \in Heaps /\ hp2[n] = node
      /\ \A m \in Nodes : m # n => hp2[m] = Null
  BY <1>1 DEF Heaps, AddedAlone
<1>3. \A m \in Nodes : hp2[m] # Null <=> m = n
  BY <1>1, <1>2
<1>4. /\ 0 .. 1 - 1 = {0} /\ order \in [0 .. 1 - 1 -> Nodes]
      /\ order[0] = n /\ Succ(0, 1) = 0
  BY DEF Succ, Alone
<1> HIDE DEF order
<1>5. \A m \in Nodes : hp2[m] # Null <=> \E i \in {0} : order[i] = m
  BY <1>3, <1>4
<1>6. IsOrder(order, hp2, n, 1)
  BY <1>2, <1>4, <1>5 DEF IsOrder
<1>7. Listed(order, hp2, 1) = <<v>>
  BY <1>2, <1>4 DEF Listed
<1> QED
  BY <1>2, <1>6, <1>7 DEF order

LEMMA ListedIsSeq ==
  ASSUME NEW c \in Nat \ {0}, NEW hp \in Heaps, NEW hd, NEW order,
         IsOrder(order, hp, hd, c)
  PROVE  /\ Listed(order, hp, c) \in Seq(Values) /\ Len(Listed(order, hp, c)) = c
         /\ \A k \in 1 .. c : Listed(order, hp, c)[k] = hp[order[k - 1]].value
<1>1. \A k \in 1 .. c : k - 1 \in 0 .. c - 1
  OBVIOUS
<1>2. \A i \in 0 .. c - 1 : hp[order[i]] \in Node
  BY OrderFacts
<1>3. \A k \in 1 .. c : hp[order[k - 1]].value \in Values
  BY <1>1, <1>2 DEF Node
<1> QED
  BY <1>3 DEF Listed

LEMMA ListedLonger ==
  ASSUME NEW c \in Nat \ {0}, NEW hp \in Heaps, NEW hd, NEW order,
         IsOrder(order, hp, hd, c),
         NEW hp2 \in Heaps, NEW longer, NEW d, d = c + 1, IsOrder(longer, hp2, hd, d),
         NEW v \in Values, hp2[longer[c]].value = v,
         \A i \in 0 .. c - 1 : hp2[longer[i]].value = hp[order[i]].value
  PROVE  Listed(longer, hp2, d) = Append(Listed(order, hp, c), v)
<1> DEFINE old == Listed(order, hp, c)
           new == Listed(longer, hp2, d)
<1>1. /\ old \in Seq(Values) /\ Len(old) = c
      /\ \A k \in 1 .. c : old[k] = hp[order[k - 1]].value
  BY ListedIsSeq
<1>2. d \in Nat \ {0}
  OBVIOUS
<1>3. /\ new \in Seq(Values) /\ Len(new) = d
      /\ \A k \in 1 .. d : new[k] = hp2[longer[k - 1]].value
  BY <1>2, ListedIsSeq
<1> HIDE DEF old, new
<1>4. /\ Append(old, v) \in Seq(Values) /\ Len(Append(old, v)) = c + 1
      /\ \A k \in 1 .. c : Append(old, v)[k] = old[k]
      /\ Append(old, v)[c + 1] = v
  BY <1>1, AppendProperties
<1>5. ASSUME NEW k \in 1 .. d PROVE new[k] = Append(old, v)[k]
  <2>1. CASE k = d
    <3>1. k - 1 = c
      BY <2>1
    <3> QED
      BY <1>3, <1>4, <2>1, <3>1
  <2>2. CASE k # d
    <3>1. k \in 1 .. c /\ k - 1 \in 0 .. c - 1
      BY <2>2
    <3> QED
      BY <1>1, <1>3, <1>4, <3>1
  <2> QED
    BY <2>1, <2>2
<1>6. new = Append(old, v)
  BY <1>3, <1>4, <1>5, SeqEqual
<1> QED
  BY <1>6 DEF old, new

AddedBehind(hp, hd, n, v) ==
  [hp EXCEPT ![n] = [value |-> v, next |-> hd, prev |-> hp[hd].prev],
             ![hd].prev = n,
             ![hp[hd].prev].next = n]

\* A further node goes behind the last one.
LEMMA LongerOrder ==
  ASSUME NEW c \in Nat \ {0}, NEW hp \in Heaps, NEW hd, NEW order,
         IsOrder(order, hp, hd, c),
         NEW n \in Nodes, hp[n] = Null, NEW v \in Values, NEW hp2,
         hp2 = AddedBehind(hp, hd, n, v)
  PROVE  LET longer == [i \in 0 .. c |-> IF i = c THEN n ELSE order[i]]
         IN /\ hp2 \in Heaps
            /\ IsOrder(longer, hp2, hd, c + 1)
            /\ Listed(longer, hp2, c + 1) = Append(Listed(order, hp, c), v)
<1> DEFINE tail == hp[hd].prev
           node == [value |-> v, next |-> hd, prev |-> tail]
           longer == [i \in 0 .. c |-> IF i = c THEN n ELSE order[i]]
<1>1. /\ 0 \in 0 .. c - 1 /\ c - 1 \in 0 .. c - 1 /\ tail = order[c - 1]
      /\ order[0] = hd
      /\ \A i \in 0 .. c - 1 : /\ order[i] \in Nodes /\ hp[order[i]] # Null
                               /\ hp[order[i]] \in Node
  <2>1. order[0] = hd
    BY DEF IsOrder
  <2>2. /\ 0 \in 0 .. c - 1 /\ c - 1 \in 0 .. c - 1 /\ tail = order[c - 1]
        /\ \A i \in 0 .. c - 1 : /\ order[i] \in Nodes /\ hp[order[i]] # Null
                                 /\ hp[order[i]] \in Node
    BY OrderFacts
  <2> QED
    BY <2>1, <2>2
<1>2. /\ hd \in Nodes /\ tail \in Nodes /\ hd # n /\ tail # n
      /\ hp[hd] \in Node /\ hp[tail] \in Node
  BY <1>1
<1> HIDE DEF tail
<1>3. node \in Node /\ node # Null
  BY <1>2, NodeFacts DEF Node
<1>4. /\ hp2[n] \in Node /\ hp2[n] # Null
      /\ hp2[n].value = v /\ hp2[n].next = hd /\ hp2[n].prev = tail
      /\ \A m \in Nodes : m # n /\ hp[m] # Null =>
           /\ hp2[m] \in Node /\ hp2[m] # Null /\ hp2[m].value = hp[m].value
           /\ hp2[m].next = IF m = tail THEN n ELSE hp[m].next
           /\ hp2[m].prev = IF m = hd THEN n ELSE hp[m].prev
      /\ \A m \in Nodes : m # n /\ hp[m] = Null => hp2[m] = Null
  <2>1. hp2 = [hp EXCEPT ![n] = node, ![hd].prev = n, ![tail].next = n]
    BY DEF tail, AddedBehind
  <2>2. hp2[n] = node
    BY <1>2, <2>1 DEF Heaps
  <2>3. ASSUME NEW m \in Nodes, m # n, hp[m] # Null
        PROVE  /\ hp2[m] \in Node /\ hp2[m] # Null /\ hp2[m].value = hp[m].value
               /\ hp2[m].next = IF m = tail THEN n ELSE hp[m].next
               /\ hp2[m].prev = IF m = hd THEN n ELSE hp[m].prev
    <3>1. hp[m] \in Node
      BY <2>3, NodeFacts
    <3>2. hp2[m] = [value |-> hp[m].value,
                    next |-> IF m = tail THEN n ELSE hp[m].next,
                    prev |-> IF m = hd THEN n ELSE hp[m].prev]
      BY <1>2, <2>1, <2>3, <3>1 DEF Heaps, Node
    <3>3. hp2[m] \in Node
      BY <3>1, <3>2 DEF Node
    <3> QED
      BY <3>2, <3>3, NodeFacts
  <2>4. ASSUME NEW m \in Nodes, m # n, hp[m] = Null
        PROVE  hp2[m] = Null
    <3>1. m # hd /\ m # tail
      BY <1>2, <2>4, NodeFacts
    <3> QED
      BY <2>1, <2>4, <3>1 DEF Heaps
  <2> HIDE DEF node
  <2>5. node.value = v /\ node.next = hd /\ node.prev = tail
    BY DEF node
  <2> QED
    BY <1>3, <2>2, <2>3, <2>4, <2>5
<1>5. hp2 \in Heaps
  <2>1. \A m \in Nodes : hp2[m] \in Node \cup {Null}
    BY <1>4
  <2>2. hp2 = [m \in Nodes |-> hp2[m]]
    BY DEF Heaps, AddedBehind
  <2> QED
    BY <2>1, <2>2 DEF Heaps
<1>6. /\ \A i \in 0 .. c : i \in 0 .. c - 1 \/ i = c
      /\ \A i \in 0 .. c - 1 : i \in 0 .. c /\ i # c
      /\ c \in 0 .. c /\ (c + 1) - 1 = c /\ 0 \in 0 .. c
  OBVIOUS
<1>7. /\ longer \in [0 .. c -> Nodes] /\ longer[c] = n
      /\ \A i \in 0 .. c - 1 : longer[i] = order[i]
  BY <1>1, <1>6
<1> HIDE DEF longer
\* The old nodes, on the new heap.
<1>7a. \A i \in 0 .. c - 1 :
         /\ longer[i] = order[i] /\ order[i] # n
         /\ hp2[order[i]].value = hp[order[i]].value
         /\ hp2[order[i]].next = IF order[i] = tail THEN n ELSE hp[order[i]].next
         /\ hp2[order[i]].prev = IF order[i] = hd THEN n ELSE hp[order[i]].prev
  <2>1. \A i \in 0 .. c - 1 : order[i] # n
    BY <1>1
  <2> QED
    BY <1>1, <1>4, <1>7, <2>1
<1>8. \A i, j \in 0 .. c : longer[i] = longer[j] => i = j
  BY <1>1, <1>6, <1>7 DEF IsOrder
<1>9. \A m \in Nodes : hp2[m] # Null <=> \E i \in 0 .. c : longer[i] = m
  <2>1. \A m \in Nodes : hp2[m] # Null <=> m = n \/ hp[m] # Null
    BY <1>4
  <2>2. \A m \in Nodes : hp[m] # Null <=> \E i \in 0 .. c - 1 : order[i] = m
    BY DEF IsOrder
  <2>3. \A m \in Nodes : (\E i \in 0 .. c : longer[i] = m)
                           <=> m = n \/ \E i \in 0 .. c - 1 : order[i] = m
    BY <1>6, <1>7
  <2> QED
    BY <2>1, <2>2, <2>3
<1>10. ASSUME NEW i \in 0 .. c
       PROVE  /\ hp2[longer[i]].next = longer[Succ(i, c + 1)]
              /\ hp2[longer[Succ(i, c + 1)]].prev = longer[i]
  <2>1. CASE i = c
    <3>1. Succ(i, c + 1) = 0 /\ longer[0] = hd
      BY <1>1, <1>7, <2>1 DEF Succ
    <3>2. hp2[hd].prev = n
      BY <1>1, <1>7a
    <3> QED
      BY <1>4, <1>7, <2>1, <3>1, <3>2
  <2>2. CASE i = c - 1
    <3>1. Succ(i, c + 1) = c /\ longer[i] = tail
      BY <1>1, <1>7, <2>2 DEF Succ
    <3>2. hp2[tail].next = n
      BY <1>1, <1>7a
    <3> QED
      BY <1>4, <1>7, <3>1, <3>2
  <2>3. CASE i # c /\ i # c - 1
    <3>1. /\ i \in 0 .. c - 1 /\ i + 1 \in 0 .. c - 1 /\ i + 1 # 0
          /\ Succ(i, c + 1) = i + 1 /\ Succ(i, c) = i + 1
      BY <2>3 DEF Succ
    <3>2. order[i] # tail /\ order[i + 1] # hd
      BY <1>1, <2>3, <3>1 DEF IsOrder
    <3>3. hp[order[i]].next = order[i + 1] /\ hp[order[i + 1]].prev = order[i]
      BY <3>1 DEF IsOrder
    <3>5. /\ hp2[order[i]].next = hp[order[i]].next
          /\ hp2[order[i + 1]].prev = hp[order[i + 1]].prev
      BY <1>7a, <3>1, <3>2
    <3> QED
      BY <1>7, <3>1, <3>3, <3>5
  <2> QED
    BY <2>1, <2>2, <2>3
<1>11. IsOrder(longer, hp2, hd, c + 1)
  BY <1>1, <1>6, <1>7, <1>8, <1>9, <1>10 DEF IsOrder
<1>12. Listed(longer, hp2, c + 1) = Append(Listed(order, hp, c), v)
  <2>1. \A i \in 0 .. c - 1 : hp2[longer[i]].value = hp[order[i]].value
    BY <1>7a
  <2>2. hp2[longer[c]].value = v
    BY <1>4, <1>7
  <2> QED
    <3> DEFINE d == c + 1
    <3>1. d = c + 1 /\ IsOrder(longer, hp2, hd, d)
      BY <1>11
    <3> HIDE DEF d
    <3>2. Listed(longer, hp2, d) = Append(Listed(order, hp, c), v)
      BY <1>5, <2>1, <2>2, <3>1, ListedLonger
    <3> QED
      BY <3>2 DEF d
<1> QED
  BY <1>5, <1>11, <1>12 DEF longer

Rotated(order, c) == [i \in 0 .. c - 1 |-> order[Succ(i, c)]]

\* The head pointer moves on by one node.
LEMMA RotatedOrder ==
  ASSUME NEW c \in Nat \ {0}, NEW hp \in Heaps, NEW hd, NEW order,
         IsOrder(order, hp, hd, c)
  PROVE  LET old == Listed(order, hp, c)
         IN /\ IsOrder(Rotated(order, c), hp, hp[hd].next, c)
            /\ Listed(Rotated(order, c), hp, c) = Append(Tail(old), Head(old))
            /\ Head(old) = hp[hp[hp[hd].next].prev].value
<1> USE DEF Rotated
<1> DEFINE rotated == Rotated(order, c)
           old == Listed(order, hp, c)
           new == Listed(rotated, hp, c)
<1>1. /\ \A i \in 0 .. c - 1 : Succ(i, c) \in 0 .. c - 1
      /\ \A i, j \in 0 .. c - 1 : Succ(i, c) = Succ(j, c) => i = j
      /\ \A k \in 0 .. c - 1 : \E i \in 0 .. c - 1 : Succ(i, c) = k
      /\ 0 \in 0 .. c - 1
  <2>1. \A k \in 0 .. c - 1 : \E i \in 0 .. c - 1 : Succ(i, c) = k
    <3> SUFFICES ASSUME NEW k \in 0 .. c - 1
                 PROVE  \E i \in 0 .. c - 1 : Succ(i, c) = k
      OBVIOUS
    <3>1. CASE k = 0
      <4>1. c - 1 \in 0 .. c - 1 /\ Succ(c - 1, c) = k
        BY <3>1 DEF Succ
      <4> QED
        BY <4>1
    <3>2. CASE k # 0
      <4>1. k - 1 \in 0 .. c - 1 /\ Succ(k - 1, c) = k
        BY <3>2 DEF Succ
      <4> QED
        BY <4>1
    <3> QED
      BY <3>1, <3>2
  <2> QED
    BY <2>1 DEF Succ
<1>2. /\ \A i \in 0 .. c - 1 : order[i] \in Nodes /\ rotated[i] = order[Succ(i, c)]
      /\ rotated \in [0 .. c - 1 -> Nodes]
  BY <1>1 DEF IsOrder
<1> HIDE DEF rotated
<1>3. ASSUME NEW i \in 0 .. c - 1, NEW j \in 0 .. c - 1, rotated[i] = rotated[j]
      PROVE  i = j
  <2>1. order[Succ(i, c)] = order[Succ(j, c)]
    BY <1>2, <1>3
  <2>2. Succ(i, c) \in 0 .. c - 1 /\ Succ(j, c) \in 0 .. c - 1
    BY <1>1
  <2>3. Succ(i, c) = Succ(j, c)
    BY <2>1, <2>2 DEF IsOrder
  <2> QED
    BY <1>1, <2>3
<1>4. \A n \in Nodes : hp[n] # Null <=> \E i \in 0 .. c - 1 : rotated[i] = n
  <2>1. \A n \in Nodes : hp[n] # Null <=> \E i \in 0 .. c - 1 : order[i] = n
    BY DEF IsOrder
  <2>2. ASSUME NEW n \in Nodes, NEW k \in 0 .. c - 1, order[k] = n
        PROVE  \E i \in 0 .. c - 1 : rotated[i] = n
    <3>1. PICK i \in 0 .. c - 1 : Succ(i, c) = k
      BY <1>1
    <3> QED
      BY <1>2, <2>2, <3>1
  <2>3. ASSUME NEW n \in Nodes, NEW i \in 0 .. c - 1, rotated[i] = n
        PROVE  \E k \in 0 .. c - 1 : order[k] = n
    <3>1. Succ(i, c) \in 0 .. c - 1 /\ order[Succ(i, c)] = n
      BY <1>1, <1>2, <2>3
    <3> QED
      BY <3>1
  <2> QED
    BY <2>1, <2>2, <2>3
<1>5. rotated[0] = hp[hd].next
  BY <1>1, <1>2 DEF IsOrder
<1>6. \A i \in 0 .. c - 1 : /\ hp[rotated[i]].next = rotated[Succ(i, c)]
                           /\ hp[rotated[Succ(i, c)]].prev = rotated[i]
  <2>1. \A i \in 0 .. c - 1 : /\ hp[order[i]].next = order[Succ(i, c)]
                             /\ hp[order[Succ(i, c)]].prev = order[i]
    BY DEF IsOrder
  <2> QED
    BY <1>1, <1>2, <2>1
<1>7. IsOrder(rotated, hp, hp[hd].next, c)
  BY <1>2, <1>3, <1>4, <1>5, <1>6 DEF IsOrder
<1>8. /\ old \in Seq(Values) /\ Len(old) = c
      /\ \A k \in 1 .. c : old[k] = hp[order[k - 1]].value
  BY ListedIsSeq
<1>9. /\ new \in Seq(Values) /\ Len(new) = c
      /\ \A k \in 1 .. c : new[k] = hp[rotated[k - 1]].value
  BY <1>7, ListedIsSeq
<1> HIDE DEF old, new
<1>10. /\ Head(old) = old[1] /\ old[1] \in Values
       /\ Tail(old) \in Seq(Values) /\ Len(Tail(old)) = c - 1
       /\ \A k \in 1 .. c - 1 : Tail(old)[k] = old[k + 1]
  BY <1>8, HeadTailProperties
<1> DEFINE moved == Append(Tail(old), Head(old))
<1>11. /\ moved \in Seq(Values) /\ Len(moved) = c
       /\ \A k \in 1 .. c - 1 : moved[k] = old[k + 1]
       /\ moved[c] = old[1]
  <2> DEFINE tail == Tail(old)
             front == Head(old)
  <2>1. tail \in Seq(Values) /\ front \in Values /\ Len(tail) = c - 1
    BY <1>10
  <2> HIDE DEF tail, front
  <2>2. /\ Append(tail, front) \in Seq(Values)
        /\ Len(Append(tail, front)) = Len(tail) + 1
        /\ \A k \in 1 .. Len(tail) : Append(tail, front)[k] = tail[k]
        /\ Append(tail, front)[Len(tail) + 1] = front
    BY <2>1, AppendProperties
  <2>3. (c - 1) + 1 = c
    OBVIOUS
  <2> QED
    BY <1>10, <2>1, <2>2, <2>3 DEF tail, front
<1> HIDE DEF moved
<1>12. ASSUME NEW k \in 1 .. c PROVE new[k] = moved[k]
  <2>1. CASE k = c
    <3>1. k - 1 \in 0 .. c - 1 /\ Succ(k - 1, c) = 0 /\ 1 \in 1 .. c /\ 1 - 1 = 0
      BY <2>1 DEF Succ
    <3>2. rotated[k - 1] = order[0]
      BY <1>2, <3>1
    <3>3. old[1] = hp[order[0]].value
      BY <1>8, <3>1
    <3> QED
      BY <1>9, <1>11, <2>1, <3>2, <3>3
  <2>2. CASE k # c
    <3>1. /\ k - 1 \in 0 .. c - 1 /\ Succ(k - 1, c) = k /\ k \in 1 .. c - 1
          /\ k + 1 \in 1 .. c /\ (k + 1) - 1 = k
      BY <2>2 DEF Succ
    <3>2. rotated[k - 1] = order[k]
      BY <1>2, <3>1
    <3>3. old[k + 1] = hp[order[k]].value
      BY <1>8, <3>1
    <3>4. moved[k] = old[k + 1]
      BY <1>11, <3>1
    <3> QED
      BY <1>9, <3>2, <3>3, <3>4
  <2> QED
    BY <2>1, <2>2
<1>13. new = moved
  BY <1>9, <1>11, <1>12, SeqEqual
<1>14. Head(old) = hp[hp[hp[hd].next].prev].value
  <2>1. hp[hd].next = order[Succ(0, c)] /\ hp[order[Succ(0, c)]].prev = order[0]
    BY <1>1 DEF IsOrder
  <2>2. old[1] = hp[order[0]].value
    <3>1. 1 \in 1 .. c /\ 1 - 1 = 0
      OBVIOUS
    <3> QED
      BY <1>8, <3>1
  <2> QED
    BY <1>10, <2>1, <2>2
<1> QED
  BY <1>7, <1>13, <1>14 DEF rotated, old, new, moved

Without(hp, n) ==
  [hp EXCEPT ![hp[n].prev].next = hp[n].next,
             ![hp[n].next].prev = hp[n].prev,
             ![n] = Null]

\* The only node takes the ring with it.
LEMMA LastNodeGoes ==
  ASSUME NEW hp \in Heaps, NEW hd, NEW order, IsOrder(order, hp, hd, 1),
         NEW n \in Nodes, hp[n] # Null, NEW hp2,
         hp2 = Without(hp, n)
  PROVE  hd = n /\ \A m \in Nodes : hp2[m] = Null
<1>1. 0 .. 1 - 1 = {0} /\ Succ(0, 1) = 0
  BY DEF Succ
<1>2. order[0] = n /\ hp[n].next = n /\ hp[n].prev = n
  <2>1. order[0] = n
    BY <1>1 DEF IsOrder
  <2> QED
    BY <1>1, <2>1 DEF IsOrder
<1>3. \A m \in Nodes : m # n => hp[m] = Null
  <2>1. \A m \in Nodes : hp[m] # Null <=> \E i \in 0 .. 1 - 1 : order[i] = m
    BY DEF IsOrder
  <2> QED
    BY <1>1, <1>2, <2>1
<1>4. hp2 = [hp EXCEPT ![n].next = n, ![n].prev = n, ![n] = Null]
  BY <1>2 DEF Without
<1> QED
  BY <1>2, <1>3, <1>4 DEF Heaps, IsOrder

Skipped(order, j, c) == [i \in 0 .. c - 2 |-> order[IF i < j THEN i ELSE i + 1]]

\* Indices of a ring from which the j-th is taken out.
LEMMA SkipIndices ==
  ASSUME NEW c \in Nat, c >= 2, NEW j \in 0 .. c - 1
  PROVE  LET at(i) == IF i < j THEN i ELSE i + 1
             pred == IF j = 0 THEN c - 1 ELSE j - 1
         IN /\ pred \in 0 .. c - 1 /\ Succ(pred, c) = j /\ pred # j
            /\ Succ(j, c) \in 0 .. c - 1 /\ Succ(j, c) # j
            /\ \A i \in 0 .. c - 2 :
                 /\ at(i) \in 0 .. c - 1 /\ at(i) # j
                 /\ Succ(i, c - 1) \in 0 .. c - 2
                 /\ at(i) = pred => at(Succ(i, c - 1)) = Succ(j, c)
                 /\ at(i) # pred => /\ at(Succ(i, c - 1)) = Succ(at(i), c)
                                    /\ Succ(at(i), c) # Succ(j, c)
            /\ \A i, k \in 0 .. c - 2 : at(i) = at(k) => i = k
            /\ \A k \in 0 .. c - 1 : k # j => \E i \in 0 .. c - 2 : at(i) = k
<1> DEFINE at(i) == IF i < j THEN i ELSE i + 1
           pred == IF j = 0 THEN c - 1 ELSE j - 1
<1>1. /\ pred \in 0 .. c - 1 /\ Succ(pred, c) = j /\ pred # j
      /\ Succ(j, c) \in 0 .. c - 1 /\ Succ(j, c) # j
  BY DEF Succ
<1>2. ASSUME NEW i \in 0 .. c - 2
      PROVE  /\ at(i) \in 0 .. c - 1 /\ at(i) # j
             /\ Succ(i, c - 1) \in 0 .. c - 2
             /\ at(i) = pred => at(Succ(i, c - 1)) = Succ(j, c)
             /\ at(i) # pred => /\ at(Succ(i, c - 1)) = Succ(at(i), c)
                                /\ Succ(at(i), c) # Succ(j, c)
  <2>1. CASE i = c - 2
    <3>1. Succ(i, c - 1) = 0
      BY <2>1 DEF Succ
    <3> QED
      BY <2>1, <3>1 DEF Succ
  <2>2. CASE i # c - 2
    <3>1. Succ(i, c - 1) = i + 1
      BY <2>2 DEF Succ
    <3> QED
      BY <2>2, <3>1 DEF Succ
  <2> QED
    BY <2>1, <2>2
<1>3. \A i, k \in 0 .. c - 2 : at(i) = at(k) => i = k
  OBVIOUS
<1>4. ASSUME NEW k \in 0 .. c - 1, k # j PROVE \E i \in 0 .. c - 2 : at(i) = k
  <2>1. CASE k < j
    <3>1. k \in 0 .. c - 2 /\ at(k) = k
      BY <2>1
    <3> QED
      BY <3>1
  <2>2. CASE ~(k < j)
    <3>1. k - 1 \in 0 .. c - 2 /\ at(k - 1) = k
      BY <1>4, <2>2
    <3> QED
      BY <3>1
  <2> QED
    BY <2>1, <2>2
<1> QED
  BY <1>1, <1>2, <1>3, <1>4

\* Every other node leaves the order of the rest alone.
LEMMA ShorterOrder ==
  ASSUME NEW c \in Nat, c >= 2, NEW hp \in Heaps, NEW hd, NEW order,
         IsOrder(order, hp, hd, c),
         NEW j \in 0 .. c - 1, NEW n, n = order[j], NEW hp2, hp2 = Without(hp, n),
         NEW hd2, hd2 = IF hd # n THEN hd ELSE hp[n].next
  PROVE  /\ hp2 \in Heaps
         /\ IsOrder(Skipped(order, j, c), hp2, hd2, c - 1)
         /\ \A m \in Nodes : m # n /\ hp[m] # Null => hp2[m].value = hp[m].value
<1> DEFINE at(i) == IF i < j THEN i ELSE i + 1
           pred == IF j = 0 THEN c - 1 ELSE j - 1
           p == hp[n].prev
           x == hp[n].next
           shorter == Skipped(order, j, c)
<1>1. c \in Nat \ {0} /\ order[0] = hd
  BY DEF IsOrder
<1>2. \A i \in 0 .. c - 1 : /\ order[i] \in Nodes /\ hp[order[i]] # Null
                           /\ hp[order[i]] \in Node
  BY <1>1, OrderFacts
<1>3. \A i \in 0 .. c - 1 : /\ hp[order[i]].next = order[Succ(i, c)]
                           /\ hp[order[Succ(i, c)]].prev = order[i]
  BY DEF IsOrder
<1>4. \A i, k \in 0 .. c - 1 : order[i] = order[k] => i = k
  BY DEF IsOrder
<1>5. /\ pred \in 0 .. c - 1 /\ Succ(pred, c) = j /\ pred # j
      /\ Succ(j, c) \in 0 .. c - 1 /\ Succ(j, c) # j
  BY SkipIndices
<1>6. \A i \in 0 .. c - 2 :
        /\ at(i) \in 0 .. c - 1 /\ at(i) # j
        /\ Succ(i, c - 1) \in 0 .. c - 2
        /\ at(i) = pred => at(Succ(i, c - 1)) = Succ(j, c)
        /\ at(i) # pred => /\ at(Succ(i, c - 1)) = Succ(at(i), c)
                           /\ Succ(at(i), c) # Succ(j, c)
  BY SkipIndices
<1>7. /\ \A i, k \in 0 .. c - 2 : at(i) = at(k) => i = k
      /\ \A k \in 0 .. c - 1 : k # j => \E i \in 0 .. c - 2 : at(i) = k
  BY SkipIndices
<1>8. \A i \in 0 .. c - 2 : shorter[i] = order[at(i)]
  BY DEF Skipped
<1>9. shorter \in [0 .. c - 2 -> Nodes]
  BY <1>2, <1>6 DEF Skipped
<1> HIDE DEF pred
<1>10. /\ n \in Nodes /\ hp[n] # Null /\ p = order[pred] /\ x = order[Succ(j, c)]
       /\ p # n /\ x # n /\ p \in Nodes /\ x \in Nodes
       /\ hp[p] \in Node /\ hp[x] \in Node
  <2>1. n \in Nodes /\ hp[n] # Null /\ x = order[Succ(j, c)]
    BY <1>2, <1>3
  <2>2. p = order[pred]
    BY <1>3, <1>5
  <2> HIDE DEF p, x
  <2>3. p # n /\ x # n
    BY <1>4, <1>5, <2>1, <2>2
  <2> QED
    BY <1>2, <1>5, <2>1, <2>2, <2>3
<1> HIDE DEF at, shorter, p, x
<1>11. /\ hp2[n] = Null
       /\ \A m \in Nodes : m # n /\ hp[m] = Null => hp2[m] = Null
       /\ \A m \in Nodes : m # n /\ hp[m] # Null =>
            /\ hp2[m] \in Node /\ hp2[m] # Null /\ hp2[m].value = hp[m].value
            /\ hp2[m].next = IF m = p THEN x ELSE hp[m].next
            /\ hp2[m].prev = IF m = x THEN p ELSE hp[m].prev
  <2>1. hp2 = [hp EXCEPT ![p].next = x, ![x].prev = p, ![n] = Null]
    BY DEF Without, p, x
  <2>2. hp2[n] = Null
    BY <1>10, <2>1 DEF Heaps
  <2>3. ASSUME NEW m \in Nodes, m # n, hp[m] # Null
        PROVE  /\ hp2[m] \in Node /\ hp2[m] # Null /\ hp2[m].value = hp[m].value
               /\ hp2[m].next = IF m = p THEN x ELSE hp[m].next
               /\ hp2[m].prev = IF m = x THEN p ELSE hp[m].prev
    <3>1. hp[m] \in Node
      BY <2>3, NodeFacts
    <3>2. hp2[m] = [value |-> hp[m].value,
                    next |-> IF m = p THEN x ELSE hp[m].next,
                    prev |-> IF m = x THEN p ELSE hp[m].prev]
      BY <1>10, <2>1, <2>3, <3>1 DEF Heaps, Node
    <3>3. hp2[m] \in Node
      BY <1>10, <3>1, <3>2 DEF Node
    <3> QED
      BY <3>2, <3>3, NodeFacts
  <2>4. ASSUME NEW m \in Nodes, m # n, hp[m] = Null
        PROVE  hp2[m] = Null
    <3>1. m # p /\ m # x
      BY <1>10, <2>4, NodeFacts
    <3> QED
      BY <2>1, <2>4, <3>1 DEF Heaps
  <2> QED
    BY <2>2, <2>3, <2>4
<1>12. hp2 \in Heaps
  <2>1. \A m \in Nodes : hp2[m] \in Node \cup {Null}
    BY <1>11
  <2>2. hp2 = [m \in Nodes |-> hp2[m]]
    BY DEF Heaps, Without
  <2> QED
    BY <2>1, <2>2 DEF Heaps
<1>13. \A i, k \in 0 .. c - 2 : shorter[i] = shorter[k] => i = k
  BY <1>4, <1>6, <1>7, <1>8
<1>14. \A m \in Nodes : hp2[m] # Null <=> \E i \in 0 .. c - 2 : shorter[i] = m
  <2>1. \A m \in Nodes : hp2[m] # Null <=> m # n /\ hp[m] # Null
    BY <1>11
  <2>2. \A m \in Nodes : hp[m] # Null <=> \E k \in 0 .. c - 1 : order[k] = m
    BY DEF IsOrder
  <2>3. ASSUME NEW m \in Nodes, NEW k \in 0 .. c - 1, order[k] = m, m # n
        PROVE  \E i \in 0 .. c - 2 : shorter[i] = m
    <3>1. k # j
      BY <2>3
    <3>2. PICK i \in 0 .. c - 2 : at(i) = k
      BY <1>7, <3>1
    <3>3. shorter[i] = m
      BY <1>8, <2>3, <3>2
    <3> QED
      BY <3>3
  <2>4. ASSUME NEW m \in Nodes, NEW i \in 0 .. c - 2, shorter[i] = m
        PROVE  m # n /\ \E k \in 0 .. c - 1 : order[k] = m
    <3>1. at(i) \in 0 .. c - 1 /\ at(i) # j /\ order[at(i)] = m
      BY <1>6, <1>8, <2>4
    <3>2. m # n
      BY <1>4, <3>1
    <3> QED
      BY <3>1, <3>2
  <2> QED
    BY <2>1, <2>2, <2>3, <2>4
<1>15. shorter[0] = hd2
  <2>1. 0 \in 0 .. c - 2 /\ 0 \in 0 .. c - 1 /\ 1 \in 0 .. c - 1
    OBVIOUS
  <2>2. CASE j = 0
    <3>1. at(0) = 1 /\ Succ(j, c) = 1
      BY <2>2 DEF at, Succ
    <3>2. shorter[0] = x /\ hd = n
      BY <1>1, <1>8, <1>10, <2>1, <2>2, <3>1
    <3> QED
      BY <3>2 DEF x
  <2>3. CASE j # 0
    <3>1. at(0) = 0
      BY <2>3 DEF at
    <3>2. shorter[0] = hd /\ hd # n
      BY <1>1, <1>4, <1>8, <2>1, <2>3, <3>1
    <3> QED
      BY <3>2
  <2> QED
    BY <2>2, <2>3
<1>16. ASSUME NEW i \in 0 .. c - 2
       PROVE  /\ hp2[shorter[i]].next = shorter[Succ(i, c - 1)]
              /\ hp2[shorter[Succ(i, c - 1)]].prev = shorter[i]
  <2> DEFINE k == at(i)
             l == at(Succ(i, c - 1))
  <2>1. /\ k \in 0 .. c - 1 /\ k # j /\ l \in 0 .. c - 1 /\ l # j
        /\ Succ(i, c - 1) \in 0 .. c - 2
        /\ shorter[i] = order[k] /\ shorter[Succ(i, c - 1)] = order[l]
    BY <1>6, <1>8
  <2>2. /\ k = pred => l = Succ(j, c)
        /\ k # pred => l = Succ(k, c) /\ l # Succ(j, c)
    BY <1>6
  <2> HIDE DEF k, l
  <2>3. /\ order[k] # n /\ hp[order[k]] # Null /\ order[k] \in Nodes
        /\ order[l] # n /\ hp[order[l]] # Null /\ order[l] \in Nodes
    BY <1>2, <1>4, <2>1
  <2>4. CASE k = pred
    <3>1. order[k] = p /\ order[l] = x
      BY <1>10, <2>2, <2>4
    <3> QED
      BY <1>11, <2>1, <2>3, <3>1
  <2>5. CASE k # pred
    <3>1. order[k] # p /\ order[l] # x
      BY <1>4, <1>5, <1>10, <2>1, <2>2, <2>5
    <3>2. hp[order[k]].next = order[l] /\ hp[order[l]].prev = order[k]
      BY <1>3, <2>1, <2>2, <2>5
    <3> QED
      BY <1>11, <2>1, <2>3, <3>1, <3>2
  <2> QED
    BY <2>4, <2>5
<1>17. (c - 1) - 1 = c - 2
  OBVIOUS
<1>18. IsOrder(shorter, hp2, hd2, c - 1)
  BY <1>9, <1>13, <1>14, <1>15, <1>16, <1>17 DEF IsOrder
<1> QED
  BY <1>11, <1>12, <1>18 DEF shorter

LessOne(ring, i) == SubSeq(ring, 1, i - 1) \o SubSeq(ring, i + 1, Len(ring))

\* The values of the ring that is left, in their order.
LEMMA ListedShorter ==
  ASSUME NEW c \in Nat, c >= 2, NEW hp \in Heaps, NEW hd, NEW order,
         IsOrder(order, hp, hd, c),
         NEW j \in 0 .. c - 1, NEW hp2 \in Heaps, NEW hd2, NEW d, d = c - 1,
         NEW i, i = j + 1,
         IsOrder(Skipped(order, j, c), hp2, hd2, d),
         \A k \in 0 .. c - 1 : k # j => hp2[order[k]].value = hp[order[k]].value
  PROVE  Listed(Skipped(order, j, c), hp2, d) = LessOne(Listed(order, hp, c), i)
<1> DEFINE old == Listed(order, hp, c)
           new == Listed(Skipped(order, j, c), hp2, d)
           before == SubSeq(old, 1, j)
           behind == SubSeq(old, j + 2, c)
<1>1. c \in Nat \ {0} /\ d \in Nat \ {0}
  OBVIOUS
<1>2. /\ old \in Seq(Values) /\ Len(old) = c
      /\ \A k \in 1 .. c : old[k] = hp[order[k - 1]].value
  BY <1>1, ListedIsSeq
<1>3. /\ new \in Seq(Values) /\ Len(new) = d
      /\ \A k \in 1 .. d : new[k] = hp2[Skipped(order, j, c)[k - 1]].value
  BY <1>1, ListedIsSeq
<1> HIDE DEF old, new
<1>4. /\ before \in Seq(Values) /\ Len(before) = j
      /\ \A k \in 1 .. j : before[k] = old[k]
  BY <1>2, SubSeqProperties
<1>5. /\ behind \in Seq(Values) /\ Len(behind) = c - 1 - j
      /\ \A k \in 1 .. c - 1 - j : behind[k] = old[k + j + 1]
  BY <1>2, SubSeqProperties
<1> HIDE DEF before, behind
<1>6. /\ before \o behind \in Seq(Values) /\ Len(before \o behind) = d
      /\ \A k \in 1 .. d : (before \o behind)[k] =
                             IF k <= j THEN before[k] ELSE behind[k - j]
  <2>1. j + (c - 1 - j) = d
    OBVIOUS
  <2>2. /\ before \o behind \in Seq(Values)
        /\ Len(before \o behind) = Len(before) + Len(behind)
        /\ \A k \in 1 .. Len(before) + Len(behind) :
             (before \o behind)[k] =
               IF k <= Len(before) THEN before[k] ELSE behind[k - Len(before)]
    <3>1. before \in Seq(Values) /\ behind \in Seq(Values)
      BY <1>4, <1>5
    <3> QED
      BY <3>1, ConcatProperties
  <2> QED
    BY <1>4, <1>5, <2>1, <2>2
<1>7. ASSUME NEW k \in 1 .. d PROVE new[k] = (before \o behind)[k]
  <2>1. CASE k <= j
    <3>1. /\ k - 1 \in 0 .. c - 2 /\ k - 1 < j /\ k - 1 \in 0 .. c - 1
          /\ k \in 1 .. c /\ k \in 1 .. j /\ k - 1 # j
      BY <2>1
    <3>2. Skipped(order, j, c)[k - 1] = order[k - 1]
      BY <3>1 DEF Skipped
    <3>3. hp2[order[k - 1]].value = hp[order[k - 1]].value
      BY <3>1
    <3>4. (before \o behind)[k] = old[k]
      BY <1>4, <1>6, <2>1, <3>1
    <3> QED
      BY <1>2, <1>3, <3>1, <3>2, <3>3, <3>4
  <2>2. CASE ~(k <= j)
    <3>1. /\ k - 1 \in 0 .. c - 2 /\ ~(k - 1 < j) /\ k \in 0 .. c - 1 /\ k # j
          /\ k + 1 \in 1 .. c /\ k - j \in 1 .. c - 1 - j /\ (k + 1) - 1 = k
          /\ (k - j) + j + 1 = k + 1 /\ (k - 1) + 1 = k
      BY <2>2
    <3>2. Skipped(order, j, c)[k - 1] = order[k]
      BY <3>1 DEF Skipped
    <3>3. behind[k - j] = old[k + 1]
      BY <1>5, <3>1
    <3>4. old[k + 1] = hp[order[k]].value
      BY <1>2, <3>1
    <3> QED
      BY <1>3, <1>6, <2>2, <3>1, <3>2, <3>3, <3>4
  <2> QED
    BY <2>1, <2>2
<1>8. new = before \o behind
  BY <1>3, <1>6, <1>7, SeqEqual
<1>9. i - 1 = j /\ i + 1 = j + 2
  OBVIOUS
<1> QED
  BY <1>2, <1>8, <1>9 DEF old, new, before, behind, LessOne

-----------------------------------------------------------------------------
(* Walking the ring                                                        *)

\* The first hops from the head meet the nodes in their order.
Ordered ==
  count # 0 => \A order : IsOrder(order, heap, head, count)
                            => \A i \in 0 .. count - 1 : Walk[i] = order[i]

LEMMA WalkEquation ==
  ASSUME heap \in Heaps, head \in Nodes, count \in Nat \ {0}, Shape(heap, head, count)
  PROVE  /\ Walk[0] = head
         /\ \A k \in Nat : Walk[k + 1] = heap[Walk[k]].next
<1> DEFINE step == [n \in Allocated |-> heap[n].next]
<1>1. PICK order : IsOrder(order, heap, head, count)
  BY DEF Shape
<1>2. /\ 0 \in 0 .. count - 1
      /\ \A i \in 0 .. count - 1 : /\ order[i] \in Nodes /\ heap[order[i]] # Null
                                   /\ Succ(i, count) \in 0 .. count - 1
  BY <1>1, OrderFacts
<1>3. head \in Allocated
  BY <1>1, <1>2 DEF IsOrder, Allocated
<1>4. step \in [Allocated -> Allocated]
  <2> SUFFICES ASSUME NEW n \in Allocated PROVE heap[n].next \in Allocated
    OBVIOUS
  <2>1. PICK i \in 0 .. count - 1 : order[i] = n
    BY <1>1 DEF IsOrder, Allocated
  <2>2. heap[n].next = order[Succ(i, count)]
    BY <1>1, <2>1 DEF IsOrder
  <2> QED
    BY <1>2, <2>2 DEF Allocated
<1> HIDE DEF step
<1>5. PICK f : IsIteration(f, Allocated, head, step)
  BY <1>3, <1>4, Iteration
<1>5a. /\ f \in [Nat -> Allocated] /\ f[0] = head
       /\ \A k \in Nat : f[k + 1] = step[f[k]]
  BY <1>5 DEF IsIteration
<1>6. f = [k \in Nat |-> IF k = 0 THEN head ELSE heap[f[k - 1]].next]
  <2>1. ASSUME NEW k \in Nat
        PROVE  f[k] = IF k = 0 THEN head ELSE heap[f[k - 1]].next
    <3>1. CASE k = 0
      BY <1>5a, <3>1
    <3>2. CASE k # 0
      <4>1. k - 1 \in Nat /\ (k - 1) + 1 = k
        BY <3>2
      <4>2. f[k] = step[f[k - 1]]
        BY <1>5a, <4>1
      <4>3. f[k - 1] \in Allocated
        BY <1>5a, <4>1
      <4> QED
        BY <3>2, <4>2, <4>3 DEF step
    <3> QED
      BY <3>1, <3>2
  <2> QED
    BY <1>5a, <2>1
<1>7. Walk = [k \in Nat |-> IF k = 0 THEN head ELSE heap[Walk[k - 1]].next]
  BY <1>6 DEF Walk
<1>8. Walk[0] = head
  BY <1>7
<1>9. ASSUME NEW k \in Nat PROVE Walk[k + 1] = heap[Walk[k]].next
  <2>1. k + 1 \in Nat /\ k + 1 # 0 /\ (k + 1) - 1 = k
    OBVIOUS
  <2> QED
    BY <1>7, <2>1
<1> QED
  BY <1>8, <1>9

LEMMA WalkInOrder ==
  ASSUME heap \in Heaps, head \in Nodes, count \in Nat \ {0},
         NEW order, IsOrder(order, heap, head, count)
  PROVE  \A i \in 0 .. count - 1 : Walk[i] = order[i]
<1> DEFINE T == {i \in Nat : i < count => Walk[i] = order[i]}
<1>1. /\ Walk[0] = head
      /\ \A k \in Nat : Walk[k + 1] = heap[Walk[k]].next
  <2>1. Shape(heap, head, count)
    BY DEF Shape
  <2> QED
    BY <2>1, WalkEquation
<1>2. 0 \in T
  BY <1>1 DEF IsOrder
<1>3. ASSUME NEW i \in Nat, i \in T PROVE i + 1 \in T
  <2> SUFFICES ASSUME i + 1 < count PROVE Walk[i + 1] = order[i + 1]
    OBVIOUS
  <2>1. i \in 0 .. count - 1 /\ Succ(i, count) = i + 1 /\ i < count
    BY DEF Succ
  <2>2. Walk[i] = order[i]
    BY <1>3, <2>1
  <2>3. heap[order[i]].next = order[i + 1]
    BY <2>1 DEF IsOrder
  <2> QED
    BY <1>1, <2>2, <2>3
<1>4. Nat \subseteq T
  <2> HIDE DEF T
  <2> QED
    BY <1>2, <1>3, NaturalSet
<1> QED
  BY <1>4

\* There are no more nodes in the ring than on the heap.
LEMMA OrderSize ==
  ASSUME NEW c \in Nat \ {0}, NEW hp \in Heaps, NEW hd, NEW order,
         IsOrder(order, hp, hd, c)
  PROVE  /\ c <= MaxNodes
         /\ IsFiniteSet({n \in Nodes : hp[n] # Null})
         /\ Cardinality({n \in Nodes : hp[n] # Null}) = c
<1> DEFINE A == {n \in Nodes : hp[n] # Null}
           I == 0 .. c - 1
<1>1. IsFiniteSet(I) /\ Cardinality(I) = c
  <2>1. c - 1 - 0 + 1 = c /\ 0 <= c - 1
    OBVIOUS
  <2> QED
    BY <2>1, FS_Interval
<1>2. IsFiniteSet(Nodes) /\ Cardinality(Nodes) = MaxNodes
  <2>1. MaxNodes \in Nat \ {0}
    BY ListAssumption
  <2>2. MaxNodes - 1 + 1 = MaxNodes /\ 1 <= MaxNodes
    BY <2>1
  <2> QED
    BY <2>1, <2>2, FS_Interval DEF Nodes
<1>3. order \in Bijection(I, A)
  <2>1. order \in [I -> A]
    BY OrderFacts DEF IsOrder
  <2>2. \A i, j \in I : order[i] = order[j] => i = j
    BY DEF IsOrder
  <2>3. \A n \in A : \E i \in I : order[i] = n
    BY DEF IsOrder
  <2> HIDE DEF A, I
  <2> QED
    BY <2>1, <2>2, <2>3, Fun_IsBij
<1>4. IsFiniteSet(A) /\ Cardinality(A) = c
  <2>1. ExistsBijection(I, A)
    BY <1>3 DEF ExistsBijection
  <2> HIDE DEF A, I
  <2> QED
    BY <1>1, <2>1, FS_Bijection
<1>5. c <= MaxNodes
  <2>1. A \subseteq Nodes
    OBVIOUS
  <2> HIDE DEF A
  <2> QED
    BY <1>2, <1>4, <2>1, FS_Subset
<1> QED
  BY <1>4, <1>5

-----------------------------------------------------------------------------
(* The inductive invariant                                                 *)

TypeOK ==
  /\ heap \in Heaps
  /\ head \in Nodes \cup {Null} /\ count \in Nat
  /\ sought \in Values \cup {Null} /\ returned \in Values \cup {Null}
  /\ current \in Nodes \cup {Null}
  /\ alive \in BOOLEAN

\* A search in progress stands at a node of the ring.
CurrentStands == sought # Null => current \in Allocated

Inv == TypeOK /\ Shape(heap, head, count) /\ CurrentStands

LEMMA InitInv == Init => Inv
<1> SUFFICES ASSUME Init PROVE Inv
  OBVIOUS
<1>1. TypeOK
  BY DEF Init, TypeOK, Heaps
<1>2. Shape(heap, head, count)
  BY DEF Init, Shape
<1> QED
  BY <1>1, <1>2 DEF Init, Inv, CurrentStands

LEMMA HeadFacts ==
  ASSUME Inv
  PROVE  /\ head = Null <=> count = 0
         /\ count # 0 => /\ count \in Nat \ {0} /\ head \in Nodes
                         /\ \E order : IsOrder(order, heap, head, count)
         /\ count = 0 => \A n \in Nodes : heap[n] = Null
<1>1. heap \in Heaps /\ count \in Nat
  BY DEF Inv, TypeOK
<1>2. CASE count = 0
  <2>1. head = Null /\ \A n \in Nodes : heap[n] = Null
    BY <1>2 DEF Inv, Shape
  <2> QED
    BY <1>2, <2>1
<1>3. CASE count # 0
  <2>1. PICK order : IsOrder(order, heap, head, count)
    BY <1>3 DEF Inv, Shape
  <2>2. count \in Nat \ {0}
    BY <1>1, <1>3
  <2>3. head \in Nodes /\ head # Null
    BY <1>1, <2>1, <2>2, OrderFacts
  <2> QED
    BY <1>3, <2>1, <2>2, <2>3
<1> QED
  BY <1>2, <1>3

\* linkedlist_add keeps the ring, and its values are those of the old one and
\* the new value behind them.
LEMMA AddKeeps ==
  ASSUME Inv, NEW v \in Values, linkedlist_add(v)
  PROVE  /\ heap' \in Heaps /\ head' \in Nodes
         /\ count' = count + 1
         /\ \E order : /\ IsOrder(order, heap', head', count + 1)
                       /\ count = 0 => Listed(order, heap', count + 1) = Append(<<>>, v)
                       /\ count # 0 => \E old : /\ IsOrder(old, heap, head, count)
                                                /\ Listed(order, heap', count + 1)
                                                     = Append(Listed(old, heap, count), v)
<1>1. heap \in Heaps /\ count \in Nat /\ count' = count + 1
  BY DEF Inv, TypeOK, linkedlist_add
<1>2. PICK n \in Nodes \ Allocated : AddFirst(n, v) \/ AddLast(n, v)
  BY DEF linkedlist_add
<1>3. n \in Nodes /\ heap[n] = Null
  BY DEF Allocated
<1>4. CASE AddFirst(n, v)
  <2>1. /\ count = 0 /\ head' = n
        /\ heap' = AddedAlone(heap, n, v)
        /\ \A m \in Nodes : heap[m] = Null
    BY <1>4, HeadFacts DEF AddFirst, AddedAlone
  <2> DEFINE order == Alone(n)
  <2>2. /\ heap' \in Heaps
        /\ IsOrder(order, heap', n, 1)
        /\ Listed(order, heap', 1) = Append(<<>>, v)
    BY <1>1, <1>3, <2>1, FirstOrder
  <2> HIDE DEF order
  <2>3. count + 1 = 1
    BY <2>1
  <2>4. /\ IsOrder(order, heap', head', count + 1)
        /\ Listed(order, heap', count + 1) = Append(<<>>, v)
    BY <2>1, <2>2, <2>3, Zenon
  <2> QED
    BY <1>1, <1>3, <2>1, <2>2, <2>4
<1>5. CASE AddLast(n, v)
  <2>1. /\ count # 0 /\ head' = head
        /\ heap' = AddedBehind(heap, head, n, v)
    BY <1>1, <1>5 DEF AddLast, AddedBehind
  <2>2. PICK old : IsOrder(old, heap, head, count)
    BY <2>1, HeadFacts
  <2>3. count \in Nat \ {0} /\ head \in Nodes
    BY <2>1, HeadFacts
  <2> DEFINE longer == [i \in 0 .. count |-> IF i = count THEN n ELSE old[i]]
  <2>4. /\ heap' \in Heaps
        /\ IsOrder(longer, heap', head, count + 1)
        /\ Listed(longer, heap', count + 1) = Append(Listed(old, heap, count), v)
    BY <1>1, <1>3, <2>1, <2>2, <2>3, LongerOrder
  <2> QED
    BY <1>1, <2>1, <2>2, <2>3, <2>4
<1> QED
  BY <1>2, <1>4, <1>5

\* linkedlist_delete keeps the ring, less its node n.
LEMMA DeleteKeeps ==
  ASSUME Inv, NEW n \in Allocated, linkedlist_delete(n)
  PROVE  /\ heap' \in Heaps /\ count # 0 /\ count' = count - 1
         /\ count = 1 => head' = Null /\ \A m \in Nodes : heap'[m] = Null
         /\ count # 1 =>
              /\ head' \in Nodes
              /\ \E old, order :
                   /\ IsOrder(old, heap, head, count)
                   /\ IsOrder(order, heap', head', count - 1)
                   /\ \E i \in 1 .. count :
                        /\ old[i - 1] = n
                        /\ Listed(order, heap', count - 1)
                             = LessOne(Listed(old, heap, count), i)
<1>1. /\ heap \in Heaps /\ count \in Nat /\ count' = count - 1
      /\ n \in Nodes /\ heap[n] # Null
      /\ heap' = Without(heap, n) /\ head' = HeadAfter(n)
  BY DEF Inv, TypeOK, linkedlist_delete, Allocated, Without
<1>2. count # 0
  BY <1>1, HeadFacts
<1>3. PICK old : IsOrder(old, heap, head, count)
  BY <1>2, HeadFacts
<1>4. CASE count = 1
  <2>1. IsOrder(old, heap, head, 1)
    BY <1>3, <1>4
  <2>2. head = n /\ \A m \in Nodes : heap'[m] = Null
    BY <1>1, <2>1, LastNodeGoes
  <2>3. heap' \in Heaps
    <3>1. heap' = [m \in Nodes |-> heap'[m]]
      BY <1>1 DEF Heaps, Without
    <3> QED
      BY <2>2, <3>1 DEF Heaps
  <2> QED
    BY <1>1, <1>2, <1>4, <2>2, <2>3 DEF HeadAfter
<1>5. CASE count # 1
  <2>1. count \in Nat /\ count >= 2
    BY <1>1, <1>2, <1>5
  <2>2. PICK j \in 0 .. count - 1 : old[j] = n
    BY <1>1, <1>3 DEF IsOrder
  <2>3. head' = IF head # n THEN head ELSE heap[n].next
    BY <1>1, <1>5 DEF HeadAfter
  <2> DEFINE order == Skipped(old, j, count)
             d == count - 1
  <2>4. /\ heap' \in Heaps
        /\ IsOrder(order, heap', head', d)
        /\ \A m \in Nodes : m # n /\ heap[m] # Null => heap'[m].value = heap[m].value
    BY <1>1, <1>3, <2>1, <2>2, <2>3, ShorterOrder
  <2>5. d \in Nat \ {0} /\ d = count - 1
    BY <2>1
  <2> HIDE DEF d
  <2>6. head' \in Nodes
    BY <2>4, <2>5, OrderFacts
  <2>7. \A i \in 0 .. count - 1 : i # j => heap'[old[i]].value = heap[old[i]].value
    <3>1. count \in Nat \ {0}
      BY <2>1
    <3>2. \A i \in 0 .. count - 1 : old[i] \in Nodes /\ heap[old[i]] # Null
      BY <1>1, <1>3, <3>1, OrderFacts
    <3>3. \A i \in 0 .. count - 1 : i # j => old[i] # n
      BY <1>3, <2>2 DEF IsOrder
    <3> QED
      BY <2>4, <3>2, <3>3
  <2> DEFINE ring == Listed(old, heap, count)
             i == j + 1
  <2>8. Listed(order, heap', d) = LessOne(ring, i)
    <3>1. /\ IsOrder(Skipped(old, j, count), heap', head', d) /\ heap' \in Heaps
          /\ heap \in Heaps /\ d = count - 1 /\ i = j + 1
      BY <1>1, <2>4, <2>5
    <3> HIDE DEF i
    <3>2. Listed(Skipped(old, j, count), heap', d) = LessOne(Listed(old, heap, count), i)
      BY <1>3, <2>1, <2>7, <3>1, ListedShorter
    <3> QED
      BY <3>2
  <2>9. i \in 1 .. count /\ old[i - 1] = n
    <3>1. i - 1 = j
      BY <2>1
    <3> QED
      BY <2>1, <2>2, <3>1
  <2> HIDE DEF i, order
  <2>10. \E k \in 1 .. count : /\ old[k - 1] = n
                              /\ Listed(order, heap', d) = LessOne(ring, k)
    BY <2>8, <2>9
  <2> QED
    BY <1>1, <1>2, <1>3, <1>5, <2>4, <2>5, <2>6, <2>10
<1> QED
  BY <1>4, <1>5

\* linkedlist_next turns the ring by one node, and returns the one it leaves.
LEMMA NextKeeps ==
  ASSUME Inv, linkedlist_next
  PROVE  /\ heap' = heap /\ count' = count
         /\ head = Null => head' = Null /\ returned' = Null
         /\ head # Null =>
              /\ head' \in Nodes /\ returned' \in Values
              /\ \E old, order :
                   /\ IsOrder(old, heap, head, count)
                   /\ IsOrder(order, heap, head', count)
                   /\ LET ring == Listed(old, heap, count)
                      IN /\ Listed(order, heap, count) = Append(Tail(ring), Head(ring))
                         /\ returned' = Head(ring)
<1>1. heap' = heap /\ count' = count /\ heap \in Heaps
  BY DEF Inv, TypeOK, linkedlist_next
<1>2. CASE head = Null
  BY <1>1, <1>2 DEF linkedlist_next
<1>3. CASE head # Null
  <2>1. /\ head' = heap[head].next
        /\ returned' = heap[heap[heap[head].next].prev].value
    BY <1>3 DEF linkedlist_next
  <2>2. PICK old : IsOrder(old, heap, head, count)
    BY <1>3, HeadFacts
  <2>3. count \in Nat \ {0}
    BY <1>3, HeadFacts
  <2> DEFINE order == Rotated(old, count)
             ring == Listed(old, heap, count)
  <2>4. /\ IsOrder(order, heap, heap[head].next, count)
        /\ Listed(order, heap, count) = Append(Tail(ring), Head(ring))
        /\ Head(ring) = heap[heap[heap[head].next].prev].value
    BY <1>1, <2>2, <2>3, RotatedOrder
  <2> HIDE DEF order
  <2>5. head' \in Nodes
    BY <1>1, <2>1, <2>3, <2>4, OrderFacts
  <2>6. returned' \in Values
    <3>1. /\ ring \in Seq(Values) /\ Len(ring) = count
          /\ \A k \in 1 .. count : ring[k] = heap[old[k - 1]].value
      BY <1>1, <2>2, <2>3, ListedIsSeq
    <3> HIDE DEF ring
    <3>2. Head(ring) \in Values
      BY <2>3, <3>1, HeadTailProperties
    <3> QED
      BY <2>1, <2>4, <3>2
  <2>7. \E turned :
           /\ IsOrder(old, heap, head, count)
           /\ IsOrder(turned, heap, head', count)
           /\ Listed(turned, heap, count) = Append(Tail(ring), Head(ring))
           /\ returned' = Head(ring)
    BY <2>1, <2>2, <2>4, Zenon
  <2> QED
    BY <1>1, <1>3, <2>5, <2>6, <2>7
<1> QED
  BY <1>2, <1>3

\* linkedlist_free reaches every node: the first hop onto the tail is the last
\* of count hops.
LEMMA FreesAll ==
  ASSUME Inv, linkedlist_free
  PROVE  \A n \in Nodes : heap'[n] = Null
<1>1. heap' = [n \in Nodes |-> IF n \in FreedBy THEN Null ELSE heap[n]]
  BY DEF linkedlist_free
<1>2. CASE count = 0
  BY <1>1, <1>2, HeadFacts
<1>3. CASE count # 0
  <2>1. PICK order : IsOrder(order, heap, head, count)
    BY <1>3, HeadFacts
  <2>2. heap \in Heaps /\ head \in Nodes /\ count \in Nat \ {0} /\ head # Null
    BY <1>3, HeadFacts DEF Inv, TypeOK
  <2>3. \A i \in 0 .. count - 1 : Walk[i] = order[i]
    BY <2>1, <2>2, WalkInOrder
  <2>4. count - 1 \in 0 .. count - 1 /\ heap[head].prev = order[count - 1]
    BY <2>1, <2>2, OrderFacts
  <2>5. count <= MaxNodes
    BY <2>1, <2>2, OrderSize
  <2>6. \A i, j \in 0 .. count - 1 : order[i] = order[j] => i = j
    BY <2>1 DEF IsOrder
  <2> DEFINE IsLast(k) == /\ Walk[k] = heap[head].prev
                          /\ \A j \in 0 .. k - 1 : Walk[j] # Walk[k]
  <2>7. IsLast(count - 1) /\ count - 1 \in 0 .. MaxNodes
    <3>1. \A j \in 0 .. (count - 1) - 1 : j \in 0 .. count - 1 /\ j # count - 1
      BY <2>2
    <3>2. count - 1 \in 0 .. MaxNodes
      BY <2>2, <2>5, ListAssumption
    <3> QED
      BY <2>3, <2>4, <2>6, <3>1, <3>2
  <2>8. ASSUME NEW k \in 0 .. MaxNodes, IsLast(k) PROVE k = count - 1
    <3>1. CASE k < count
      <4>1. k \in 0 .. count - 1
        BY <2>2, <3>1, ListAssumption
      <4> QED
        BY <2>3, <2>4, <2>6, <2>8, <4>1
    <3>2. CASE ~(k < count)
      <4>1. count - 1 \in 0 .. k - 1
        BY <2>2, <3>2, ListAssumption
      <4> QED
        BY <2>3, <2>4, <2>8, <4>1
    <3> QED
      BY <3>1, <3>2
  <2>9. Last = CHOOSE k \in 0 .. MaxNodes : IsLast(k)
    BY DEF Last
  <2> HIDE DEF IsLast
  <2>10. Last = count - 1
    BY <2>7, <2>8, <2>9
  <2>11. FreedBy = {Walk[k] : k \in 0 .. count - 1}
    BY <2>2, <2>10 DEF FreedBy
  <2>12. \A n \in Nodes : heap[n] # Null => n \in FreedBy
    <3>1. \A n \in Nodes : heap[n] # Null => \E i \in 0 .. count - 1 : order[i] = n
      BY <2>1 DEF IsOrder
    <3> QED
      BY <2>3, <2>11, <3>1
  <2> QED
    BY <1>1, <2>12
<1> QED
  BY <1>2, <1>3

LEMMA StepInv ==
  ASSUME Inv, [Next]_vars
  PROVE  Inv'
<1>1. /\ heap \in Heaps /\ count \in Nat /\ head \in Nodes \cup {Null}
      /\ sought \in Values \cup {Null} /\ returned \in Values \cup {Null}
      /\ current \in Nodes \cup {Null} /\ alive \in BOOLEAN
  BY DEF Inv, TypeOK
<1>2. ASSUME NEW v \in Values, linkedlist_add(v) PROVE Inv'
  <2>1. UNCHANGED <<sought, current, returned, alive>> /\ sought = Null
    BY <1>2 DEF linkedlist_add, Callable
  <2>2. /\ heap' \in Heaps /\ head' \in Nodes /\ count' = count + 1
        /\ \E order : IsOrder(order, heap', head', count + 1)
    BY <1>2, AddKeeps
  <2>3. count' \in Nat /\ count' # 0
    BY <1>1, <2>2
  <2>4. TypeOK'
    BY <1>1, <2>1, <2>2, <2>3 DEF TypeOK
  <2>5. Shape(heap', head', count')
    BY <2>2, <2>3 DEF Shape
  <2> QED
    BY <2>1, <2>4, <2>5 DEF Inv, CurrentStands
<1>3. ASSUME NEW n \in Allocated, linkedlist_delete(n) PROVE Inv'
  <2>1. UNCHANGED <<sought, current, returned, alive>> /\ sought = Null
    BY <1>3 DEF linkedlist_delete, Callable
  <2>2. /\ heap' \in Heaps /\ count # 0 /\ count' = count - 1
        /\ count = 1 => head' = Null /\ \A m \in Nodes : heap'[m] = Null
        /\ count # 1 => /\ head' \in Nodes
                        /\ \E order : IsOrder(order, heap', head', count - 1)
    BY <1>3, DeleteKeeps
  <2>3. count' \in Nat /\ (count' = 0 <=> count = 1)
    BY <1>1, <2>2
  <2>4. TypeOK'
    BY <1>1, <2>1, <2>2, <2>3 DEF TypeOK
  <2>5. Shape(heap', head', count')
    BY <2>2, <2>3 DEF Shape
  <2> QED
    BY <2>1, <2>4, <2>5 DEF Inv, CurrentStands
<1>4. CASE linkedlist_next
  <2>1. UNCHANGED <<heap, count, sought, current, alive>> /\ sought = Null
    BY <1>4 DEF linkedlist_next, Callable
  <2>2. /\ head = Null => head' = Null /\ returned' = Null
        /\ head # Null => /\ head' \in Nodes /\ returned' \in Values
                          /\ \E order : IsOrder(order, heap, head', count)
    BY <1>4, NextKeeps
  <2>3. TypeOK'
    BY <1>1, <2>1, <2>2 DEF TypeOK
  <2>4. Shape(heap', head', count')
    <3>1. CASE head = Null
      BY <2>1, <2>2, <3>1 DEF Inv
    <3>2. CASE head # Null
      BY <2>1, <2>2, <3>2, HeadFacts DEF Shape
    <3> QED
      BY <3>1, <3>2
  <2> QED
    BY <2>1, <2>3, <2>4 DEF Inv, CurrentStands
<1>5. CASE GetFromEmpty
  <2>1. /\ UNCHANGED <<heap, head, count, sought, current, alive>>
        /\ sought = Null /\ returned' = Null
    BY <1>5 DEF GetFromEmpty, Callable
  <2> QED
    BY <1>1, <2>1 DEF Inv, TypeOK, CurrentStands
<1>6. ASSUME NEW v \in Values, GetBegin(v) PROVE Inv'
  <2>1. /\ UNCHANGED <<heap, head, count, returned, alive>>
        /\ sought' = v /\ current' = head /\ head # Null
    BY <1>6 DEF GetBegin
  <2>2. head \in Allocated
    <3>1. PICK order : IsOrder(order, heap, head, count)
      BY <2>1, HeadFacts
    <3>2. count \in Nat \ {0}
      BY <2>1, HeadFacts
    <3>3. 0 \in 0 .. count - 1 /\ heap[order[0]] # Null /\ order[0] = head
      BY <1>1, <3>1, <3>2, OrderFacts DEF IsOrder
    <3> QED
      BY <1>1, <2>1, <3>3 DEF Allocated
  <2>3. TypeOK'
    BY <1>1, <2>1 DEF TypeOK
  <2>4. CurrentStands'
    BY <2>1, <2>2 DEF CurrentStands, Allocated
  <2> QED
    BY <2>1, <2>3, <2>4 DEF Inv
<1>7. CASE GetTurn
  <2>1. UNCHANGED <<heap, head, count, alive>> /\ sought # Null /\ current \in Allocated
    BY <1>7 DEF GetTurn, Inv, CurrentStands
  <2>2. heap[current].next \in Allocated
    <3>1. count # 0
      BY <2>1, HeadFacts DEF Allocated
    <3>2. PICK order : IsOrder(order, heap, head, count)
      BY <3>1, HeadFacts
    <3>3. PICK i \in 0 .. count - 1 : order[i] = current
      BY <2>1, <3>2 DEF IsOrder, Allocated
    <3>4. /\ heap[current].next = order[Succ(i, count)]
          /\ Succ(i, count) \in 0 .. count - 1
          /\ \A k \in 0 .. count - 1 : order[k] \in Nodes /\ heap[order[k]] # Null
      <4>1. count \in Nat \ {0}
        BY <3>1, HeadFacts
      <4>2. heap[current].next = order[Succ(i, count)]
        BY <3>2, <3>3 DEF IsOrder
      <4>3. \A k \in 0 .. count - 1 : /\ order[k] \in Nodes /\ heap[order[k]] # Null
                                       /\ Succ(k, count) \in 0 .. count - 1
        BY <1>1, <3>2, <4>1, OrderFacts
      <4> QED
        BY <4>2, <4>3
    <3> QED
      BY <3>4 DEF Allocated
  <2>3. \/ returned' = sought /\ sought' = Null /\ current' = Null
        \/ /\ current' = heap[current].next /\ sought' = sought
           /\ returned' = returned
    BY <1>7 DEF GetTurn
  <2>4. TypeOK'
    BY <1>1, <2>1, <2>2, <2>3 DEF TypeOK, Allocated
  <2>5. CurrentStands'
    BY <2>1, <2>2, <2>3 DEF CurrentStands, Allocated
  <2> QED
    BY <2>1, <2>4, <2>5 DEF Inv
<1>8. CASE linkedlist_free
  <2>1. /\ UNCHANGED <<sought, current, returned>> /\ sought = Null
        /\ alive' = FALSE /\ head' = Null /\ count' = 0
        /\ heap' = [n \in Nodes |-> IF n \in FreedBy THEN Null ELSE heap[n]]
    BY <1>8 DEF linkedlist_free, Callable
  <2>2. \A n \in Nodes : heap'[n] = Null
    BY <1>8, FreesAll
  <2>3. heap' \in Heaps
    BY <1>1, <2>1 DEF Heaps
  <2>4. TypeOK'
    BY <1>1, <2>1, <2>3 DEF TypeOK
  <2>5. Shape(heap', head', count')
    BY <2>1, <2>2 DEF Shape
  <2> QED
    BY <2>1, <2>4, <2>5 DEF Inv, CurrentStands
<1>9. CASE UNCHANGED vars
  BY <1>9 DEF vars, Inv, TypeOK, CurrentStands, Allocated
<1> QED
  BY <1>2, <1>3, <1>4, <1>5, <1>6, <1>7, <1>8, <1>9 DEF Next

\* The links of the nodes on the heap form one ring of count nodes, and a
\* search stands on it.
THEOREM InvHolds == Spec => []Inv
<1>1. Inv /\ [Next]_vars => Inv'
  BY StepInv
<1> QED
  BY <1>1, InitInv, PTL DEF Spec

\* Every variable of the list keeps its type.
THEOREM TypeCorrect == Spec => []TypeOK
<1>1. Inv => TypeOK
  BY DEF Inv
<1> QED
  BY <1>1, InvHolds, PTL

\* Whatever was added, deleted and rotated, the nodes on the heap are those of
\* one ring of count nodes, whose links mirror each other.
THEOREM OneRingHolds == Spec => []OneRing
<1>1. Inv => OneRing
  <2> SUFFICES ASSUME Inv PROVE OneRing
    OBVIOUS
  <2>1. CASE count = 0
    <3>1. head = Null /\ Allocated = {}
      BY <2>1, HeadFacts DEF Allocated
    <3> QED
      BY <2>1, <3>1 DEF OneRing
  <2>2. CASE count # 0
    <3>1. PICK order : IsOrder(order, heap, head, count)
      BY <2>2, HeadFacts
    <3>2. heap \in Heaps /\ head \in Nodes /\ count \in Nat \ {0} /\ head # Null
      BY <2>2, HeadFacts DEF Inv, TypeOK
    <3>3. \A i \in 0 .. count - 1 : Walk[i] = order[i]
      BY <3>1, <3>2, WalkInOrder
    <3>4. Cardinality(Allocated) = count
      BY <3>1, <3>2, OrderSize DEF Allocated
    <3>5. \A n \in Allocated : \E i \in 0 .. count - 1 : order[i] = n
      BY <3>1 DEF IsOrder, Allocated
    <3>6. \A i \in 0 .. count - 1 : /\ order[i] \in Allocated
                                   /\ Succ(i, count) \in 0 .. count - 1
      BY <3>1, <3>2, OrderFacts DEF Allocated
    <3>7. {Walk[i] : i \in 0 .. count - 1} = Allocated
      BY <3>3, <3>5, <3>6
    <3>8. ASSUME NEW n \in Allocated
          PROVE  heap[heap[n].next].prev = n /\ heap[heap[n].prev].next = n
      <4>1. PICK i \in 0 .. count - 1 : order[i] = n
        BY <3>5
      <4>2. heap[order[i]].next = order[Succ(i, count)]
            /\ heap[order[Succ(i, count)]].prev = order[i]
        BY <3>1 DEF IsOrder
      <4>3. \E k \in 0 .. count - 1 : Succ(k, count) = i
        <5>1. CASE i = 0
          <6>1. count - 1 \in 0 .. count - 1 /\ Succ(count - 1, count) = i
            BY <3>2, <5>1 DEF Succ
          <6> QED
            BY <6>1
        <5>2. CASE i # 0
          <6>1. i - 1 \in 0 .. count - 1 /\ Succ(i - 1, count) = i
            BY <3>2, <5>2 DEF Succ
          <6> QED
            BY <6>1
        <5> QED
          BY <5>1, <5>2
      <4>4. PICK k \in 0 .. count - 1 : Succ(k, count) = i
        BY <4>3
      <4>5. heap[order[k]].next = order[i] /\ heap[order[i]].prev = order[k]
        BY <3>1, <4>4 DEF IsOrder
      <4> QED
        BY <4>1, <4>2, <4>5
    <3> QED
      BY <2>2, <3>2, <3>4, <3>7, <3>8 DEF OneRing
  <2> QED
    BY <2>1, <2>2
<1> QED
  BY <1>1, InvHolds, PTL

-----------------------------------------------------------------------------
(* The list is a ring of values                                            *)

\* What Promise takes for its ring.
Contents == [k \in 1 .. count |-> heap[Walk[k - 1]].value]

\* Any order of the nodes lists the contents.
ContentsListed ==
  /\ count = 0 => Contents = <<>>
  /\ \A order : count # 0 /\ IsOrder(order, heap, head, count)
                  => Contents = Listed(order, heap, count)

LEMMA InvLists == Inv => ContentsListed
<1> SUFFICES ASSUME Inv PROVE ContentsListed
  OBVIOUS
<1>1. count = 0 => Contents = <<>>
  BY DEF Contents
<1>2. ASSUME NEW order, count # 0, IsOrder(order, heap, head, count)
      PROVE  Contents = Listed(order, heap, count)
  <2>1. heap \in Heaps /\ head \in Nodes /\ count \in Nat \ {0}
    BY <1>2, HeadFacts DEF Inv, TypeOK
  <2>2. \A i \in 0 .. count - 1 : Walk[i] = order[i]
    BY <1>2, <2>1, WalkInOrder
  <2>3. \A k \in 1 .. count : k - 1 \in 0 .. count - 1
    BY <2>1
  <2>4. \A k \in 1 .. count : Walk[k - 1] = order[k - 1]
    BY <2>2, <2>3
  <2> QED
    BY <2>4 DEF Contents, Listed
<1> QED
  BY <1>1, <1>2 DEF ContentsListed

LEMMA InitOfRing == Init => Promise!Init
BY DEF Init, Promise!Init

\* Every call is the one of the ring it stands for.
LEMMA StepOfRing ==
  ASSUME Inv, ContentsListed, Inv', ContentsListed'
  PROVE  /\ \A value \in Values :
              /\ linkedlist_add(value) => Promise!Add(value)
              /\ GetFromEmpty => Promise!Find(value)
              /\ GetBegin(value) => UNCHANGED Promise!vars
         /\ \A k \in 1 .. count :
              linkedlist_delete(Walk[k - 1]) => Promise!TakeOut(k)
         /\ linkedlist_next => Promise!Rotate
         /\ GetTurn => IF sought' = Null THEN Promise!Find(sought)
                       ELSE UNCHANGED Promise!vars
         /\ linkedlist_free => Promise!Clear
<1>1. ASSUME NEW v \in Values, linkedlist_add(v) PROVE Promise!Add(v)
  <2>1. returned' = returned
    BY <1>1 DEF linkedlist_add
  <2>2. count \in Nat
    BY DEF Inv, TypeOK
  <2>3. PICK order :
          /\ IsOrder(order, heap', head', count')
          /\ count = 0 => Listed(order, heap', count') = Append(<<>>, v)
          /\ count # 0 => \E old : /\ IsOrder(old, heap, head, count)
                                   /\ Listed(order, heap', count')
                                        = Append(Listed(old, heap, count), v)
    BY <1>1, AddKeeps
  <2>4. count' # 0
    BY <1>1, <2>2 DEF linkedlist_add
  <2>5. Contents' = Listed(order, heap', count')
    BY <2>3, <2>4 DEF ContentsListed
  <2>6. Contents' = Append(Contents, v)
    BY <2>3, <2>5 DEF ContentsListed
  <2> QED
    BY <2>1, <2>6 DEF Promise!Add, Contents
<1>2. ASSUME NEW k \in 1 .. count, linkedlist_delete(Walk[k - 1])
      PROVE  Promise!TakeOut(k)
  <2> DEFINE n == Walk[k - 1]
  <2>1. returned' = returned
    BY <1>2 DEF linkedlist_delete
  <2>2. count \in Nat \ {0} /\ heap \in Heaps /\ head \in Nodes
    BY HeadFacts DEF Inv, TypeOK
  <2>3. \A order : IsOrder(order, heap, head, count)
                    => n = order[k - 1] /\ n \in Allocated
    <3> SUFFICES ASSUME NEW order, IsOrder(order, heap, head, count)
                 PROVE  n = order[k - 1] /\ n \in Allocated
      OBVIOUS
    <3>1. k - 1 \in 0 .. count - 1
      BY <2>2
    <3>2. n = order[k - 1]
      BY <2>2, <3>1, WalkInOrder
    <3> HIDE DEF n
    <3>3. n \in Nodes /\ heap[n] # Null
      BY <2>2, <3>1, <3>2, OrderFacts
    <3> QED
      BY <3>2, <3>3 DEF Allocated
  <2>4. n \in Allocated
    BY <2>2, <2>3, HeadFacts
  <2> HIDE DEF n
  <2>5. /\ count # 0 /\ count' = count - 1
        /\ count # 1 =>
              \E old, order :
                   /\ IsOrder(old, heap, head, count)
                   /\ IsOrder(order, heap', head', count - 1)
                   /\ \E i \in 1 .. count :
                        /\ old[i - 1] = n
                        /\ Listed(order, heap', count - 1)
                             = LessOne(Listed(old, heap, count), i)
    BY <1>2, <2>4, DeleteKeeps DEF n
  <2>6. Contents' = LessOne(Contents, k)
    <3>1. DOMAIN Contents = 1 .. count
      BY DEF Contents
    <3>2. CASE count = 1
      <4>1. Contents' = <<>>
        BY <2>5, <3>2 DEF ContentsListed
      <4>2. DOMAIN Contents = {1} /\ Len(Contents) = 1
        BY <3>1, <3>2 DEF Contents
      <4>3. LessOne(Contents, 1) = <<>> \o <<>>
        <5>1. SubSeq(Contents, 1, 1 - 1) = <<>>
          BY SubSeqEmpty
        <5>2. SubSeq(Contents, 1 + 1, Len(Contents)) = <<>>
          BY <4>2, SubSeqEmpty
        <5> QED
          BY <5>1, <5>2 DEF LessOne
      <4>4. <<>> \o <<>> = <<>>
        BY ConcatEmptySeq
      <4>5. k = 1
        BY <3>2
      <4> QED
        BY <4>1, <4>3, <4>4, <4>5
    <3>3. CASE count # 1
      <4>1. PICK old, order :
              /\ IsOrder(old, heap, head, count)
              /\ IsOrder(order, heap', head', count')
              /\ \E i \in 1 .. count :
                   /\ old[i - 1] = n
                   /\ Listed(order, heap', count') = LessOne(Listed(old, heap, count), i)
        BY <2>5, <3>3
      <4>2. Contents = Listed(old, heap, count)
        BY <2>5, <4>1 DEF ContentsListed
      <4>3. Contents' = Listed(order, heap', count')
        BY <2>2, <2>5, <3>3, <4>1 DEF ContentsListed
      <4>4. PICK i \in 1 .. count :
              /\ old[i - 1] = n
              /\ Listed(order, heap', count') = LessOne(Listed(old, heap, count), i)
        BY <4>1
      <4>5. i = k
        <5>1. i - 1 \in 0 .. count - 1 /\ k - 1 \in 0 .. count - 1
          BY <2>2
        <5>2. old[i - 1] = old[k - 1]
          BY <2>3, <4>1, <4>4
        <5>3. i - 1 = k - 1
          BY <4>1, <5>1, <5>2 DEF IsOrder
        <5> QED
          BY <2>2, <5>3
      <4> QED
        BY <4>2, <4>3, <4>4, <4>5
    <3> QED
      BY <3>2, <3>3
  <2> QED
    BY <2>1, <2>6 DEF Promise!TakeOut, Promise!RemoveAt, LessOne, Contents
<1>3. ASSUME linkedlist_next PROVE Promise!Rotate
  <2>1. CASE head = Null
    <3>1. returned' = Null /\ count = 0 /\ count' = 0
      BY <1>3, <2>1, NextKeeps, HeadFacts
    <3>2. Contents = <<>> /\ Contents' = <<>>
      BY <3>1 DEF ContentsListed
    <3> QED
      BY <3>1, <3>2 DEF Promise!Rotate, Contents
  <2>2. CASE head # Null
    <3>1. count # 0 /\ heap' = heap /\ count' = count /\ count \in Nat \ {0}
      BY <1>3, <2>2, NextKeeps, HeadFacts
    <3>2. PICK old, order :
             /\ IsOrder(old, heap, head, count)
             /\ IsOrder(order, heap, head', count)
             /\ Listed(order, heap, count)
                  = Append(Tail(Listed(old, heap, count)), Head(Listed(old, heap, count)))
             /\ returned' = Head(Listed(old, heap, count))
      BY <1>3, <2>2, NextKeeps
    <3>3. Contents = Listed(old, heap, count)
      BY <3>1, <3>2 DEF ContentsListed
    <3>4. Contents' = Listed(order, heap, count)
      BY <3>1, <3>2 DEF ContentsListed
    <3>5. Contents # <<>>
      <4>1. Len(Contents) = count
        BY <3>1 DEF Contents
      <4> QED
        BY <3>1, <4>1
    <3> QED
      BY <3>2, <3>3, <3>4, <3>5 DEF Promise!Rotate, Contents
  <2> QED
    BY <2>1, <2>2
<1>4. ASSUME NEW v \in Values, GetFromEmpty PROVE Promise!Find(v)
  <2>1. returned' = Null /\ count = 0 /\ count' = 0
    BY <1>4, HeadFacts DEF GetFromEmpty
  <2>2. Contents = <<>> /\ Contents' = <<>>
    BY <2>1 DEF ContentsListed
  <2>3. v \notin Promise!ToSet(Contents)
    BY <2>2 DEF Promise!ToSet
  <2> QED
    BY <2>1, <2>2, <2>3 DEF Promise!Find, Contents
<1>5. ASSUME UNCHANGED <<heap, head, count>>
      PROVE  Contents' = Contents
  <2>1. Walk' = Walk
    BY <1>5 DEF Walk
  <2> QED
    BY <1>5, <2>1 DEF Contents
<1>6. ASSUME NEW v \in Values, GetBegin(v) PROVE UNCHANGED Promise!vars
  BY <1>5, <1>6 DEF GetBegin, Promise!vars, Contents
<1>7. ASSUME GetTurn
      PROVE  IF sought' = Null THEN Promise!Find(sought)
             ELSE UNCHANGED Promise!vars
  <2>1. Contents' = Contents /\ sought # Null
    BY <1>5, <1>7 DEF GetTurn
  <2>2. CASE sought' # Null
    BY <1>7, <2>1, <2>2 DEF GetTurn, Promise!vars, Contents
  <2>3. CASE sought' = Null
    <3>1. returned' = sought /\ heap[current].value = sought /\ current \in Allocated
      BY <1>7, <2>1, <2>3 DEF GetTurn, Inv, CurrentStands
    <3>3. count # 0 /\ count \in Nat \ {0}
      BY <3>1, HeadFacts DEF Allocated
    <3>4. PICK order : IsOrder(order, heap, head, count)
      BY <3>3, HeadFacts
    <3>5. PICK i \in 0 .. count - 1 : order[i] = current
      BY <3>1, <3>4 DEF IsOrder, Allocated
    <3>6. Contents = Listed(order, heap, count)
      BY <3>3, <3>4 DEF ContentsListed
    <3>7. i + 1 \in 1 .. count /\ (i + 1) - 1 = i
      BY <3>3
    <3>8. i + 1 \in DOMAIN Contents /\ Contents[i + 1] = sought
      BY <3>1, <3>5, <3>6, <3>7 DEF Listed
    <3>9. sought \in Promise!ToSet(Contents)
      BY <3>8 DEF Promise!ToSet
    <3> QED
      BY <2>1, <2>3, <3>1, <3>9 DEF Promise!Find, Contents
  <2> QED
    BY <2>2, <2>3
<1>8. ASSUME linkedlist_free PROVE Promise!Clear
  <2>1. count' = 0 /\ returned' = returned
    BY <1>8 DEF linkedlist_free
  <2>2. Contents' = <<>>
    BY <2>1 DEF ContentsListed
  <2> QED
    BY <2>1, <2>2 DEF Promise!Clear, Contents
<1> QED
  BY <1>1, <1>2, <1>3, <1>4, <1>6, <1>7, <1>8

\* Through every call, the list holds the sequence of values that Ring promises
\* and returns what Ring returns for that call: an add is an add at the end, a
\* delete takes out the value of its own node, and a search moves nothing.
THEOREM ImplementsRingHolds == Spec => ImplementsRing
<1>1. Inv => ContentsListed
  BY InvLists
<1>2. Inv /\ ContentsListed /\ Inv' /\ ContentsListed'
      => [/\ \A value \in Values :
               /\ linkedlist_add(value) => Promise!Add(value)
               /\ GetFromEmpty => Promise!Find(value)
               /\ GetBegin(value) => UNCHANGED Promise!vars
          /\ \A k \in 1 .. count :
               linkedlist_delete(Walk[k - 1]) => Promise!TakeOut(k)
          /\ linkedlist_next => Promise!Rotate
          /\ GetTurn => IF sought' = Null THEN Promise!Find(sought)
                        ELSE UNCHANGED Promise!vars
          /\ linkedlist_free => Promise!Clear]_vars
  BY StepOfRing
<1> QED
  BY <1>1, <1>2, InvHolds, InitOfRing, PTL DEF Spec, ImplementsRing
=============================================================================
