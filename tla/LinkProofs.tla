----------------------------- MODULE LinkProofs -----------------------------
(***************************************************************************)
(* Theorems about StaticLink, for any files that a compiler makes, in any  *)
(* number and order, and for any sizes of the map and of the buffer.       *)
(***************************************************************************)
EXTENDS StaticLink, FiniteSetTheorems, WellFoundedInduction, SequenceTheorems, TLAPS

-----------------------------------------------------------------------------
(* Natural numbers                                                         *)

\* A non-empty set of natural numbers has a least element.
LEMMA LeastNatural ==
  ASSUME NEW T \in SUBSET Nat, T # {}
  PROVE  \E x \in T : \A y \in T : x <= y
<1> DEFINE R == {p \in Nat \X Nat : p[1] < p[2]}
<1>1. IsWellFoundedOn(R, Nat)
  BY NatLessThanWellFounded DEF OpToRel
<1>2. PICK x \in T : \A y \in T : <<y, x>> \notin R
  <2> HIDE DEF R
  <2> QED
    BY <1>1, WFMin
<1>3. ASSUME NEW y \in T PROVE x <= y
  <2>1. <<y, x>> \notin R /\ x \in Nat /\ y \in Nat
    BY <1>2
  <2>2. ~(y < x)
    BY <2>1
  <2> QED
    BY <2>1, <2>2
<1> QED
  BY <1>3

\* Induction without a predicate as a parameter: a set of numbers that holds
\* 0 and the successor of each of its members holds every number.
LEMMA NaturalSet ==
  ASSUME NEW T, 0 \in T, \A n \in Nat : n \in T => n + 1 \in T
  PROVE  Nat \subseteq T
<1> SUFFICES ASSUME Nat \ T # {} PROVE FALSE
  OBVIOUS
<1>1. PICK x \in Nat \ T : \A y \in Nat \ T : x <= y
  BY LeastNatural
<1>2. x - 1 \in Nat /\ x - 1 \notin Nat \ T
  BY <1>1
<1>3. (x - 1) + 1 \in T
  BY <1>2
<1> QED
  BY <1>1, <1>3

-----------------------------------------------------------------------------
(* Sums over finite sets                                                   *)

LEMMA TakeOut ==
  ASSUME NEW S, IsFiniteSet(S), NEW x \in S, NEW n \in Nat, Cardinality(S) = n + 1
  PROVE  Cardinality(S \ {x}) = n /\ IsFiniteSet(S \ {x})
<1>1. IsFiniteSet(S \ {x})
  BY FS_RemoveElement
<1>2. Cardinality(S \ {x}) = Cardinality(S) - 1
  BY FS_RemoveElement
<1> QED
  BY <1>1, <1>2

\* Induction over the finite subsets of a set, without a predicate as a parameter.
LEMMA SubsetInduction ==
  ASSUME NEW S, IsFiniteSet(S), NEW P, {} \in P,
         \A T \in SUBSET S : \A x \in S : T \in P /\ x \notin T => T \cup {x} \in P
  PROVE  S \in P
<1> DEFINE N == {n \in Nat : \A T \in SUBSET S : Cardinality(T) = n => T \in P}
<1>1. 0 \in N
  <2>1. ASSUME NEW T \in SUBSET S, Cardinality(T) = 0 PROVE T = {}
    BY <2>1, FS_Subset, FS_EmptySet
  <2> QED
    BY <2>1
<1>2. ASSUME NEW n \in Nat, n \in N PROVE n + 1 \in N
  <2>1. ASSUME NEW T \in SUBSET S, Cardinality(T) = n + 1 PROVE T \in P
    <3>1. IsFiniteSet(T)
      BY FS_Subset
    <3>2. T # {}
      <4>1. Cardinality({}) = 0
        BY FS_EmptySet
      <4>2. n + 1 # 0
        OBVIOUS
      <4> QED
        BY <2>1, <4>1, <4>2
    <3>3. PICK x : x \in T
      BY <3>2, Zenon
    <3>4. Cardinality(T \ {x}) = n
      BY <2>1, <3>1, <3>3, TakeOut
    <3>5. T \ {x} \in P
      BY <1>2, <3>4
    <3>6. (T \ {x}) \cup {x} = T
      BY <3>3
    <3>7. T \ {x} \in SUBSET S /\ x \in S /\ x \notin T \ {x}
      BY <3>3
    <3>8. (T \ {x}) \cup {x} \in P
      BY <3>5, <3>7
    <3> QED
      BY <3>6, <3>8
  <2> QED
    BY <2>1
<1>3. Cardinality(S) \in Nat
  BY FS_CardinalityType
<1> HIDE DEF N
<1>4. Nat \subseteq N
  BY <1>1, <1>2, NaturalSet
<1>5. Cardinality(S) \in N
  BY <1>3, <1>4
<1> QED
  BY <1>5 DEF N

\* The recursion by which a sum is defined.
First(s) == CHOOSE x \in s : TRUE
Sums(f, D, g) == g = [s \in D |-> IF s = {} THEN 0 ELSE f[First(s)] + g[s \ {First(s)}]]

LEMMA SumsExist ==
  ASSUME NEW f, NEW S, IsFiniteSet(S)
  PROVE  \E g : Sums(f, SUBSET S, g)
<1> DEFINE Stage(n) == {s \in SUBSET S : Cardinality(s) <= n}
           N == {n \in Nat : \E g : Sums(f, Stage(n), g)}
<1>1. 0 \in N
  <2>1. \A s \in Stage(0) : s = {}
    <3> SUFFICES ASSUME NEW s \in SUBSET S, Cardinality(s) <= 0 PROVE s = {}
      OBVIOUS
    <3> QED
      BY FS_Subset, FS_EmptySet, FS_CardinalityType
  <2> DEFINE g == [s \in Stage(0) |-> 0]
  <2>2. g = [s \in Stage(0) |-> IF s = {} THEN 0 ELSE f[First(s)] + g[s \ {First(s)}]]
    BY <2>1
  <2> HIDE DEF g
  <2>3. Sums(f, Stage(0), g)
    BY <2>2 DEF Sums
  <2> QED
    BY <2>3
<1>2. ASSUME NEW n \in Nat, n \in N PROVE n + 1 \in N
  <2>1. PICK g : Sums(f, Stage(n), g)
    BY <1>2
  <2> DEFINE h == [s \in Stage(n + 1) |-> IF s = {} THEN 0 ELSE f[First(s)] + g[s \ {First(s)}]]
  <2>2. ASSUME NEW s \in Stage(n + 1), s # {}
        PROVE  s \ {First(s)} \in Stage(n) /\ s \ {First(s)} \in Stage(n + 1)
    <3>1. First(s) \in s
      BY <2>2 DEF First
    <3>2. IsFiniteSet(s) /\ Cardinality(s) \in Nat
      BY FS_Subset, FS_CardinalityType
    <3>3. Cardinality(s \ {First(s)}) = Cardinality(s) - 1
      BY <3>1, <3>2, FS_RemoveElement
    <3>4. Cardinality(s \ {First(s)}) <= n
      BY <3>2, <3>3
    <3> QED
      BY <3>2, <3>3, <3>4
  <2>3. \A s \in Stage(n) : s \in Stage(n + 1)
    BY FS_Subset, FS_CardinalityType
  <2>4. ASSUME NEW s \in Stage(n) PROVE h[s] = g[s]
    <3>1. g[s] = IF s = {} THEN 0 ELSE f[First(s)] + g[s \ {First(s)}]
      BY <2>1, Zenon DEF Sums
    <3>2. h[s] = IF s = {} THEN 0 ELSE f[First(s)] + g[s \ {First(s)}]
      BY <2>3, Zenon
    <3> QED
      BY <3>1, <3>2, Zenon
  <2>5. ASSUME NEW s \in Stage(n + 1)
        PROVE  h[s] = IF s = {} THEN 0 ELSE f[First(s)] + h[s \ {First(s)}]
    <3>1. CASE s = {}
      BY <3>1
    <3>2. CASE s # {}
      <4>1. h[s] = f[First(s)] + g[s \ {First(s)}]
        BY <3>2, Zenon
      <4>2. h[s \ {First(s)}] = g[s \ {First(s)}]
        BY <2>2, <2>4, <3>2
      <4> HIDE DEF h
      <4> QED
        BY <3>2, <4>1, <4>2
    <3> QED
      BY <3>1, <3>2
  <2>6. h = [s \in Stage(n + 1) |-> h[s]]
    BY Zenon
  <2> HIDE DEF h, Stage
  <2>7. Sums(f, Stage(n + 1), h)
    BY <2>5, <2>6 DEF Sums
  <2> QED
    BY <2>7
<1>3. Cardinality(S) \in Nat
  BY FS_CardinalityType
<1>4. Stage(Cardinality(S)) = SUBSET S
  BY FS_Subset, FS_CardinalityType
<1> HIDE DEF N
<1>5. Nat \subseteq N
  BY <1>1, <1>2, NaturalSet
<1>6. Cardinality(S) \in N
  BY <1>3, <1>5
<1>7. PICK g : Sums(f, Stage(Cardinality(S)), g)
  BY <1>6 DEF N
<1> QED
  BY <1>4, <1>7

LEMMA SumIs ==
  ASSUME NEW f, NEW S, IsFiniteSet(S)
  PROVE  \E g : Sums(f, SUBSET S, g) /\ SumFunctionOnSet(f, S) = g[S]
<1> DEFINE g == CHOOSE g : Sums(f, SUBSET S, g)
<1>1. Sums(f, SUBSET S, g)
  BY SumsExist, Zenon
<1>2. SumFunctionOnSet(f, S) = g[S]
  BY Zenon DEF SumFunctionOnSet, FoldFunctionOnSet, MapThenFoldSet, Sums, First
<1> QED
  BY <1>1, <1>2, Zenon

\* On the sets that both cover, two recursions agree if their functions do.
LEMMA SumsAgree ==
  ASSUME NEW f, NEW h, NEW S, NEW T, NEW U, IsFiniteSet(U), U \subseteq S, U \subseteq T,
         \A x \in U : f[x] = h[x]
  PROVE  \A a, b : Sums(f, SUBSET S, a) /\ Sums(h, SUBSET T, b) => a[U] = b[U]
<1> SUFFICES ASSUME NEW a, Sums(f, SUBSET S, a), NEW b, Sums(h, SUBSET T, b)
             PROVE  a[U] = b[U]
  OBVIOUS
<1> DEFINE N == {n \in Nat : \A s \in SUBSET U : Cardinality(s) = n => a[s] = b[s]}
<1>1. ASSUME NEW s \in SUBSET U
      PROVE  /\ a[s] = IF s = {} THEN 0 ELSE f[First(s)] + a[s \ {First(s)}]
             /\ b[s] = IF s = {} THEN 0 ELSE h[First(s)] + b[s \ {First(s)}]
  <2>1. s \in SUBSET S /\ s \in SUBSET T
    OBVIOUS
  <2> QED
    BY <2>1, Zenon DEF Sums
<1>2. 0 \in N
  <2>1. ASSUME NEW s \in SUBSET U, Cardinality(s) = 0 PROVE a[s] = b[s]
    <3>1. s = {}
      BY <2>1, FS_Subset, FS_EmptySet
    <3> QED
      BY <1>1, <3>1
  <2> QED
    BY <2>1
<1>3. ASSUME NEW n \in Nat, n \in N PROVE n + 1 \in N
  <2>1. ASSUME NEW s \in SUBSET U, Cardinality(s) = n + 1 PROVE a[s] = b[s]
    <3>1. IsFiniteSet(s) /\ s # {}
      BY <2>1, FS_Subset, FS_EmptySet
    <3>2. First(s) \in s
      BY <3>1 DEF First
    <3>3. Cardinality(s \ {First(s)}) = n
      BY <2>1, <3>1, <3>2, TakeOut
    <3>4. a[s \ {First(s)}] = b[s \ {First(s)}] /\ f[First(s)] = h[First(s)]
      BY <1>3, <3>2, <3>3
    <3> QED
      BY <1>1, <3>1, <3>4
  <2> QED
    BY <2>1
<1>4. Cardinality(U) \in Nat
  BY FS_CardinalityType
<1> HIDE DEF N
<1>5. Nat \subseteq N
  BY <1>2, <1>3, NaturalSet
<1>6. Cardinality(U) \in N
  BY <1>4, <1>5
<1> QED
  BY <1>6 DEF N

LEMMA SumEqual ==
  ASSUME NEW f, NEW h, NEW S, IsFiniteSet(S), \A x \in S : f[x] = h[x]
  PROVE  SumFunctionOnSet(f, S) = SumFunctionOnSet(h, S)
<1>1. PICK a : Sums(f, SUBSET S, a) /\ SumFunctionOnSet(f, S) = a[S]
  BY SumIs
<1>2. PICK b : Sums(h, SUBSET S, b) /\ SumFunctionOnSet(h, S) = b[S]
  BY SumIs
<1>3. a[S] = b[S]
  <2>1. S \subseteq S
    OBVIOUS
  <2> QED
    BY <1>1, <1>2, <2>1, SumsAgree
<1> QED
  BY <1>1, <1>2, <1>3

LEMMA SumEmpty == ASSUME NEW f PROVE SumFunctionOnSet(f, {}) = 0
<1>1. IsFiniteSet({})
  BY FS_EmptySet
<1>2. PICK a : Sums(f, SUBSET {}, a) /\ SumFunctionOnSet(f, {}) = a[{}]
  BY <1>1, SumIs
<1>3. a[{}] = IF {} = {} THEN 0 ELSE f[First({})] + a[{} \ {First({})}]
  BY <1>2, Zenon DEF Sums
<1> QED
  BY <1>2, <1>3

LEMMA SumFirst ==
  ASSUME NEW f, NEW S, IsFiniteSet(S), S # {}
  PROVE  /\ First(S) \in S
         /\ SumFunctionOnSet(f, S) = f[First(S)] + SumFunctionOnSet(f, S \ {First(S)})
<1> DEFINE R == S \ {First(S)}
<1>1. First(S) \in S /\ IsFiniteSet(R) /\ R \subseteq S
  BY FS_Subset DEF First
<1>2. PICK a : Sums(f, SUBSET S, a) /\ SumFunctionOnSet(f, S) = a[S]
  BY SumIs
<1>3. PICK b : Sums(f, SUBSET R, b) /\ SumFunctionOnSet(f, R) = b[R]
  BY <1>1, SumIs
<1>4. a[S] = IF S = {} THEN 0 ELSE f[First(S)] + a[S \ {First(S)}]
  BY <1>2, Zenon DEF Sums
<1>5. a[R] = b[R]
  <2>1. R \subseteq S /\ R \subseteq R /\ IsFiniteSet(R) /\ \A x \in R : f[x] = f[x]
    BY <1>1
  <2>2. Sums(f, SUBSET S, a) /\ Sums(f, SUBSET R, b)
    BY <1>2, <1>3
  <2> HIDE DEF R
  <2> QED
    BY <2>1, <2>2, SumsAgree
<1> QED
  BY <1>1, <1>2, <1>3, <1>4, <1>5

LEMMA SumNat ==
  ASSUME NEW f, NEW S, IsFiniteSet(S), \A x \in S : f[x] \in Nat
  PROVE  SumFunctionOnSet(f, S) \in Nat
<1> DEFINE N == {n \in Nat : \A s \in SUBSET S : Cardinality(s) = n
                                                   => SumFunctionOnSet(f, s) \in Nat}
<1>1. 0 \in N
  <2>1. ASSUME NEW s \in SUBSET S, Cardinality(s) = 0 PROVE SumFunctionOnSet(f, s) \in Nat
    <3>1. s = {}
      BY <2>1, FS_Subset, FS_EmptySet
    <3> QED
      BY <3>1, SumEmpty
  <2> QED
    BY <2>1
<1>2. ASSUME NEW n \in Nat, n \in N PROVE n + 1 \in N
  <2>1. ASSUME NEW s \in SUBSET S, Cardinality(s) = n + 1 PROVE SumFunctionOnSet(f, s) \in Nat
    <3>1. IsFiniteSet(s) /\ s # {}
      BY <2>1, FS_Subset, FS_EmptySet
    <3>2. /\ First(s) \in s
          /\ SumFunctionOnSet(f, s) = f[First(s)] + SumFunctionOnSet(f, s \ {First(s)})
      BY <3>1, SumFirst
    <3>3. Cardinality(s \ {First(s)}) = n
      BY <2>1, <3>1, <3>2, TakeOut
    <3>4. SumFunctionOnSet(f, s \ {First(s)}) \in Nat /\ f[First(s)] \in Nat
      BY <1>2, <3>2, <3>3
    <3> QED
      BY <3>2, <3>4
  <2> QED
    BY <2>1
<1>3. Cardinality(S) \in Nat
  BY FS_CardinalityType
<1> HIDE DEF N
<1>4. Nat \subseteq N
  BY <1>1, <1>2, NaturalSet
<1>5. Cardinality(S) \in N
  BY <1>3, <1>4
<1> QED
  BY <1>5 DEF N

\* Any element may be taken out first.
LEMMA SumRemove ==
  ASSUME NEW f, NEW S, IsFiniteSet(S), \A x \in S : f[x] \in Nat, NEW e \in S
  PROVE  SumFunctionOnSet(f, S) = f[e] + SumFunctionOnSet(f, S \ {e})
<1> DEFINE N == {n \in Nat : \A s \in SUBSET S : \A x \in s : Cardinality(s) = n + 1
                   => SumFunctionOnSet(f, s) = f[x] + SumFunctionOnSet(f, s \ {x})}
<1>0. ASSUME NEW s \in SUBSET S
      PROVE  IsFiniteSet(s) /\ Cardinality(s) \in Nat /\ SumFunctionOnSet(f, s) \in Nat
  <2>1. IsFiniteSet(s)
    BY FS_Subset
  <2> QED
    BY <2>1, FS_CardinalityType, SumNat
<1>1. 0 \in N
  <2>1. ASSUME NEW s \in SUBSET S, NEW x \in s, Cardinality(s) = 1
        PROVE  SumFunctionOnSet(f, s) = f[x] + SumFunctionOnSet(f, s \ {x})
    <3>1. /\ First(s) \in s
          /\ SumFunctionOnSet(f, s) = f[First(s)] + SumFunctionOnSet(f, s \ {First(s)})
      BY <1>0, SumFirst
    <3>2. Cardinality(s \ {x}) = 0 /\ IsFiniteSet(s \ {x})
      BY <1>0, <2>1, FS_RemoveElement
    <3>3. s \ {x} = {}
      BY <3>2, FS_EmptySet
    <3>4. First(s) = x
      BY <3>1, <3>3
    <3> QED
      BY <3>1, <3>4
  <2> QED
    BY <2>1
<1>2. ASSUME NEW n \in Nat, n \in N PROVE n + 1 \in N
  <2>1. ASSUME NEW s \in SUBSET S, NEW x \in s, Cardinality(s) = n + 2
        PROVE  SumFunctionOnSet(f, s) = f[x] + SumFunctionOnSet(f, s \ {x})
    <3> DEFINE y == First(s)
    <3>1. y \in s /\ SumFunctionOnSet(f, s) = f[y] + SumFunctionOnSet(f, s \ {y})
      BY <1>0, SumFirst
    <3> HIDE DEF y
    <3>2. CASE x = y
      BY <3>1, <3>2
    <3>3. CASE x # y
      <4>1. /\ Cardinality(s \ {y}) = n + 1 /\ x \in s \ {y} /\ s \ {y} \in SUBSET S
            /\ Cardinality(s \ {x}) = n + 1 /\ y \in s \ {x} /\ s \ {x} \in SUBSET S
        BY <1>0, <2>1, <3>1, <3>3, FS_RemoveElement
      <4>2. (s \ {y}) \ {x} = (s \ {x}) \ {y} /\ (s \ {y}) \ {x} \in SUBSET S
        OBVIOUS
      <4>3. SumFunctionOnSet(f, s \ {y}) = f[x] + SumFunctionOnSet(f, (s \ {y}) \ {x})
        BY <1>2, <4>1
      <4>4. SumFunctionOnSet(f, s \ {x}) = f[y] + SumFunctionOnSet(f, (s \ {x}) \ {y})
        BY <1>2, <4>1
      <4>5. f[x] \in Nat /\ f[y] \in Nat /\ SumFunctionOnSet(f, (s \ {y}) \ {x}) \in Nat
        BY <1>0, <3>1, <4>2
      <4> QED
        BY <3>1, <4>2, <4>3, <4>4, <4>5
    <3> QED
      BY <3>2, <3>3
  <2> QED
    BY <2>1
<1>3. Cardinality(S) \in Nat /\ Cardinality(S) # 0
  BY FS_CardinalityType, FS_EmptySet
<1> HIDE DEF N
<1>4. Nat \subseteq N
  BY <1>1, <1>2, NaturalSet
<1>5. Cardinality(S) - 1 \in N
  BY <1>3, <1>4
<1> QED
  BY <1>3, <1>5 DEF N

LEMMA SumAdd ==
  ASSUME NEW f, NEW S, IsFiniteSet(S), NEW x, x \notin S, \A y \in S \cup {x} : f[y] \in Nat
  PROVE  SumFunctionOnSet(f, S \cup {x}) = SumFunctionOnSet(f, S) + f[x]
<1> DEFINE T == S \cup {x}
<1>1. IsFiniteSet(T) /\ x \in T /\ T \ {x} = S
  BY FS_AddElement
<1>2. SumFunctionOnSet(f, T) = f[x] + SumFunctionOnSet(f, T \ {x})
  <2> HIDE DEF T
  <2>1. \A y \in T : f[y] \in Nat
    BY DEF T
  <2> QED
    BY <1>1, <2>1, SumRemove
<1>3. SumFunctionOnSet(f, S) \in Nat /\ f[x] \in Nat
  BY SumNat
<1> QED
  BY <1>1, <1>2, <1>3

\* A sum over a part of a set is not larger.
LEMMA SumPart ==
  ASSUME NEW f, NEW S, IsFiniteSet(S), \A x \in S : f[x] \in Nat, NEW T \in SUBSET S
  PROVE  SumFunctionOnSet(f, T) <= SumFunctionOnSet(f, S)
<1> DEFINE P == {s \in SUBSET S : SumFunctionOnSet(f, s \cap T) <= SumFunctionOnSet(f, s)}
<1>1. ASSUME NEW s \in SUBSET S
      PROVE  /\ IsFiniteSet(s) /\ \A x \in s : f[x] \in Nat
             /\ SumFunctionOnSet(f, s) \in Nat
  <2>1. IsFiniteSet(s) /\ \A x \in s : f[x] \in Nat
    BY FS_Subset
  <2> QED
    BY <2>1, SumNat
<1>2. {} \in P
  <2>1. {} \cap T = {}
    OBVIOUS
  <2> QED
    BY <2>1, SumEmpty
<1>3. ASSUME NEW s \in SUBSET S, NEW x \in S, s \in P, x \notin s
      PROVE  s \cup {x} \in P
  <2>1. SumFunctionOnSet(f, s \cup {x}) = SumFunctionOnSet(f, s) + f[x]
    BY <1>1, <1>3, SumAdd
  <2>2. /\ SumFunctionOnSet(f, s) \in Nat /\ f[x] \in Nat
        /\ SumFunctionOnSet(f, s \cap T) \in Nat
        /\ SumFunctionOnSet(f, s \cap T) <= SumFunctionOnSet(f, s)
    BY <1>1, <1>3
  <2>3. SumFunctionOnSet(f, (s \cup {x}) \cap T) <= SumFunctionOnSet(f, s \cup {x})
    <3>1. CASE x \notin T
      <4>1. (s \cup {x}) \cap T = s \cap T
        BY <3>1
      <4>2. SumFunctionOnSet(f, (s \cup {x}) \cap T) = SumFunctionOnSet(f, s \cap T)
        BY <4>1
      <4> HIDE DEF P
      <4> QED
        BY <2>1, <2>2, <4>2
    <3>2. CASE x \in T
      <4>1. (s \cup {x}) \cap T = (s \cap T) \cup {x}
        BY <3>2
      <4>2. SumFunctionOnSet(f, (s \cap T) \cup {x}) = SumFunctionOnSet(f, s \cap T) + f[x]
        BY <1>1, <1>3, SumAdd
      <4>3. SumFunctionOnSet(f, (s \cup {x}) \cap T) = SumFunctionOnSet(f, s \cap T) + f[x]
        BY <4>1, <4>2
      <4> HIDE DEF P
      <4> QED
        BY <2>1, <2>2, <4>3
    <3> QED
      BY <3>1, <3>2
  <2> QED
    BY <2>3
<1>4. S \in P
  <2> HIDE DEF P
  <2>1. \A s \in SUBSET S : \A x \in S : s \in P /\ x \notin s => s \cup {x} \in P
    BY <1>3
  <2> QED
    BY <1>2, <2>1, SubsetInduction
<1>5. S \cap T = T
  OBVIOUS
<1> QED
  BY <1>4, <1>5

-----------------------------------------------------------------------------
(* Symbols                                                                 *)

LEMMA SymbolTypes ==
  ASSUME srcs \in Seq(Files)
  PROVE  /\ \A i \in DOMAIN srcs : srcs[i] \in Files
         /\ \A id \in SymbolIds : /\ id = <<id[1], id[2]>> /\ id[1] \in DOMAIN srcs
                                  /\ id[2] \in DOMAIN srcs[id[1]].symt
                                  /\ Sym(id) \in Symbols
         /\ \A i \in DOMAIN srcs : \A j \in DOMAIN srcs[i].symt :
              <<i, j>> \in SymbolIds /\ Sym(<<i, j>>) = srcs[i].symt[j]
<1>1. \A i \in DOMAIN srcs : srcs[i] \in Files /\ srcs[i].symt \in Seq(Symbols)
  <2>1. \A i \in DOMAIN srcs : srcs[i] \in Files
    OBVIOUS
  <2> QED
    BY <2>1 DEF Files
<1>2. \A i \in DOMAIN srcs : \A j \in DOMAIN srcs[i].symt : srcs[i].symt[j] \in Symbols
  BY <1>1
<1>3. \A i \in DOMAIN srcs : \A j \in DOMAIN srcs[i].symt :
        <<i, j>> \in SymbolIds /\ Sym(<<i, j>>) = srcs[i].symt[j]
  BY DEF SymbolIds, Sym
<1>4. ASSUME NEW id \in SymbolIds
      PROVE  /\ id = <<id[1], id[2]>> /\ id[1] \in DOMAIN srcs
             /\ id[2] \in DOMAIN srcs[id[1]].symt
  <2>1. PICK i \in DOMAIN srcs : \E j \in DOMAIN srcs[i].symt : id = <<i, j>>
    BY DEF SymbolIds
  <2>2. PICK j \in DOMAIN srcs[i].symt : id = <<i, j>>
    BY <2>1
  <2> QED
    BY <2>2
<1>5. \A id \in SymbolIds : Sym(id) \in Symbols
  BY <1>2, <1>4 DEF Sym
<1> QED
  BY <1>1, <1>3, <1>4, <1>5

LEMMA PrecedenceFacts ==
  ASSUME NEW sym
  PROVE  /\ Precedence(sym) \in {-1, 0, 1, 2}
         /\ sym.type = "NOTYPE" => Precedence(sym) < 1
         /\ sym.shndx = ".text" /\ sym.type = "FUNC" => Precedence(sym) = 2
         /\ sym.shndx \in {".data", ".rodata", ".bss"} /\ sym.type = "OBJECT"
              => Precedence(sym) = 2
BY DEF Precedence

-----------------------------------------------------------------------------
(* The map of the symbols read so far                                      *)

SrcOf(m, k) == Sym(m[k].src)
GlobalOf(m, k, name) == SrcOf(m, k).bind = "GLOBAL" /\ SrcOf(m, k).name = name

\* The map m is right for the symbols seen.
Resolution(m, seen) ==
  /\ \A k, l \in DOMAIN m : m[k].src = m[l].src => k = l
  /\ \A k \in DOMAIN m : m[k].src \in seen /\ SrcOf(m, k).bind # "WEAK"
  /\ \A id \in seen : Sym(id).bind = "LOCAL" \/ Strong(id) => \E k \in DOMAIN m : m[k].src = id
  /\ \A id \in seen : Sym(id).bind = "GLOBAL" =>
       \E k \in DOMAIN m : GlobalOf(m, k, Sym(id).name)
  /\ \A k, l \in DOMAIN m : GlobalOf(m, k, SrcOf(m, l).name) /\ SrcOf(m, l).bind = "GLOBAL" => k = l

Best(m, seen) ==
  \A id \in seen : \A k \in DOMAIN m :
    Sym(id).bind = "GLOBAL" /\ GlobalOf(m, k, Sym(id).name)
      => Precedence(SrcOf(m, k)) >= Precedence(Sym(id))

\* A symbol that no other is in conflict with gets an entry of its own.
LEMMA Inserted ==
  ASSUME NEW m, NEW n \in Nat, DOMAIN m = 1 .. n,
         NEW w, DOMAIN w = 1 .. n + 1, \A k \in 1 .. n : w[k] = m[k],
         NEW seen, NEW id, id \notin seen, w[n + 1].src = id,
         Resolution(m, seen), Best(m, seen),
         \/ Sym(id).bind = "LOCAL"
         \/ Sym(id).bind = "GLOBAL" /\ \A k \in 1 .. n : ~GlobalOf(m, k, Sym(id).name)
  PROVE  Resolution(w, seen \cup {id}) /\ Best(w, seen \cup {id})
<1>1. /\ \A k \in DOMAIN w : k \in 1 .. n \/ k = n + 1
      /\ n + 1 \in DOMAIN w /\ n + 1 \notin 1 .. n
      /\ \A k \in 1 .. n : k \in DOMAIN w /\ SrcOf(w, k) = SrcOf(m, k)
      /\ SrcOf(w, n + 1) = Sym(id)
  BY DEF SrcOf
<1>2. /\ \A k \in 1 .. n : \A name : GlobalOf(w, k, name) <=> GlobalOf(m, k, name)
      /\ \A name : GlobalOf(w, n + 1, name) <=> Sym(id).bind = "GLOBAL" /\ Sym(id).name = name
  BY <1>1 DEF GlobalOf
<1>3. \A k, l \in DOMAIN w : w[k].src = w[l].src => k = l
  BY <1>1 DEF Resolution
<1>4. \A k \in DOMAIN w : w[k].src \in seen \cup {id} /\ SrcOf(w, k).bind # "WEAK"
  BY <1>1 DEF Resolution
<1>5. \A x \in seen \cup {id} : Sym(x).bind = "LOCAL" \/ Strong(x)
                                 => \E k \in DOMAIN w : w[k].src = x
  BY <1>1 DEF Resolution
<1>6. \A x \in seen \cup {id} : Sym(x).bind = "GLOBAL" =>
         \E k \in DOMAIN w : GlobalOf(w, k, Sym(x).name)
  BY <1>1, <1>2 DEF Resolution
<1>7. \A k, l \in DOMAIN w :
        GlobalOf(w, k, SrcOf(w, l).name) /\ SrcOf(w, l).bind = "GLOBAL" => k = l
  <2> SUFFICES ASSUME NEW k \in DOMAIN w, NEW l \in DOMAIN w,
                      GlobalOf(w, k, SrcOf(w, l).name), SrcOf(w, l).bind = "GLOBAL"
               PROVE  k = l
    OBVIOUS
  <2>1. CASE k \in 1 .. n /\ l \in 1 .. n
    BY <1>1, <1>2, <2>1 DEF Resolution
  <2>2. CASE k = n + 1 /\ l \in 1 .. n
    BY <1>1, <1>2, <2>2 DEF GlobalOf
  <2>3. CASE k \in 1 .. n /\ l = n + 1
    BY <1>1, <1>2, <2>3 DEF GlobalOf
  <2> QED
    BY <1>1, <2>1, <2>2, <2>3
<1>8. Best(w, seen \cup {id})
  <2> SUFFICES ASSUME NEW x \in seen \cup {id}, NEW k \in DOMAIN w,
                      Sym(x).bind = "GLOBAL", GlobalOf(w, k, Sym(x).name)
               PROVE  Precedence(SrcOf(w, k)) >= Precedence(Sym(x))
    BY DEF Best
  <2>1. Precedence(Sym(id)) >= Precedence(Sym(id))
    BY PrecedenceFacts
  <2>2. CASE x \in seen /\ k \in 1 .. n
    BY <1>1, <1>2, <2>2 DEF Best
  <2>3. CASE x \in seen /\ k = n + 1
    <3>1. PICK l \in 1 .. n : GlobalOf(m, l, Sym(x).name)
      BY <2>3 DEF Resolution
    <3>2. GlobalOf(m, l, Sym(id).name) /\ Sym(id).bind = "GLOBAL"
      BY <1>2, <2>3, <3>1
    <3> QED
      BY <3>2
  <2>4. CASE x = id
    BY <1>1, <1>2, <2>1, <2>4
  <2> QED
    BY <1>1, <2>2, <2>3, <2>4
<1> QED
  BY <1>3, <1>4, <1>5, <1>6, <1>7, <1>8 DEF Resolution

\* A symbol that is not better than the one of its name changes nothing.
LEMMA Passed ==
  ASSUME NEW m, NEW k \in DOMAIN m, NEW seen, NEW id,
         Resolution(m, seen), Best(m, seen),
         Sym(id).bind = "GLOBAL", GlobalOf(m, k, Sym(id).name),
         ~Clash(Precedence(Sym(id)), Precedence(SrcOf(m, k))),
         ~Better(Precedence(Sym(id)), Precedence(SrcOf(m, k)))
  PROVE  Resolution(m, seen \cup {id}) /\ Best(m, seen \cup {id})
<1>1. Precedence(SrcOf(m, k)) >= Precedence(Sym(id)) /\ Precedence(Sym(id)) # 2
  BY PrecedenceFacts DEF Clash, Better
<1>2. ~Strong(id) /\ Sym(id).bind # "LOCAL"
  BY <1>1 DEF Strong
<1>3. \A l \in DOMAIN m : GlobalOf(m, l, Sym(id).name) => l = k
  BY DEF Resolution, GlobalOf
<1>4. Best(m, seen \cup {id})
  BY <1>1, <1>3 DEF Best
<1>5. \A x \in seen \cup {id} : Sym(x).bind = "LOCAL" \/ Strong(x)
                                 => \E l \in DOMAIN m : m[l].src = x
  BY <1>2 DEF Resolution
<1>6. \A x \in seen \cup {id} : Sym(x).bind = "GLOBAL" =>
        \E l \in DOMAIN m : GlobalOf(m, l, Sym(x).name)
  BY DEF Resolution
<1> QED
  BY <1>4, <1>5, <1>6 DEF Resolution

\* A better symbol takes the place of the one of its name.
LEMMA Replaced ==
  ASSUME NEW m, NEW k \in DOMAIN m, NEW w, DOMAIN w = DOMAIN m,
         NEW seen, NEW id, id \notin seen,
         w[k].src = id, \A l \in DOMAIN m : l # k => w[l].src = m[l].src,
         Resolution(m, seen), Best(m, seen),
         Sym(id).bind = "GLOBAL", GlobalOf(m, k, Sym(id).name),
         Better(Precedence(Sym(id)), Precedence(SrcOf(m, k)))
  PROVE  Resolution(w, seen \cup {id}) /\ Best(w, seen \cup {id})
<1>1. /\ Precedence(Sym(id)) > Precedence(SrcOf(m, k)) /\ Precedence(SrcOf(m, k)) # 2
      /\ Precedence(Sym(id)) \in Int /\ Precedence(SrcOf(m, k)) \in Int
  BY PrecedenceFacts DEF Better
<1>2. /\ SrcOf(w, k) = Sym(id) /\ \A l \in DOMAIN m : l # k => SrcOf(w, l) = SrcOf(m, l)
      /\ SrcOf(m, k).bind = "GLOBAL" /\ SrcOf(m, k).name = Sym(id).name
      /\ SrcOf(m, k) = Sym(m[k].src)
  BY DEF SrcOf, GlobalOf
<1>3. \A l \in DOMAIN m : \A name : GlobalOf(w, l, name) <=> GlobalOf(m, l, name)
  BY <1>2 DEF GlobalOf
<1>4. \A l, n \in DOMAIN w : w[l].src = w[n].src => l = n
  BY DEF Resolution
<1>5. \A l \in DOMAIN w : w[l].src \in seen \cup {id} /\ SrcOf(w, l).bind # "WEAK"
  BY <1>2 DEF Resolution
<1>6. ASSUME NEW x \in seen \cup {id}, Sym(x).bind = "LOCAL" \/ Strong(x)
      PROVE  \E l \in DOMAIN w : w[l].src = x
  <2>1. CASE x = id
    BY <2>1
  <2>2. CASE x \in seen
    <3>1. PICK l \in DOMAIN m : m[l].src = x
      BY <1>6, <2>2 DEF Resolution
    <3>2. m[k].src # x
      BY <1>1, <1>2, <1>6 DEF Strong
    <3> QED
      BY <3>1, <3>2
  <2> QED
    BY <2>1, <2>2
<1>7. \A x \in seen \cup {id} : Sym(x).bind = "GLOBAL" =>
        \E l \in DOMAIN w : GlobalOf(w, l, Sym(x).name)
  BY <1>3 DEF Resolution
<1>8. \A l \in DOMAIN m : SrcOf(w, l).name = SrcOf(m, l).name /\ SrcOf(w, l).bind = SrcOf(m, l).bind
  BY <1>2
<1>9. \A l, n \in DOMAIN w :
        GlobalOf(w, l, SrcOf(w, n).name) /\ SrcOf(w, n).bind = "GLOBAL" => l = n
  BY <1>3, <1>8 DEF Resolution
<1>10. Best(w, seen \cup {id})
  <2> SUFFICES ASSUME NEW x \in seen \cup {id}, NEW l \in DOMAIN m,
                      Sym(x).bind = "GLOBAL", GlobalOf(w, l, Sym(x).name)
               PROVE  Precedence(SrcOf(w, l)) >= Precedence(Sym(x))
    BY DEF Best
  <2>1. GlobalOf(m, l, Sym(x).name) /\ Precedence(Sym(x)) \in Int
    BY <1>3, PrecedenceFacts
  <2>2. x \in seen => Precedence(SrcOf(m, l)) >= Precedence(Sym(x))
    BY <2>1 DEF Best
  <2>3. CASE l # k /\ x \in seen
    BY <1>2, <2>2, <2>3
  <2>4. CASE l = k /\ x \in seen
    BY <1>1, <1>2, <2>1, <2>2, <2>4
  <2>5. CASE x = id
    <3>1. l = k
      BY <1>2, <2>1, <2>5 DEF Resolution, GlobalOf
    <3> QED
      BY <1>2, <2>1, <2>5, <3>1
  <2> QED
    BY <2>3, <2>4, <2>5
<1> QED
  BY <1>4, <1>5, <1>6, <1>7, <1>9, <1>10 DEF Resolution

-----------------------------------------------------------------------------
(* symbol_processing                                                       *)

Pairs == [src : SymbolIds, dst : Nat]

\* Why the program stops before it lays out the sections.
Refusals == {"full", "unknown", "multiple", "unresolved", "unnamed"}

TypeOK ==
  /\ srcs \in Seq(Files) /\ \A i \in DOMAIN srcs : Compiled(srcs[i])
  /\ smap \in Seq(Pairs) /\ Len(smap) <= MapLength
  /\ symt \in Seq(Symbols)

Reading ==
  /\ pc = "symbols" => /\ todo \subseteq SymbolIds
                       /\ Resolution(smap, Seen) /\ Best(smap, Seen)
  /\ pc \notin {"symbols"} \cup Refusals => Resolution(smap, SymbolIds)
  /\ pc \in {"symbols", "headers"} =>
       symt = <<>> /\ lines = <<>> /\ patches = {} /\ \A k \in Entries : smap[k].dst = 0

\* The symbols that need an entry of their own, and the names that need one.
Locals == {a \in SymbolIds : Sym(a).bind = "LOCAL"}
Globals == {b \in SymbolIds : Sym(b).bind = "GLOBAL"}
GlobalNames == {Sym(a).name : a \in Globals}

\* The reasons for which reading stops.
Refused ==
  /\ pc = "multiple" =>
       \E a, b \in SymbolIds : a # b /\ Strong(a) /\ Strong(b) /\ Sym(a).name = Sym(b).name
  /\ pc = "unknown" =>
       \E a, b \in SymbolIds : /\ a # b /\ Sym(a).bind = "GLOBAL" /\ Sym(b).bind = "GLOBAL"
                               /\ Sym(a).name = Sym(b).name /\ Precedence(Sym(a)) = -1
  /\ pc = "full" => Cardinality(Locals) + Cardinality(GlobalNames) > MapLength
  /\ pc = "unresolved" =>
       \E a \in SymbolIds : /\ Sym(a).bind = "GLOBAL"
                            /\ \A b \in GlobalNamed(SymbolIds, Sym(a).name) :
                                 Precedence(Sym(b)) < 1
  /\ pc = "unnamed" => \E a \in SymbolIds : Unnamed(Sym(a)) /\ Sym(a).bind # "WEAK"

LEMMA SameSymbols ==
  ASSUME srcs' = srcs
  PROVE  /\ SymbolIds' = SymbolIds
         /\ \A id : Sym(id)' = Sym(id)
         /\ \A m, k : SrcOf(m, k)' = SrcOf(m, k)
         /\ \A m, seen : (Resolution(m, seen)' <=> Resolution(m, seen))
                         /\ (Best(m, seen)' <=> Best(m, seen))
<1>1. SymbolIds' = SymbolIds
  BY DEF SymbolIds
<1>2. \A id : Sym(id)' = Sym(id)
  BY DEF Sym
<1>3. \A m, k : SrcOf(m, k)' = SrcOf(m, k)
  BY <1>2 DEF SrcOf
<1>4. \A m, k, name : GlobalOf(m, k, name)' <=> GlobalOf(m, k, name)
  BY <1>3 DEF GlobalOf
<1>5. \A id : Strong(id)' <=> Strong(id)
  BY <1>2 DEF Strong, Precedence
<1>6. \A m, seen : Resolution(m, seen)' <=> Resolution(m, seen)
  BY <1>2, <1>3, <1>4, <1>5 DEF Resolution
<1>7. \A m, seen : Best(m, seen)' <=> Best(m, seen)
  BY <1>2, <1>3, <1>4 DEF Best, Precedence
<1> QED
  BY <1>1, <1>2, <1>3, <1>6, <1>7

LEMMA NextMap ==
  ASSUME srcs' = srcs
  PROVE  /\ Resolution(smap, Seen)' <=> Resolution(smap', SymbolIds \ todo')
         /\ Best(smap, Seen)' <=> Best(smap', SymbolIds \ todo')
         /\ Resolution(smap, SymbolIds)' <=> Resolution(smap', SymbolIds)
<1>1. SymbolIds' = SymbolIds /\ Seen' = SymbolIds \ todo'
  BY DEF SymbolIds, Seen
<1>2. \A id : Sym(id)' = Sym(id)
  BY DEF Sym
<1>3. \A k : SrcOf(smap, k)' = SrcOf(smap', k)
  BY DEF SrcOf, Sym
<1>4. \A k, name : GlobalOf(smap, k, name)' <=> GlobalOf(smap', k, name)
  BY <1>3 DEF GlobalOf
<1>5. \A id : Strong(id)' <=> Strong(id)
  BY <1>2 DEF Strong, Precedence
<1>6. \A k : Precedence(SrcOf(smap, k))' = Precedence(SrcOf(smap', k))
  BY <1>3 DEF Precedence
<1>7. \A id : Precedence(Sym(id))' = Precedence(Sym(id))
  BY <1>2 DEF Precedence
<1>8. Resolution(smap, Seen)' <=> Resolution(smap', SymbolIds \ todo')
  BY <1>1, <1>2, <1>3, <1>4, <1>5 DEF Resolution
<1>9. Resolution(smap, SymbolIds)' <=> Resolution(smap', SymbolIds)
  BY <1>1, <1>2, <1>3, <1>4, <1>5 DEF Resolution
<1>10. Best(smap, Seen)' <=> Best(smap', SymbolIds \ todo')
  BY <1>1, <1>2, <1>4, <1>6, <1>7 DEF Best
<1> QED
  BY <1>8, <1>9, <1>10

ReadInv == TypeOK /\ Reading /\ Refused

LEMMA InitReads == ASSUME Init PROVE ReadInv
<1>1. srcs \in Seq(Files) /\ \A i \in DOMAIN srcs : Compiled(srcs[i])
  BY InputAssumption DEF Init
<1>2. TypeOK
  BY <1>1, LinkAssumption DEF Init, TypeOK
<1>3. Seen = {} /\ DOMAIN smap = {}
  BY DEF Init, Seen
<1>4. Resolution(smap, Seen) /\ Best(smap, Seen)
  BY <1>3 DEF Resolution, Best
<1> QED
  BY <1>2, <1>4 DEF Init, ReadInv, Reading, Refused, Refusals, Entries

\* The program stops, with all as it was.
LEMMA StopTypes ==
  ASSUME ReadInv, NEW reason, Stop(reason)
  PROVE  TypeOK' /\ SymbolIds' = SymbolIds /\ \A id : Sym(id)' = Sym(id)
<1>1. SymbolIds' = SymbolIds /\ \A id : Sym(id)' = Sym(id)
  BY DEF Stop, SymbolIds, Sym
<1> QED
  BY <1>1 DEF ReadInv, Stop, TypeOK, Pairs, Compiled

LEMMA SymbolsFinite ==
  ASSUME srcs \in Seq(Files)
  PROVE  IsFiniteSet(SymbolIds)
<1> DEFINE Of(i) == {<<i, j>> : j \in DOMAIN srcs[i].symt}
<1>1. \A file \in Files : file.symt \in Seq(Symbols)
  BY DEF Files
<1>2. \A i \in DOMAIN srcs : DOMAIN srcs[i].symt = 1 .. Len(srcs[i].symt)
                              /\ Len(srcs[i].symt) \in Nat
  BY <1>1
<1>3. IsFiniteSet(DOMAIN srcs)
  <2>1. DOMAIN srcs = 1 .. Len(srcs) /\ Len(srcs) \in Nat
    OBVIOUS
  <2> QED
    BY <2>1, FS_Interval
<1>4. ASSUME NEW i \in DOMAIN srcs PROVE IsFiniteSet(Of(i))
  <2>1. IsFiniteSet(DOMAIN srcs[i].symt)
    <3> DEFINE len == Len(srcs[i].symt)
    <3>1. DOMAIN srcs[i].symt = 1 .. len /\ len \in Int
      BY <1>2
    <3> HIDE DEF len
    <3> QED
      BY <3>1, FS_Interval
  <2> DEFINE pair == [j \in DOMAIN srcs[i].symt |-> <<i, j>>]
  <2>2. pair \in Surjection(DOMAIN srcs[i].symt, Of(i))
    BY DEF Surjection
  <2> HIDE DEF pair, Of
  <2> QED
    BY <2>1, <2>2, FS_Surjection
<1> DEFINE all == {Of(i) : i \in DOMAIN srcs}
<1>5. IsFiniteSet(all)
  <2> DEFINE of == [i \in DOMAIN srcs |-> Of(i)]
  <2>1. of \in Surjection(DOMAIN srcs, all)
    <3> HIDE DEF Of
    <3> QED
      BY DEF Surjection
  <2> HIDE DEF of, all
  <2> QED
    BY <1>3, <2>1, FS_Surjection
<1>6. \A T \in all : IsFiniteSet(T)
  BY <1>4
<1>7. SymbolIds = UNION all
  BY DEF SymbolIds
<1> HIDE DEF all
<1> QED
  BY <1>5, <1>6, <1>7, FS_UNION

\* A symbol that needs an entry finds the map full only if all that are seen and
\* need one, with it, are more than the map has room for.
LEMMA MapFull ==
  ASSUME ReadInv, NEW id \in SymbolIds, InsertSymbol(id), ~HasRoom
  PROVE  Cardinality(Locals) + Cardinality(GlobalNames) > MapLength
<1> DEFINE n == Len(smap)
           src == [k \in 0 .. n |-> IF k = 0 THEN id ELSE smap[k].src]
           L == {k \in 0 .. n : Sym(src[k]).bind = "LOCAL"}
           G == {k \in 0 .. n : Sym(src[k]).bind = "GLOBAL"}
<1>1. /\ TypeOK /\ pc = "symbols" /\ id \in todo /\ Resolution(smap, Seen) /\ id \notin Seen
      /\ n \in Nat /\ DOMAIN smap = 1 .. n /\ n >= MapLength /\ MapLength \in Nat
  <2>1. TypeOK /\ pc = "symbols" /\ id \in todo /\ Resolution(smap, Seen) /\ id \notin Seen
    BY DEF ReadInv, Reading, InsertSymbol, Processing, Visits, Seen
  <2> QED
    BY <2>1, LinkAssumption DEF TypeOK, HasRoom
<1>2. \A k \in 1 .. n : src[k] = smap[k].src /\ src[k] \in Seen
  BY <1>1 DEF Resolution
<1>3. src[0] = id
  BY <1>1
<1>4. \A k \in 0 .. n : k \in 1 .. n \/ k = 0
  BY <1>1
<1>5. /\ \A k \in 0 .. n : src[k] \in SymbolIds
      /\ \A k, l \in 0 .. n : src[k] = src[l] => k = l
  <2> HIDE DEF src
  <2>1. Seen \subseteq SymbolIds
    BY DEF Seen
  <2> QED
    BY <1>1, <1>2, <1>3, <1>4, <2>1 DEF Resolution
<1>6. \A k \in 0 .. n : Sym(src[k]).bind \in {"LOCAL", "GLOBAL"}
  <2>1. ASSUME NEW k \in 1 .. n PROVE Sym(src[k]).bind \in {"LOCAL", "GLOBAL"}
    <3>1. Sym(src[k]).bind # "WEAK"
      BY <1>1, <1>2, <2>1 DEF Resolution, SrcOf
    <3>2. Sym(src[k]) \in Symbols
      <4>1. k \in 0 .. n
        BY <1>1
      <4> HIDE DEF src
      <4> QED
        BY <1>1, <1>5, <4>1, SymbolTypes DEF TypeOK
    <3> QED
      BY <3>1, <3>2 DEF Symbols
  <2>2. Sym(src[0]).bind \in {"LOCAL", "GLOBAL"}
    BY <1>3 DEF InsertSymbol
  <2> QED
    BY <1>4, <2>1, <2>2
<1>7. ASSUME NEW k \in G, NEW l \in G, Sym(src[k]).name = Sym(src[l]).name
      PROVE  k = l
  <2>1. ASSUME NEW i \in 1 .. n, Sym(src[i]).bind = "GLOBAL", Sym(id).bind = "GLOBAL"
        PROVE  Sym(src[i]).name # Sym(id).name
    BY <1>1, <1>2, <2>1 DEF InsertSymbol, Conflicts, Entries
  <2>2. ASSUME NEW i \in 1 .. n, NEW j \in 1 .. n, Sym(src[i]).bind = "GLOBAL",
               Sym(src[j]).bind = "GLOBAL", Sym(src[i]).name = Sym(src[j]).name
        PROVE  i = j
    BY <1>1, <1>2, <2>2 DEF Resolution, GlobalOf, SrcOf
  <2>3. k \in 0 .. n /\ l \in 0 .. n /\ Sym(src[k]).bind = "GLOBAL" /\ Sym(src[l]).bind = "GLOBAL"
    BY <1>7
  <2> HIDE DEF src, G
  <2> QED
    BY <1>3, <1>4, <1>7, <2>1, <2>2, <2>3
<1> HIDE DEF src
<1>8. IsFiniteSet(SymbolIds)
  BY <1>1, SymbolsFinite DEF TypeOK
<1>9. Cardinality(L) <= Cardinality(Locals) /\ IsFiniteSet(Locals) /\ IsFiniteSet(L)
  <2>1. IsFiniteSet(Locals)
    BY <1>8, FS_Subset DEF Locals
  <2> DEFINE f == [k \in L |-> src[k]]
  <2>2. f \in Injection(L, Locals)
    <3>1. f \in [L -> Locals]
      BY <1>5 DEF Locals
    <3>2. \A k, l \in L : f[k] = f[l] => k = l
      BY <1>5
    <3> QED
      BY <3>1, <3>2 DEF Injection, IsInjective
  <2> HIDE DEF f, L
  <2> QED
    BY <2>1, <2>2, FS_Injection
<1>10. Cardinality(G) <= Cardinality(GlobalNames) /\ IsFiniteSet(GlobalNames) /\ IsFiniteSet(G)
  <2>1. IsFiniteSet(GlobalNames)
    <3>1. IsFiniteSet(Globals)
      BY <1>8, FS_Subset DEF Globals
    <3> DEFINE name == [a \in Globals |-> Sym(a).name]
    <3>2. name \in Surjection(Globals, GlobalNames)
      BY DEF Surjection, GlobalNames
    <3> HIDE DEF name
    <3> QED
      BY <3>1, <3>2, FS_Surjection
  <2> DEFINE f == [k \in G |-> Sym(src[k]).name]
  <2>2. f \in Injection(G, GlobalNames)
    <3>1. f \in [G -> GlobalNames]
      BY <1>5 DEF Globals, GlobalNames
    <3>2. \A k, l \in G : f[k] = f[l] => k = l
      BY <1>7
    <3> QED
      BY <3>1, <3>2 DEF Injection, IsInjective
  <2> HIDE DEF f, G
  <2> QED
    BY <2>1, <2>2, FS_Injection
<1>11. Cardinality(L) + Cardinality(G) = n + 1
  <2>1. Cardinality(0 .. n) = n + 1
    BY <1>1, FS_Interval
  <2>2. L \cup G = 0 .. n /\ L \cap G = {}
    BY <1>6
  <2>3. Cardinality(L \cup G) = Cardinality(L) + Cardinality(G) - Cardinality(L \cap G)
    <3> HIDE DEF L, G
    <3> QED
      BY <1>9, <1>10, FS_Union
  <2>4. Cardinality(L) \in Nat /\ Cardinality(G) \in Nat
    <3> HIDE DEF L, G
    <3> QED
      BY <1>9, <1>10, FS_CardinalityType
  <2>5. Cardinality(L \cap G) = 0
    BY <2>2, FS_EmptySet
  <2>6. Cardinality(L \cup G) = n + 1
    BY <2>1, <2>2
  <2> HIDE DEF L, G
  <2> QED
    BY <2>3, <2>4, <2>5, <2>6
<1>12. /\ Cardinality(L) \in Nat /\ Cardinality(G) \in Nat
       /\ Cardinality(Locals) \in Nat /\ Cardinality(GlobalNames) \in Nat
  <2> HIDE DEF L, G
  <2> QED
    BY <1>9, <1>10, FS_CardinalityType
<1> HIDE DEF L, G
<1> QED
  BY <1>1, <1>9, <1>10, <1>11, <1>12

LEMMA InsertReads ==
  ASSUME ReadInv, NEW id \in SymbolIds, InsertSymbol(id)
  PROVE  ReadInv'
<1>1. /\ TypeOK /\ pc = "symbols" /\ id \in todo /\ todo \subseteq SymbolIds
      /\ Resolution(smap, Seen) /\ Best(smap, Seen) /\ id \notin Seen
      /\ srcs' = srcs /\ symt' = symt /\ lines' = lines /\ patches' = patches
  BY DEF ReadInv, Reading, InsertSymbol, Processing, Visits, Stop, Seen
<1>2. CASE ~HasRoom
  <2>1. Stop("full")
    BY <1>2 DEF InsertSymbol
  <2>2. TypeOK' /\ SymbolIds' = SymbolIds /\ \A x : Sym(x)' = Sym(x)
    BY <2>1, StopTypes
  <2>3. Cardinality(Locals) + Cardinality(GlobalNames) > MapLength
    BY <1>2, MapFull
  <2>4. Locals' = Locals /\ GlobalNames' = GlobalNames
    BY <2>2 DEF Locals, Globals, GlobalNames
  <2>5. Refused'
    BY <2>1, <2>3, <2>4 DEF Stop, Refused
  <2> QED
    BY <2>1, <2>2, <2>5 DEF Stop, ReadInv, Reading, Refusals
<1>3. CASE HasRoom
  <2>1. /\ smap' = Append(smap, [src |-> id, dst |-> 0]) /\ todo' = todo \ {id} /\ pc' = pc
    BY <1>3 DEF InsertSymbol
  <2> DEFINE n == Len(smap)
             m == smap
             w == smap'
  <2>2. /\ n \in Nat /\ DOMAIN smap = 1 .. n /\ DOMAIN smap' = 1 .. n + 1
        /\ \A k \in 1 .. n : smap'[k] = smap[k]
        /\ smap'[n + 1] = [src |-> id, dst |-> 0]
        /\ Len(smap') = n + 1
    BY <1>1, <2>1 DEF TypeOK
  <2>3. SymbolIds \ todo' = Seen \cup {id}
    BY <1>1, <2>1 DEF Seen
  <2>4. \/ Sym(id).bind = "LOCAL"
        \/ Sym(id).bind = "GLOBAL" /\ \A k \in 1 .. n : ~GlobalOf(m, k, Sym(id).name)
    BY <2>2 DEF InsertSymbol, Conflicts, Entries, GlobalOf, SrcOf
  <2>5. w[n + 1].src = id
    BY <2>2
  <2>6. /\ n \in Nat /\ DOMAIN m = 1 .. n /\ DOMAIN w = 1 .. n + 1
        /\ \A k \in 1 .. n : w[k] = m[k]
    BY <2>2
  <2> HIDE DEF n, w
  <2>7. Resolution(w, Seen \cup {id}) /\ Best(w, Seen \cup {id})
    BY <1>1, <2>4, <2>5, <2>6, Inserted DEF m
  <2>8. Resolution(smap, Seen)' /\ Best(smap, Seen)'
    BY <1>1, <2>3, <2>7, NextMap DEF w
  <2>9. smap' \in Seq(Pairs) /\ Len(smap') <= MapLength
    <3>1. [src |-> id, dst |-> 0] \in Pairs
      BY DEF Pairs
    <3>2. smap' \in Seq(Pairs)
      BY <1>1, <2>1, <3>1 DEF TypeOK
    <3> QED
      BY <1>1, <1>3, <2>2, <3>2, LinkAssumption DEF HasRoom, n, TypeOK
  <2>10. TypeOK'
    BY <1>1, <2>9, SameSymbols DEF TypeOK, Pairs, Compiled
  <2>11. symt' = <<>> /\ lines' = <<>> /\ patches' = {} /\ \A k \in DOMAIN smap' : smap'[k].dst = 0
    <3>1. symt = <<>> /\ lines = <<>> /\ patches = {} /\ \A k \in DOMAIN smap : smap[k].dst = 0
      BY <1>1 DEF ReadInv, Reading, Entries
    <3> QED
      BY <1>1, <2>2, <3>1
  <2>12. Reading'
    BY <1>1, <2>1, <2>8, <2>11, SameSymbols DEF Reading, Refusals, Entries
  <2> QED
    BY <1>1, <2>1, <2>10, <2>12 DEF ReadInv, Refused
<1> QED
  BY <1>2, <1>3

LEMMA LeastIn ==
  ASSUME NEW T \in SUBSET Nat, T # {}
  PROVE  Least(T) \in T /\ \A y \in T : Least(T) <= y
BY LeastNatural DEF Least

LEMMA ResolveReads ==
  ASSUME ReadInv, NEW id \in SymbolIds, ResolveSymbol(id)
  PROVE  ReadInv'
<1> DEFINE k == Least(Conflicts(id))
           new == Precedence(Sym(id))
           old == Precedence(Sym(smap[k].src))
<1>1. /\ TypeOK /\ pc = "symbols" /\ id \in todo /\ todo \subseteq SymbolIds
      /\ Resolution(smap, Seen) /\ Best(smap, Seen) /\ id \notin Seen
      /\ srcs' = srcs /\ symt' = symt /\ lines' = lines /\ patches' = patches
  BY DEF ReadInv, Reading, ResolveSymbol, Processing, Visits, Stop, Seen
<1>2. /\ DOMAIN smap = 1 .. Len(smap) /\ Len(smap) \in Nat
      /\ \A l \in DOMAIN smap : smap[l] \in Pairs
  BY <1>1 DEF TypeOK
<1>3. /\ k \in DOMAIN smap /\ GlobalOf(smap, k, Sym(id).name)
      /\ Sym(id).bind = "GLOBAL" /\ SrcOf(smap, k) = Sym(smap[k].src)
  <2>1. Conflicts(id) \in SUBSET Nat /\ Conflicts(id) # {}
    <3>1. Conflicts(id) # {}
      BY DEF ResolveSymbol
    <3>2. DOMAIN smap \subseteq Nat
      BY <1>2
    <3> QED
      BY <3>1, <3>2 DEF Conflicts, Entries
  <2>2. k \in Conflicts(id)
    BY <2>1, LeastIn
  <2>3. Sym(id).bind = "GLOBAL"
    BY DEF ResolveSymbol
  <2> HIDE DEF k
  <2> QED
    BY <2>2, <2>3 DEF Conflicts, Entries, GlobalOf, SrcOf
<1>4. smap[k].src \in Seen /\ smap[k].src \in SymbolIds
  BY <1>1, <1>2, <1>3 DEF Resolution, Pairs
<1>5. \/ -1 \in {new, old} /\ Stop("unknown")
      \/ Clash(new, old) /\ Stop("multiple")
      \/ /\ ~Clash(new, old)
         /\ smap' = IF Better(new, old) THEN [smap EXCEPT ![k].src = id] ELSE smap
         /\ todo' = todo \ {id} /\ pc' = pc
  BY DEF ResolveSymbol
<1> HIDE DEF k
<1>6. CASE -1 \in {new, old} /\ Stop("unknown")
  <2>1. TypeOK' /\ SymbolIds' = SymbolIds /\ \A x : Sym(x)' = Sym(x)
    BY <1>6, StopTypes
  <2>2. \A x : Precedence(Sym(x))' = Precedence(Sym(x))
    BY <2>1 DEF Precedence
  <2>3. /\ id # smap[k].src /\ Sym(smap[k].src).bind = "GLOBAL"
        /\ Sym(id).name = Sym(smap[k].src).name
    BY <1>1, <1>3, <1>4 DEF GlobalOf
  <2>4. \E a, b \in SymbolIds : /\ a # b /\ Sym(a).bind = "GLOBAL" /\ Sym(b).bind = "GLOBAL"
                                /\ Sym(a).name = Sym(b).name /\ Precedence(Sym(a)) = -1
    <3>1. CASE new = -1
      BY <1>3, <1>4, <2>3, <3>1
    <3>2. CASE old = -1
      BY <1>3, <1>4, <2>3, <3>2
    <3> QED
      BY <1>6, <3>1, <3>2
  <2>5. Refused'
    BY <1>6, <2>1, <2>2, <2>4 DEF Stop, Refused
  <2> QED
    BY <1>6, <2>1, <2>5 DEF Stop, ReadInv, Reading, Refusals
<1>7. CASE Clash(new, old) /\ Stop("multiple")
  <2>1. TypeOK' /\ SymbolIds' = SymbolIds /\ \A x : Sym(x)' = Sym(x)
    BY <1>7, StopTypes
  <2>2. /\ Strong(id) /\ Strong(smap[k].src) /\ id # smap[k].src
        /\ Sym(id).name = Sym(smap[k].src).name
    BY <1>1, <1>3, <1>4, <1>7 DEF Clash, Strong, GlobalOf
  <2>3. \A x : Strong(x)' <=> Strong(x)
    BY <2>1 DEF Strong, Precedence
  <2>4. Reading'
    BY <1>7 DEF Stop, Reading, Refusals
  <2>5. \E a, b \in SymbolIds' :
          a # b /\ Strong(a)' /\ Strong(b)' /\ Sym(a)'.name = Sym(b)'.name
    BY <1>4, <2>1, <2>2, <2>3
  <2>6. Refused'
    BY <1>7, <2>5 DEF Stop, Refused
  <2> QED
    BY <2>1, <2>4, <2>6 DEF ReadInv
<1>8. CASE /\ ~Clash(new, old)
           /\ smap' = IF Better(new, old) THEN [smap EXCEPT ![k].src = id] ELSE smap
           /\ todo' = todo \ {id} /\ pc' = pc
  <2> DEFINE w == smap'
  <2>1. SymbolIds \ todo' = Seen \cup {id}
    BY <1>1, <1>8 DEF Seen
  <2>2. /\ DOMAIN w = DOMAIN smap /\ Len(w) = Len(smap) /\ w \in Seq(Pairs)
        /\ \A l \in DOMAIN smap : w[l].dst = smap[l].dst
    <3>1. CASE ~Better(new, old)
      BY <1>1, <1>8, <3>1 DEF TypeOK
    <3>2. CASE Better(new, old)
      <4>1. w = [smap EXCEPT ![k] = [smap[k] EXCEPT !.src = id]]
        BY <1>8, <3>2
      <4>2. [smap[k] EXCEPT !.src = id] \in Pairs /\ [smap[k] EXCEPT !.src = id].dst = smap[k].dst
        BY <1>2, <1>3 DEF Pairs
      <4> HIDE DEF w
      <4> QED
        BY <1>1, <1>2, <1>3, <4>1, <4>2 DEF TypeOK
    <3> QED
      BY <3>1, <3>2
  <2>3. Resolution(w, Seen \cup {id}) /\ Best(w, Seen \cup {id})
    <3>1. new = Precedence(Sym(id)) /\ old = Precedence(SrcOf(smap, k))
      BY <1>3
    <3>2. CASE ~Better(new, old)
      <4>1. w = smap
        BY <1>8, <3>2
      <4> HIDE DEF w, new, old
      <4>2. Resolution(smap, Seen \cup {id}) /\ Best(smap, Seen \cup {id})
        BY <1>1, <1>3, <1>8, <3>1, <3>2, Passed
      <4> QED
        BY <4>1, <4>2
    <3>3. CASE Better(new, old)
      <4>1. w = [smap EXCEPT ![k] = [smap[k] EXCEPT !.src = id]]
        BY <1>8, <3>3
      <4>2. [smap[k] EXCEPT !.src = id].src = id
        BY <1>2, <1>3 DEF Pairs
      <4> HIDE DEF w, new, old
      <4>3. w[k].src = id /\ \A l \in DOMAIN smap : l # k => w[l].src = smap[l].src
        BY <1>2, <1>3, <4>1, <4>2
      <4> QED
        BY <1>1, <1>3, <2>2, <3>1, <3>3, <4>3, Replaced
    <3> QED
      BY <3>2, <3>3
  <2>4. Resolution(smap, Seen)' /\ Best(smap, Seen)'
    BY <1>1, <2>1, <2>3, NextMap
  <2> HIDE DEF w
  <2>5. TypeOK'
    BY <1>1, <2>2, SameSymbols DEF TypeOK, Pairs, Compiled, w
  <2>6. symt' = <<>> /\ lines' = <<>> /\ patches' = {} /\ \A l \in DOMAIN smap' : smap'[l].dst = 0
    <3>1. symt = <<>> /\ lines = <<>> /\ patches = {} /\ \A l \in DOMAIN smap : smap[l].dst = 0
      BY <1>1 DEF ReadInv, Reading, Entries
    <3> QED
      BY <1>1, <2>2, <3>1 DEF w
  <2>7. Reading'
    BY <1>1, <1>8, <2>4, <2>6, SameSymbols DEF Reading, Refusals, Entries
  <2> QED
    BY <1>1, <1>8, <2>5, <2>7 DEF ReadInv, Refused
<1> QED
  BY <1>5, <1>6, <1>7, <1>8

LEMMA WeakReads ==
  ASSUME ReadInv, NEW id \in SymbolIds, PassWeak(id)
  PROVE  ReadInv'
<1>1. /\ TypeOK /\ pc = "symbols" /\ id \in todo /\ todo \subseteq SymbolIds
      /\ Resolution(smap, Seen) /\ Best(smap, Seen) /\ Sym(id).bind = "WEAK"
      /\ todo' = todo \ {id} /\ pc' = pc /\ smap' = smap
      /\ srcs' = srcs /\ symt' = symt /\ lines' = lines /\ patches' = patches
  BY DEF ReadInv, Reading, PassWeak, Processing, Visits
<1>2. SymbolIds \ todo' = Seen \cup {id}
  BY <1>1 DEF Seen
<1>3. Resolution(smap, Seen \cup {id}) /\ Best(smap, Seen \cup {id})
  BY <1>1 DEF Resolution, Best, Strong
<1>4. Resolution(smap, Seen)' /\ Best(smap, Seen)'
  BY <1>1, <1>2, <1>3, NextMap
<1>5. TypeOK'
  BY <1>1, SameSymbols DEF TypeOK, Pairs, Compiled
<1>6. Reading'
  BY <1>1, <1>4, SameSymbols DEF ReadInv, Reading, Refusals, Entries
<1> QED
  BY <1>1, <1>5, <1>6 DEF ReadInv, Refused

LEMMA CompiledSymbols ==
  ASSUME TypeOK, NEW id \in SymbolIds
  PROVE  /\ Sym(id).shndx = ".text" => Sym(id).type = "FUNC"
         /\ Sym(id).shndx \in {".rodata", ".data", ".bss", "COMMON"} => Sym(id).type = "OBJECT"
         /\ Sym(id).shndx \in Contents =>
              Sym(id).size # 0 /\ Sym(id).shndx \in srcs[id[1]].sections
         /\ Sym(id).bind = "LOCAL" => Sym(id).shndx \in Contents \cup {".bss"}
<1>1. id[1] \in DOMAIN srcs /\ id[2] \in DOMAIN srcs[id[1]].symt
  BY SymbolTypes DEF TypeOK
<1>2. Compiled(srcs[id[1]])
  BY <1>1 DEF TypeOK
<1> QED
  BY <1>1, <1>2, Zenon DEF Compiled, Sym

LEMMA CleanedSources ==
  ASSUME ReadInv, CleanUp, pc' = "headers"
  PROVE  /\ TypeOK' /\ SymbolIds' = SymbolIds
         /\ \A id \in SymbolIds : Sym(id)' = CleanedUp(id)
         /\ \A id \in SymbolIds : CleanedUp(id) \in Symbols
<1>1. /\ srcs \in Seq(Files) /\ DOMAIN srcs = 1 .. Len(srcs) /\ Len(srcs) \in Nat
      /\ \A i \in DOMAIN srcs : srcs[i] \in Files /\ srcs[i].symt \in Seq(Symbols)
  <2>1. srcs \in Seq(Files)
    BY DEF ReadInv, TypeOK
  <2>2. \A i \in DOMAIN srcs : srcs[i] \in Files
    BY <2>1, SymbolTypes
  <2>3. \A file \in Files : file.symt \in Seq(Symbols)
    BY DEF Files
  <2> QED
    BY <2>1, <2>2, <2>3
<1> DEFINE table(i) == [j \in DOMAIN srcs[i].symt |-> CleanedUp(<<i, j>>)]
           file(i) == [srcs[i] EXCEPT !.symt = table(i)]
<1>2. /\ srcs' = [i \in DOMAIN srcs |-> file(i)]
      /\ smap' = smap /\ symt' = symt
  BY DEF CleanUp, Stop
<1>3. ASSUME NEW id \in SymbolIds
      PROVE  CleanedUp(id) \in Symbols
  <2>1. Sym(id) \in Symbols
    BY <1>1, SymbolTypes
  <2>2. [Sym(id) EXCEPT !.shndx = ".bss", !.value = 0] \in Symbols
    BY <2>1 DEF Symbols
  <2> QED
    BY <2>1, <2>2 DEF CleanedUp
<1>4. ASSUME NEW i \in DOMAIN srcs
      PROVE  /\ table(i) \in Seq(Symbols) /\ DOMAIN table(i) = DOMAIN srcs[i].symt
             /\ file(i) \in Files /\ file(i).symt = table(i)
             /\ file(i).sections = srcs[i].sections
             /\ file(i).reltext = srcs[i].reltext /\ file(i).reldata = srcs[i].reldata
  <2>1. \A j \in DOMAIN srcs[i].symt : CleanedUp(<<i, j>>) \in Symbols
    BY <1>1, <1>3, SymbolTypes
  <2>2. table(i) \in Seq(Symbols) /\ DOMAIN table(i) = DOMAIN srcs[i].symt
    <3>1. DOMAIN srcs[i].symt = 1 .. Len(srcs[i].symt) /\ Len(srcs[i].symt) \in Nat
      BY <1>1
    <3> QED
      BY <2>1, <3>1
  <2> HIDE DEF table
  <2>3. /\ file(i) \in Files /\ file(i).symt = table(i) /\ file(i).sections = srcs[i].sections
        /\ file(i).reltext = srcs[i].reltext /\ file(i).reldata = srcs[i].reldata
    BY <1>1, <2>2 DEF Files
  <2> QED
    BY <2>2, <2>3
<1>5. SymbolIds' = SymbolIds /\ \A id \in SymbolIds : Sym(id)' = CleanedUp(id)
  <2>1. DOMAIN srcs' = DOMAIN srcs /\ \A i \in DOMAIN srcs : srcs'[i].symt = table(i)
    BY <1>2, <1>4
  <2>2. \A i \in DOMAIN srcs : DOMAIN srcs'[i].symt = DOMAIN srcs[i].symt
    BY <1>4, <2>1
  <2>3. SymbolIds' = SymbolIds
    BY <2>1, <2>2 DEF SymbolIds
  <2>4. ASSUME NEW id \in SymbolIds PROVE Sym(id)' = CleanedUp(id)
    <3>1. id = <<id[1], id[2]>> /\ id[1] \in DOMAIN srcs /\ id[2] \in DOMAIN srcs[id[1]].symt
      BY <1>1, SymbolTypes
    <3>2. Sym(id)' = table(id[1])[id[2]]
      BY <2>1, <3>1 DEF Sym
    <3> QED
      BY <3>1, <3>2
  <2> QED
    BY <2>3, <2>4
<1>6. srcs' \in Seq(Files)
  <2> DEFINE len == Len(srcs)
  <2>1. len \in Nat /\ srcs' = [i \in 1 .. len |-> file(i)] /\ \A i \in 1 .. len : file(i) \in Files
    BY <1>1, <1>2, <1>4
  <2> HIDE DEF file, len
  <2> QED
    BY <2>1
<1>10. ASSUME NEW i \in DOMAIN srcs, NEW rels, NEW section \in {".text", ".data"},
              Placed(srcs[i], rels, section)
       PROVE  Placed(file(i), rels, section)
  <2>1. ASSUME NEW j \in DOMAIN srcs[i].symt, srcs[i].symt[j].shndx = section
        PROVE  table(i)[j] = srcs[i].symt[j]
    <3>1. Sym(<<i, j>>) = srcs[i].symt[j]
      BY <1>1, SymbolTypes
    <3> QED
      BY <2>1, <3>1 DEF CleanedUp
  <2>2. DOMAIN file(i).symt = DOMAIN srcs[i].symt /\ file(i).symt = table(i)
    BY <1>4
  <2> HIDE DEF file, table
  <2> QED
    BY <1>10, <2>1, <2>2 DEF Placed
<1>7. ASSUME NEW i \in DOMAIN srcs PROVE Compiled(file(i))
  <2>6. Placed(file(i), file(i).reltext, ".text") /\ Placed(file(i), file(i).reldata, ".data")
    <3>1. /\ Placed(srcs[i], srcs[i].reltext, ".text")
          /\ Placed(srcs[i], srcs[i].reldata, ".data")
      BY DEF ReadInv, TypeOK, Compiled
    <3>2. file(i).reltext = srcs[i].reltext /\ file(i).reldata = srcs[i].reldata
      BY <1>4
    <3> HIDE DEF file
    <3> QED
      BY <1>10, <3>1, <3>2
  <2> SUFFICES ASSUME NEW j \in DOMAIN srcs[i].symt, NEW new, new = CleanedUp(<<i, j>>)
               PROVE  /\ new.shndx = ".text" => new.type = "FUNC"
                      /\ new.shndx \in {".rodata", ".data", ".bss", "COMMON"} => new.type = "OBJECT"
                      /\ new.shndx \in Contents => new.size # 0 /\ new.shndx \in srcs[i].sections
                      /\ new.bind = "LOCAL" => new.shndx \in Contents \cup {".bss"}
    BY <1>4, <2>6 DEF Compiled
  <2> DEFINE old == Sym(<<i, j>>)
  <2>1. <<i, j>> \in SymbolIds /\ <<i, j>>[1] = i /\ old \in Symbols
    BY <1>1, SymbolTypes
  <2>2. /\ old.shndx = ".text" => old.type = "FUNC"
        /\ old.shndx \in {".rodata", ".data", ".bss", "COMMON"} => old.type = "OBJECT"
        /\ old.shndx \in Contents => old.size # 0 /\ old.shndx \in srcs[i].sections
        /\ old.bind = "LOCAL" => old.shndx \in Contents \cup {".bss"}
    BY <2>1, CompiledSymbols DEF ReadInv
  <2>3. \/ new = old
        \/ old.shndx = "COMMON" /\ new = [old EXCEPT !.shndx = ".bss", !.value = 0]
    BY DEF CleanedUp
  <2> HIDE DEF old
  <2>4. CASE new = old
    BY <2>2, <2>4
  <2>5. CASE old.shndx = "COMMON" /\ new = [old EXCEPT !.shndx = ".bss", !.value = 0]
    <3>1. new.shndx = ".bss" /\ new.type = old.type /\ new.bind = old.bind
      BY <2>1, <2>5 DEF Symbols
    <3> QED
      BY <2>2, <2>5, <3>1 DEF Contents
  <2> QED
    BY <2>3, <2>4, <2>5
<1>8. \A i \in DOMAIN srcs' : Compiled(srcs[i])'
  <2>1. \A i \in DOMAIN srcs : srcs'[i] = file(i)
    BY <1>2
  <2>2. DOMAIN srcs' = DOMAIN srcs
    BY <1>2
  <2> HIDE DEF file
  <2>3. \A i \in DOMAIN srcs : Compiled(srcs'[i])
    BY <1>7, <2>1
  <2> QED
    BY <2>2, <2>3 DEF Compiled
<1>9. TypeOK'
  BY <1>2, <1>5, <1>6, <1>8 DEF ReadInv, TypeOK, Pairs
<1> QED
  BY <1>3, <1>5, <1>9

\* What is defined weakly becomes the strong definition of .bss, and stays chosen.
LEMMA CleanUpReads ==
  ASSUME ReadInv, CleanUp
  PROVE  ReadInv'
<1>1. /\ TypeOK /\ pc = "symbols" /\ todo = {}
      /\ Resolution(smap, SymbolIds) /\ Best(smap, SymbolIds)
  BY DEF ReadInv, Reading, CleanUp, Seen
<1>2. /\ smap' = smap /\ symt' = symt /\ lines' = lines /\ patches' = patches
      /\ symt = <<>> /\ lines = <<>> /\ patches = {} /\ \A k \in Entries : smap[k].dst = 0
  BY <1>1 DEF ReadInv, Reading, CleanUp, Stop
<1> DEFINE first == Least(Unfit)
<1>5. ASSUME Unfit # {}
      PROVE  /\ first \in DOMAIN smap
             /\ Unnamed(Sym(smap[first].src)) \/ Sym(smap[first].src).type = "NOTYPE"
  <2>1. Unfit \in SUBSET Nat
    <3>1. DOMAIN smap \subseteq Nat
      BY <1>1 DEF TypeOK
    <3> QED
      BY <3>1 DEF Unfit, Entries
  <2>2. first \in Unfit
    BY <1>5, <2>1, LeastIn
  <2> HIDE DEF first
  <2> QED
    BY <2>2 DEF Unfit, Entries
<1>6. CASE Unfit # {} /\ Unnamed(Sym(smap[first].src)) /\ Stop("unnamed")
  <2>1. TypeOK' /\ SymbolIds' = SymbolIds /\ \A x : Sym(x)' = Sym(x)
    BY <1>6, StopTypes
  <2>2. PICK a \in SymbolIds : a = smap[first].src /\ Sym(a).bind # "WEAK"
    <3>1. first \in DOMAIN smap
      BY <1>5, <1>6
    <3> QED
      BY <1>1, <3>1 DEF Resolution, SrcOf
  <2>3. Unnamed(Sym(a))' /\ Sym(a)'.bind # "WEAK"
    BY <1>6, <2>1, <2>2 DEF Unnamed
  <2>4. Refused'
    BY <1>6, <2>1, <2>3 DEF Stop, Refused
  <2>5. Reading'
    BY <1>6 DEF Stop, Reading, Refusals
  <2> QED
    BY <2>1, <2>4, <2>5 DEF ReadInv
<1>3. CASE Unfit # {} /\ ~Unnamed(Sym(smap[first].src)) /\ Stop("unresolved")
  <2>1. TypeOK' /\ SymbolIds' = SymbolIds /\ \A x : Sym(x)' = Sym(x)
    BY <1>3, StopTypes
  <2>2. PICK k \in DOMAIN smap : Sym(smap[k].src).type = "NOTYPE"
    BY <1>3, <1>5
  <2>3. PICK a \in SymbolIds :
          a = smap[k].src /\ Sym(a).bind # "WEAK" /\ SrcOf(smap, k) = Sym(a)
    BY <1>1 DEF Resolution, SrcOf
  <2>4. Sym(a).type = "NOTYPE"
    BY <2>2, <2>3
  <2>5. Sym(a).bind = "GLOBAL"
    <3>1. Sym(a).bind # "LOCAL"
      BY <1>1, <2>3, <2>4, CompiledSymbols DEF Contents
    <3>2. Sym(a) \in Symbols
      BY <1>1, <2>3, SymbolTypes DEF TypeOK
    <3> QED
      BY <2>3, <3>1, <3>2 DEF Symbols
  <2>6. \A b \in SymbolIds : Sym(b).bind = "GLOBAL" /\ Sym(b).name = Sym(a).name
                               => Precedence(Sym(b)) < 1
    <3> SUFFICES ASSUME NEW b \in SymbolIds, Sym(b).bind = "GLOBAL", Sym(b).name = Sym(a).name
                 PROVE  Precedence(Sym(b)) < 1
      OBVIOUS
    <3>1. GlobalOf(smap, k, Sym(b).name)
      BY <2>3, <2>5 DEF GlobalOf
    <3>2. Precedence(SrcOf(smap, k)) >= Precedence(Sym(b))
      BY <1>1, <3>1 DEF Best
    <3>3. Precedence(Sym(a)) < 1 /\ Precedence(Sym(a)) \in Int /\ Precedence(Sym(b)) \in Int
      BY <2>4, PrecedenceFacts
    <3> QED
      BY <2>3, <3>2, <3>3
  <2>7. \A x : Precedence(Sym(x))' = Precedence(Sym(x))
    BY <2>1 DEF Precedence
  <2>8. /\ Sym(a)'.bind = "GLOBAL"
        /\ \A b \in GlobalNamed(SymbolIds, Sym(a).name)' : Precedence(Sym(b))' < 1
    BY <2>1, <2>5, <2>6, <2>7 DEF GlobalNamed
  <2>9. Refused'
    BY <1>3, <2>1, <2>8 DEF Stop, Refused
  <2>10. Reading'
    BY <1>3 DEF Stop, Reading, Refusals
  <2> QED
    BY <2>1, <2>9, <2>10 DEF ReadInv
<1>4. CASE pc' = "headers"
  <2>1. /\ TypeOK' /\ SymbolIds' = SymbolIds
        /\ \A id \in SymbolIds : Sym(id)' = CleanedUp(id)
    BY <1>4, CleanedSources
  <2>2. ASSUME NEW id \in SymbolIds
        PROVE  /\ Sym(id)'.bind = Sym(id).bind /\ Sym(id)'.name = Sym(id).name
               /\ ~Chosen(id) => Sym(id)' = Sym(id)
    <3>1. Sym(id) \in Symbols
      BY <1>1, SymbolTypes DEF TypeOK
    <3> DEFINE bss == [Sym(id) EXCEPT !.shndx = ".bss", !.value = 0]
    <3>2. bss.bind = Sym(id).bind /\ bss.name = Sym(id).name
      BY <3>1 DEF Symbols
    <3>3. CleanedUp(id) = Sym(id) \/ (Chosen(id) /\ CleanedUp(id) = bss)
      BY DEF CleanedUp
    <3> QED
      BY <2>1, <3>2, <3>3
  <2>3. \A k \in DOMAIN smap : smap[k].src \in SymbolIds
    BY <1>1 DEF Resolution
  <2>4. \A k \in DOMAIN smap : /\ SrcOf(smap, k)'.bind = SrcOf(smap, k).bind
                               /\ SrcOf(smap, k)'.name = SrcOf(smap, k).name
    BY <1>2, <2>2, <2>3 DEF SrcOf
  <2>5. \A k \in DOMAIN smap : \A name :
          GlobalOf(smap, k, name)' <=> GlobalOf(smap, k, name)
    BY <2>4 DEF GlobalOf
  <2>6. \A id \in SymbolIds : Strong(id)' => Strong(id) \/ Chosen(id)
    BY <2>2 DEF Strong, Precedence
  <2>7. Resolution(smap, SymbolIds)'
    <3>1. \A k, l \in DOMAIN smap' : (smap[k].src = smap[l].src)' => k = l
      BY <1>1, <1>2 DEF Resolution
    <3>2. \A k \in DOMAIN smap' : smap'[k].src \in SymbolIds' /\ SrcOf(smap, k)'.bind # "WEAK"
      BY <1>1, <1>2, <2>1, <2>4 DEF Resolution
    <3>3. \A id \in SymbolIds' : Sym(id)'.bind = "LOCAL" \/ Strong(id)'
                                    => \E k \in DOMAIN smap' : smap'[k].src = id
      BY <1>1, <1>2, <2>1, <2>2, <2>6 DEF Resolution, Chosen, Entries
    <3>4. \A id \in SymbolIds' : Sym(id)'.bind = "GLOBAL" =>
            \E k \in DOMAIN smap' : GlobalOf(smap, k, Sym(id).name)'
      <4> SUFFICES ASSUME NEW id \in SymbolIds, Sym(id).bind = "GLOBAL"
                   PROVE  \E k \in DOMAIN smap : GlobalOf(smap, k, Sym(id).name)'
        BY <1>2, <2>1, <2>2
      <4>1. PICK k \in DOMAIN smap : GlobalOf(smap, k, Sym(id).name)
        BY <1>1 DEF Resolution
      <4> QED
        BY <2>2, <2>4, <4>1 DEF GlobalOf
    <3>5. \A k, l \in DOMAIN smap' :
            GlobalOf(smap, k, SrcOf(smap, l).name)' /\ SrcOf(smap, l)'.bind = "GLOBAL" => k = l
      BY <1>1, <1>2, <2>4 DEF Resolution, GlobalOf
    <3> QED
      BY <3>1, <3>2, <3>3, <3>4, <3>5 DEF Resolution
  <2>8. Reading'
    BY <1>2, <1>4, <2>7 DEF Reading, Entries
  <2> QED
    BY <1>4, <2>1, <2>8 DEF ReadInv, Refused
<1> HIDE DEF first
<1>7. \/ Unfit # {} /\ Unnamed(Sym(smap[first].src)) /\ Stop("unnamed")
      \/ Unfit # {} /\ ~Unnamed(Sym(smap[first].src)) /\ Stop("unresolved")
      \/ pc' = "headers"
  BY DEF CleanUp, first
<1> QED
  BY <1>3, <1>4, <1>6, <1>7

-----------------------------------------------------------------------------
(* The phases after symbol_processing                                      *)

\* Only the sources in the map matter for what it resolves.
LEMMA SameResolution ==
  ASSUME NEW m, NEW w, DOMAIN w = DOMAIN m, \A k \in DOMAIN m : w[k].src = m[k].src,
         NEW seen
  PROVE  Resolution(w, seen) <=> Resolution(m, seen)
<1>1. \A k \in DOMAIN m : SrcOf(w, k) = SrcOf(m, k)
  BY DEF SrcOf
<1>2. \A k \in DOMAIN m : \A name : GlobalOf(w, k, name) <=> GlobalOf(m, k, name)
  BY <1>1 DEF GlobalOf
<1> QED
  BY <1>1, <1>2 DEF Resolution

LEMMA LaterReads ==
  ASSUME ReadInv, srcs' = srcs,
         smap' \in Seq(Pairs), DOMAIN smap' = DOMAIN smap,
         \A k \in DOMAIN smap : smap'[k].src = smap[k].src,
         symt' \in Seq(Symbols),
         pc \notin {"symbols"} \cup Refusals, pc' \notin {"symbols", "headers"} \cup Refusals
  PROVE  ReadInv'
<1>1. TypeOK'
  <2>1. Len(smap') = Len(smap)
    BY DEF ReadInv, TypeOK
  <2> QED
    BY <2>1, SameSymbols DEF ReadInv, TypeOK, Pairs, Compiled
<1>2. Resolution(smap', SymbolIds)
  BY SameResolution DEF ReadInv, Reading
<1>3. Resolution(smap, SymbolIds)'
  BY <1>2, NextMap
<1>4. Reading'
  BY <1>3 DEF Reading
<1> QED
  BY <1>1, <1>4 DEF ReadInv, Refused, Refusals

LEMMA SizesOfTable ==
  ASSUME NEW st \in Seq(Symbols)
  PROVE  /\ IsFiniteSet(DOMAIN st) /\ DOMAIN st \in SUBSET Nat
         /\ \A d \in DOMAIN st : [e \in DOMAIN st |-> st[e].size][d] \in Nat
<1>1. DOMAIN st = 1 .. Len(st) /\ Len(st) \in Nat /\ \A d \in DOMAIN st : st[d] \in Symbols
  OBVIOUS
<1>2. IsFiniteSet(1 .. Len(st))
  BY <1>1, FS_Interval
<1>3. \A d \in DOMAIN st : st[d].size \in Nat
  BY <1>1 DEF Symbols
<1> QED
  BY <1>1, <1>2, <1>3

LEMMA FilledType ==
  ASSUME TypeOK, NEW section
  PROVE  Filled(section) \in Nat
<1> DEFINE sizes == [d \in DOMAIN symt |-> symt[d].size]
           ds == {d \in DOMAIN symt : symt[d].shndx = section}
<1>1. IsFiniteSet(ds) /\ \A d \in ds : sizes[d] \in Nat
  BY SizesOfTable, FS_Subset DEF TypeOK
<1>2. Filled(section) = SumFunctionOnSet(sizes, ds)
  BY DEF Filled
<1> HIDE DEF sizes, ds
<1> QED
  BY <1>1, <1>2, SumNat

\* What a symbol that is merged does to the map and the symbol table.
LEMMA MergeSteps ==
  ASSUME ReadInv, NEW s \in DOMAIN Sections, NEW id \in SymbolIds, MergeSymbol(s, id),
         pc' # "toolong"
  PROVE  /\ [Sym(id) EXCEPT !.value = Filled(Sections[s])] \in Symbols
         /\ symt' = Append(symt, [Sym(id) EXCEPT !.value = Filled(Sections[s])])
         /\ symt' \in Seq(Symbols) /\ Len(symt') = Len(symt) + 1
         /\ smap' \in Seq(Pairs) /\ DOMAIN smap' = DOMAIN smap
         /\ \A k \in DOMAIN smap :
              smap'[k].src = smap[k].src
              /\ smap'[k].dst = IF smap[k].src = id THEN Len(symt) + 1 ELSE smap[k].dst
<1>1. TypeOK /\ Sym(id) \in Symbols /\ Filled(Sections[s]) \in Nat
  BY FilledType, SymbolTypes DEF ReadInv, TypeOK
<1>2. [Sym(id) EXCEPT !.value = Filled(Sections[s])] \in Symbols
  BY <1>1 DEF Symbols
<1> DEFINE new == Len(symt) + 1
           pair(k) == IF smap[k].src = id THEN [smap[k] EXCEPT !.dst = new] ELSE smap[k]
<1>3. /\ symt' = Append(symt, [Sym(id) EXCEPT !.value = Filled(Sections[s])])
      /\ smap' = [k \in DOMAIN smap |-> pair(k)]
  BY DEF MergeSymbol, Stop, Entries
<1>4. symt' \in Seq(Symbols) /\ Len(symt') = Len(symt) + 1 /\ new \in Nat
  BY <1>1, <1>2, <1>3 DEF TypeOK
<1>5. ASSUME NEW k \in DOMAIN smap
      PROVE  /\ pair(k) \in Pairs /\ pair(k).src = smap[k].src
             /\ pair(k).dst = IF smap[k].src = id THEN new ELSE smap[k].dst
  <2>1. smap[k] \in Pairs
    BY <1>1 DEF TypeOK
  <2> HIDE DEF new
  <2>2. /\ [smap[k] EXCEPT !.dst = new] \in Pairs
        /\ [smap[k] EXCEPT !.dst = new].src = smap[k].src
        /\ [smap[k] EXCEPT !.dst = new].dst = new
    BY <1>4, <2>1 DEF Pairs
  <2> QED
    BY <2>1, <2>2
<1>6. smap' \in Seq(Pairs)
  <2> DEFINE len == Len(smap)
  <2>1. len \in Nat /\ smap' = [k \in 1 .. len |-> pair(k)] /\ \A k \in 1 .. len : pair(k) \in Pairs
    BY <1>1, <1>3, <1>5 DEF TypeOK
  <2> HIDE DEF pair, len
  <2> QED
    BY <2>1
<1>7. DOMAIN smap' = DOMAIN smap /\ \A k \in DOMAIN smap : smap'[k] = pair(k)
  BY <1>3
<1> HIDE DEF pair
<1> QED
  BY <1>2, <1>3, <1>4, <1>5, <1>6, <1>7 DEF new

\* Where the program is, before and after a step of the later phases.
LEMMA LaterSteps ==
  ASSUME ReadInv
  PROVE  /\ compute_section_header => pc = "headers" /\ pc' = "merge"
         /\ \A s \in DOMAIN Sections : \A id \in SymbolIds :
              /\ MergeSymbol(s, id) => pc = "merge" /\ pc' \in {"merge", "toolong"}
              /\ PassUnmerged(s, id) => pc = "merge" /\ pc' = "merge"
         /\ WriteSymtab => pc = "merge" /\ pc' \in {"relocate", "overrun", "unset", "miscounted"}
         /\ \A r \in RelocationIds :
              /\ Relocate(r) => pc = "relocate"
                                /\ pc' \in {"relocate", "unmapped", "nottext", "astray"}
              /\ PassRelocation(r) => pc = "relocate" /\ pc' \in {"relocate", "unmapped"}
         /\ Finish => pc = "relocate" /\ pc' = "done"
BY DEF compute_section_header, MergeSymbol, PassUnmerged, Merging, WriteSymtab, Relocate,
       PassRelocation, Relocating, Finish, Stop

LEMMA LaterFrames ==
  ASSUME ReadInv
  PROVE  /\ compute_section_header => UNCHANGED <<srcs, smap, symt>>
         /\ \A s \in DOMAIN Sections : \A id \in SymbolIds :
              /\ MergeSymbol(s, id) => srcs' = srcs
              /\ MergeSymbol(s, id) /\ pc' = "toolong" => UNCHANGED <<srcs, smap, symt>>
              /\ PassUnmerged(s, id) => UNCHANGED <<srcs, smap, symt>>
         /\ WriteSymtab => UNCHANGED <<srcs, smap, symt>>
         /\ \A r \in RelocationIds :
              /\ Relocate(r) => UNCHANGED <<srcs, smap, symt>>
              /\ PassRelocation(r) => UNCHANGED <<srcs, smap, symt>>
         /\ Finish => UNCHANGED <<srcs, smap, symt>>
BY DEF compute_section_header, MergeSymbol, PassUnmerged, Merging, WriteSymtab, Relocate,
       PassRelocation, Finish, Stop

LEMMA LaterStepReads ==
  ASSUME ReadInv, Next, pc # "symbols"
  PROVE  ReadInv'
<1>1. \/ compute_section_header
      \/ \E s \in DOMAIN Sections, id \in SymbolIds : MergeSymbol(s, id) \/ PassUnmerged(s, id)
      \/ WriteSymtab
      \/ \E r \in RelocationIds : Relocate(r) \/ PassRelocation(r)
      \/ Finish
  BY DEF Next, InsertSymbol, ResolveSymbol, PassWeak, Processing, CleanUp
<1>2. pc \notin {"symbols"} \cup Refusals /\ pc' \notin {"symbols", "headers"} \cup Refusals
  BY <1>1, LaterSteps DEF Refusals
<1>3. srcs' = srcs
  BY <1>1, LaterFrames
<1>4. CASE UNCHANGED <<srcs, smap, symt>>
  <2>1. smap' \in Seq(Pairs) /\ symt' \in Seq(Symbols)
    BY <1>4 DEF ReadInv, TypeOK
  <2> QED
    BY <1>2, <1>4, <2>1, LaterReads
<1>5. ASSUME NEW s \in DOMAIN Sections, NEW id \in SymbolIds, MergeSymbol(s, id),
             pc' # "toolong"
      PROVE  ReadInv'
  <2>1. /\ symt' \in Seq(Symbols) /\ smap' \in Seq(Pairs) /\ DOMAIN smap' = DOMAIN smap
        /\ \A k \in DOMAIN smap : smap'[k].src = smap[k].src
    BY <1>5, MergeSteps
  <2> QED
    BY <1>2, <1>3, <2>1, LaterReads
<1> QED
  BY <1>1, <1>4, <1>5, LaterFrames

LEMMA StutterReads == ASSUME ReadInv, UNCHANGED vars PROVE ReadInv'
<1>1. Stop(pc)
  BY DEF vars, Stop
<1>2. TypeOK' /\ SymbolIds' = SymbolIds /\ \A id : Sym(id)' = Sym(id)
  BY <1>1, StopTypes
<1>3. /\ srcs' = srcs /\ smap' = smap /\ todo' = todo /\ pc' = pc
      /\ symt' = symt /\ lines' = lines /\ patches' = patches
  BY DEF vars
<1>4. Seen' = Seen
  BY <1>2, <1>3 DEF Seen
<1>5. /\ Resolution(smap, Seen)' <=> Resolution(smap, Seen)
      /\ Best(smap, Seen)' <=> Best(smap, Seen)
      /\ Resolution(smap, SymbolIds)' <=> Resolution(smap, SymbolIds)
  BY <1>3, NextMap DEF Seen
<1>6. Reading'
  BY <1>2, <1>3, <1>5 DEF ReadInv, Reading, Entries
<1>7. \A id : (Strong(id)' <=> Strong(id)) /\ Precedence(Sym(id))' = Precedence(Sym(id))
  BY <1>2 DEF Strong, Precedence
<1>9. /\ Locals' = Locals /\ GlobalNames' = GlobalNames
      /\ \A id : Unnamed(Sym(id))' <=> Unnamed(Sym(id))
      /\ \A a : GlobalNamed(SymbolIds, Sym(a).name)' = GlobalNamed(SymbolIds, Sym(a).name)
  BY <1>2 DEF Locals, Globals, GlobalNames, Unnamed, GlobalNamed
<1>8. Refused'
  BY <1>2, <1>3, <1>7, <1>9 DEF ReadInv, Refused
<1> QED
  BY <1>2, <1>6, <1>8 DEF ReadInv

THEOREM ReadInvHolds == Spec => []ReadInv
<1>1. Init => ReadInv
  BY InitReads
<1>2. ReadInv /\ [Next]_vars => ReadInv'
  <2> SUFFICES ASSUME ReadInv, [Next]_vars PROVE ReadInv'
    OBVIOUS
  <2>1. CASE Next /\ pc = "symbols"
    <3>1. \/ \E id \in SymbolIds : InsertSymbol(id) \/ ResolveSymbol(id) \/ PassWeak(id)
          \/ CleanUp
      BY <2>1, LaterSteps DEF Next
    <3> QED
      BY <3>1, InsertReads, ResolveReads, WeakReads, CleanUpReads
  <2>2. CASE Next /\ pc # "symbols"
    BY <2>2, LaterStepReads
  <2>3. CASE UNCHANGED vars
    BY <2>3, StutterReads
  <2> QED
    BY <2>1, <2>2, <2>3
<1> QED
  BY <1>1, <1>2, PTL DEF Spec

LEMMA ReadInvResolves == ASSUME ReadInv PROVE ResolvedSoFar
<1> SUFFICES ASSUME pc = "symbols"
             PROVE  /\ \A k, l \in Entries : k # l => smap[k].src # smap[l].src
                    /\ {smap[k].src : k \in Entries} \subseteq {id \in Seen : Sym(id).bind # "WEAK"}
                    /\ \A id \in Seen :
                         /\ Sym(id).bind = "LOCAL" => Chosen(id)
                         /\ Sym(id).bind = "GLOBAL" =>
                              \E k \in Entries :
                                /\ {l \in Entries : smap[l].src \in GlobalNamed(Seen, Sym(id).name)}
                                     = {k}
                                /\ Precedence(Sym(smap[k].src)) >= Precedence(Sym(id))
  BY DEF ResolvedSoFar
<1>1. Resolution(smap, Seen) /\ Best(smap, Seen)
  BY DEF ReadInv, Reading
<1>2. \A k, l \in Entries : k # l => smap[k].src # smap[l].src
  BY <1>1 DEF Resolution, Entries
<1>3. {smap[k].src : k \in Entries} \subseteq {id \in Seen : Sym(id).bind # "WEAK"}
  BY <1>1 DEF Resolution, Entries, SrcOf
<1>4. ASSUME NEW id \in Seen, Sym(id).bind = "LOCAL" PROVE Chosen(id)
  BY <1>1, <1>4 DEF Resolution, Chosen, Entries
<1>5. ASSUME NEW id \in Seen, Sym(id).bind = "GLOBAL"
      PROVE  \E k \in Entries :
               /\ {l \in Entries : smap[l].src \in GlobalNamed(Seen, Sym(id).name)} = {k}
               /\ Precedence(Sym(smap[k].src)) >= Precedence(Sym(id))
  <2>1. PICK k \in DOMAIN smap : GlobalOf(smap, k, Sym(id).name)
    BY <1>1, <1>5 DEF Resolution
  <2>2. SrcOf(smap, k) = Sym(smap[k].src) /\ smap[k].src \in Seen
    BY <1>1 DEF SrcOf, Resolution
  <2>3. Precedence(Sym(smap[k].src)) >= Precedence(Sym(id))
    BY <1>1, <1>5, <2>1, <2>2 DEF Best
  <2>4. \A l \in DOMAIN smap : GlobalOf(smap, l, Sym(id).name) => l = k
    BY <1>1, <2>1 DEF Resolution, GlobalOf
  <2>5. \A l \in DOMAIN smap :
          smap[l].src \in GlobalNamed(Seen, Sym(id).name) <=> GlobalOf(smap, l, Sym(id).name)
    BY <1>1 DEF GlobalNamed, GlobalOf, SrcOf, Resolution
  <2>6. {l \in DOMAIN smap : smap[l].src \in GlobalNamed(Seen, Sym(id).name)} = {k}
    BY <2>1, <2>4, <2>5
  <2> QED
    BY <2>3, <2>6 DEF Entries
<1> QED
  BY <1>2, <1>3, <1>4, <1>5

\* In whatever order the files and their symbols come, at every moment every
\* local symbol read so far has its entry in smap_table, and every global name
\* has one, of the best precedence seen (symbol_processing).
THEOREM ResolvedSoFarHolds == Spec => []ResolvedSoFar
BY ReadInvHolds, ReadInvResolves, PTL

-----------------------------------------------------------------------------
(* What is merged, and where it lies                                       *)

MergeIds == {<<s, id[1], id[2]>> : s \in DOMAIN sht, id \in SymbolIds}

\* The tuple with which the source of an entry is visited in a section.
VisitOf(m, k, s) == <<s, m[k].src[1], m[k].src[2]>>

Sizes(m) == [k \in DOMAIN m |-> SrcOf(m, k).size]

\* The entries of a section, and those of them that have been merged.
EntriesIn(m, section) == {k \in DOMAIN m : SrcOf(m, k).shndx = section}
MergedIn(m, section) == {k \in EntriesIn(m, section) : m[k].dst # 0}

\* The symbol of dst is that of the source, at another place in its section.
IsCopy(sym, src) == sym = [src EXCEPT !.value = sym.value]

\* The map m numbers the entries of the table st, which are copies of their sources.
Numbered(m, st) ==
  /\ \A k \in DOMAIN m : m[k].dst \in 0 .. Len(st)
  /\ \A k, l \in DOMAIN m : m[k].dst = m[l].dst /\ m[k].dst # 0 => k = l
  /\ \A d \in 1 .. Len(st) : \E k \in DOMAIN m : m[k].dst = d
  /\ \A k \in DOMAIN m : m[k].dst # 0 =>
       /\ SrcOf(m, k).shndx \in Contents
       /\ IsCopy(st[m[k].dst], SrcOf(m, k))

\* What has been merged is what has been visited, section by section.
InOrder(m, td) ==
  /\ td \subseteq MergeIds
  /\ \A x \in MergeIds \ td : \A y \in td : x[1] <= y[1]
  /\ \A s \in 1 .. 3 : \A k \in EntriesIn(m, Sections[s]) :
       s \in DOMAIN sht /\ (m[k].dst # 0 <=> VisitOf(m, k, s) \notin td)

SizesIn(st) == [d \in DOMAIN st |-> st[d].size]
FilledIn(st, section) == SumFunctionOnSet(SizesIn(st), {d \in DOMAIN st : st[d].shndx = section})
TotalOf(st) == SumFunctionOnSet(SizesIn(st), DOMAIN st)

\* The lines of a section are counted alike in the table and in the map.
Counted(m, st) ==
  /\ TotalOf(st) = FilledIn(st, ".text") + FilledIn(st, ".rodata") + FilledIn(st, ".data")
  /\ \A section \in Contents :
       FilledIn(st, section) = SumFunctionOnSet(Sizes(m), MergedIn(m, section))

\* The lines in the sections before a section.
Before(section) == CASE section = ".text" -> 0
                     [] section = ".rodata" -> CountOf(".text")
                     [] section = ".data" -> CountOf(".text") + CountOf(".rodata")

Start == 2 + Cardinality(DOMAIN sht)

\* A merged symbol has its lines where its section and its value say.
Found(src, id, sym, ls) ==
  \A l \in Nat : l < sym.size =>
    LET n == Start + Before(src.shndx) + sym.value + l IN
    n \in DOMAIN ls /\ ls[n] = <<id[1], src.shndx, src.value + l>>

Copied(m, st, ls) ==
  /\ DOMAIN ls = Start .. Start + TotalOf(st) - 1 /\ DOMAIN ls \subseteq 0 .. FileLength - 1
  /\ \A k \in DOMAIN m : m[k].dst # 0 =>
       /\ st[m[k].dst].value + st[m[k].dst].size <= FilledIn(st, SrcOf(m, k).shndx)
       /\ Found(SrcOf(m, k), m[k].src, st[m[k].dst], ls)

MergeInv ==
  pc \in {"merge", "relocate", "done"} =>
    /\ counts = <<LineCount, Len(smap)>> /\ sht = Headers
    /\ Numbered(smap, symt)
    /\ pc = "merge" => InOrder(smap, todo)
    /\ pc # "merge" => \A k \in DOMAIN smap : smap[k].dst # 0
    /\ Counted(smap, symt)
    /\ Copied(smap, symt, lines)

\* Only a change of the sources or of the sections changes what is counted.
LEMMA SameCounts ==
  ASSUME srcs' = srcs, DOMAIN smap' = DOMAIN smap,
         \A k \in DOMAIN smap : smap'[k].src = smap[k].src
  PROVE  /\ \A section : CountOf(section)' = CountOf(section)
         /\ Present' = Present
<1>1. \A k \in DOMAIN smap : Sym(smap[k].src)' = Sym(smap[k].src)
  BY DEF Sym
<1>2. [k \in Entries |-> Sym(smap[k].src).size]' = [k \in Entries |-> Sym(smap[k].src).size]
  BY <1>1 DEF Entries
<1>3. ASSUME NEW section
      PROVE  {k \in Entries : Sym(smap[k].src).shndx = section}'
               = {k \in Entries : Sym(smap[k].src).shndx = section}
  BY <1>1 DEF Entries
<1>4. \A section : CountOf(section)' = CountOf(section)
  BY <1>2, <1>3, Zenon DEF CountOf
<1>5. Present' = Present
  BY <1>4, Zenon DEF Present, Sections
<1> QED
  BY <1>4, <1>5

LEMMA SameHeaders ==
  ASSUME srcs' = srcs, smap \in Seq(Pairs), smap' \in Seq(Pairs), DOMAIN smap' = DOMAIN smap,
         \A k \in DOMAIN smap : smap'[k].src = smap[k].src
  PROVE  Headers' = Headers /\ LineCount' = LineCount /\ Len(smap') = Len(smap)
<1>1. Len(smap') = Len(smap)
  OBVIOUS
<1>2. (\A section : CountOf(section)' = CountOf(section)) /\ Present' = Present
  BY SameCounts
<1>3. \A section : SizeOf(section)' = SizeOf(section)
  BY <1>1, <1>2, Zenon DEF SizeOf
<1>4. \A section : AddrOf(section)' = AddrOf(section)
  BY <1>2, Zenon DEF AddrOf
<1>5. \A s : OffsetOf(s)' = OffsetOf(s)
  BY <1>2, <1>3, Zenon DEF OffsetOf, Sections
<1>6. Headers' = Headers
  BY <1>2, <1>3, <1>4, <1>5, Zenon DEF Headers, Sections
<1>7. LineCount' = LineCount
  BY <1>1, <1>2, Zenon DEF LineCount
<1> QED
  BY <1>1, <1>6, <1>7

LEMMA NextLayout ==
  ASSUME srcs' = srcs, sht' = sht, DOMAIN smap' = DOMAIN smap,
         \A k \in DOMAIN smap : smap'[k].src = smap[k].src
  PROVE  /\ Numbered(smap, symt)' <=> Numbered(smap', symt')
         /\ InOrder(smap, todo)' <=> InOrder(smap', todo')
         /\ Counted(smap, symt)' <=> Counted(smap', symt')
         /\ Copied(smap, symt, lines)' <=> Copied(smap', symt', lines')
<1>1. \A k : SrcOf(smap, k)' = SrcOf(smap', k)
  BY DEF SrcOf, Sym
<1>2. /\ MergeIds' = MergeIds /\ Start' = Start /\ (\A section : Before(section)' = Before(section))
  <2>1. SymbolIds' = SymbolIds
    BY SameSymbols
  <2>2. MergeIds' = MergeIds /\ Start' = Start
    BY <2>1 DEF MergeIds, Start
  <2>3. \A section : CountOf(section)' = CountOf(section)
    BY SameCounts
  <2>4. \A section : Before(section)' = Before(section)
    BY <2>3 DEF Before
  <2> QED
    BY <2>2, <2>4
<1>3. Numbered(smap, symt)' <=> Numbered(smap', symt')
  BY <1>1 DEF Numbered, IsCopy
<1>4. \A section : EntriesIn(smap, section)' = EntriesIn(smap', section)
  BY <1>1 DEF EntriesIn
<1>5. \A section : MergedIn(smap, section)' = MergedIn(smap', section)
  BY <1>4 DEF MergedIn
<1>6. Sizes(smap)' = Sizes(smap')
  BY <1>1 DEF Sizes
<1>7. InOrder(smap, todo)' <=> InOrder(smap', todo')
  BY <1>2, <1>4 DEF InOrder, VisitOf, Sections
<1>8. /\ \A section : FilledIn(symt, section)' = FilledIn(symt', section)
      /\ TotalOf(symt)' = TotalOf(symt')
  BY DEF FilledIn, TotalOf, SizesIn
<1>9. Counted(smap, symt)' <=> Counted(smap', symt')
  BY <1>5, <1>6, <1>8 DEF Counted
<1>10. \A k : Found(SrcOf(smap, k), smap[k].src, symt[smap[k].dst], lines)'
               <=> Found(SrcOf(smap', k), smap'[k].src, symt'[smap'[k].dst], lines')
  BY <1>1, <1>2 DEF Found
<1>11. Copied(smap, symt, lines)' <=> Copied(smap', symt', lines')
  BY <1>1, <1>2, <1>8, <1>10 DEF Copied
<1> QED
  BY <1>3, <1>7, <1>9, <1>11

LEMMA SectionFacts ==
  /\ DOMAIN Sections = 1 .. 4 /\ Sections[1] = ".text" /\ Sections[2] = ".rodata"
  /\ Sections[3] = ".data" /\ Sections[4] = ".symtab"
  /\ \A section \in Contents : \E s \in 1 .. 3 : Sections[s] = section
  /\ \A s \in 1 .. 3 : Sections[s] \in Contents /\ Sections[s] # ".symtab"
  /\ \A s, t \in DOMAIN Sections : Sections[s] = Sections[t] => s = t
<1>1. /\ DOMAIN Sections = 1 .. 4 /\ Sections[1] = ".text" /\ Sections[2] = ".rodata"
      /\ Sections[3] = ".data" /\ Sections[4] = ".symtab"
  BY DEF Sections
<1>2. \A s \in 1 .. 4 : s = 1 \/ s = 2 \/ s = 3 \/ s = 4
  OBVIOUS
<1>3. 1 \in 1 .. 3 /\ 2 \in 1 .. 3 /\ 3 \in 1 .. 3 /\ 4 \notin 1 .. 3
  OBVIOUS
<1>4. \A section \in Contents : \E s \in 1 .. 3 : Sections[s] = section
  BY <1>1, <1>3 DEF Contents
<1>5. \A s \in 1 .. 3 : Sections[s] \in Contents /\ Sections[s] # ".symtab"
  BY <1>1, <1>2 DEF Contents
<1>6. \A s, t \in DOMAIN Sections : Sections[s] = Sections[t] => s = t
  BY <1>1, <1>2
<1> QED
  BY <1>1, <1>4, <1>5, <1>6

LEMMA MapSizes ==
  ASSUME TypeOK
  PROVE  /\ IsFiniteSet(DOMAIN smap) /\ DOMAIN smap = 1 .. Len(smap) /\ Len(smap) \in Nat
         /\ \A k \in DOMAIN smap : /\ smap[k].src \in SymbolIds /\ smap[k].dst \in Nat
                                   /\ SrcOf(smap, k) \in Symbols
                                   /\ Sizes(smap)[k] = SrcOf(smap, k).size
                                   /\ Sizes(smap)[k] \in Nat
<1>1. /\ DOMAIN smap = 1 .. Len(smap) /\ Len(smap) \in Nat
      /\ \A k \in DOMAIN smap : smap[k].src \in SymbolIds /\ smap[k].dst \in Nat
  <2>1. /\ DOMAIN smap = 1 .. Len(smap) /\ Len(smap) \in Nat
        /\ \A k \in DOMAIN smap : smap[k] \in Pairs
    BY DEF TypeOK
  <2> QED
    BY <2>1 DEF Pairs
<1>2. IsFiniteSet(1 .. Len(smap))
  BY <1>1, FS_Interval
<1>3. \A k \in DOMAIN smap : SrcOf(smap, k) \in Symbols
  BY <1>1, SymbolTypes DEF SrcOf, TypeOK
<1>4. \A k \in DOMAIN smap : Sizes(smap)[k] = SrcOf(smap, k).size /\ SrcOf(smap, k).size \in Nat
  BY <1>3 DEF Sizes, Symbols
<1> QED
  BY <1>1, <1>2, <1>3, <1>4

LEMMA CountTypes ==
  ASSUME TypeOK
  PROVE  /\ \A section : CountOf(section) = SumFunctionOnSet(Sizes(smap), EntriesIn(smap, section))
         /\ \A section : CountOf(section) \in Nat
         /\ \A section : \A ks \in SUBSET EntriesIn(smap, section) :
              SumFunctionOnSet(Sizes(smap), ks) <= CountOf(section)
<1>1. \A section : CountOf(section) = SumFunctionOnSet(Sizes(smap), EntriesIn(smap, section))
  BY DEF CountOf, Sizes, EntriesIn, SrcOf, Entries
<1>2. \A section : /\ IsFiniteSet(EntriesIn(smap, section))
                   /\ \A k \in EntriesIn(smap, section) : Sizes(smap)[k] \in Nat
  <2>1. \A section : EntriesIn(smap, section) \subseteq DOMAIN smap
    BY DEF EntriesIn
  <2> QED
    BY <2>1, MapSizes, FS_Subset
<1>3. \A section : CountOf(section) \in Nat
  BY <1>1, <1>2, SumNat
<1>4. \A section : \A ks \in SUBSET EntriesIn(smap, section) :
        SumFunctionOnSet(Sizes(smap), ks) <= CountOf(section)
  BY <1>1, <1>2, SumPart
<1> QED
  BY <1>1, <1>3, <1>4

LEMMA TableCounts ==
  ASSUME NEW st \in Seq(Symbols)
  PROVE  /\ \A section : FilledIn(st, section) \in Nat
         /\ TotalOf(st) \in Nat
<1>1. /\ IsFiniteSet(DOMAIN st)
      /\ \A d \in DOMAIN st : SizesIn(st)[d] \in Nat
  BY SizesOfTable DEF SizesIn
<1>2. TotalOf(st) \in Nat
  BY <1>1, SumNat DEF TotalOf
<1>3. ASSUME NEW section PROVE FilledIn(st, section) \in Nat
  <2> DEFINE ds == {d \in DOMAIN st : st[d].shndx = section}
  <2>1. IsFiniteSet(ds) /\ \A d \in ds : SizesIn(st)[d] \in Nat
    BY <1>1, FS_Subset
  <2> HIDE DEF ds
  <2>2. SumFunctionOnSet(SizesIn(st), ds) \in Nat
    BY <2>1, SumNat
  <2> QED
    BY <2>2 DEF FilledIn, ds
<1> QED
  BY <1>2, <1>3

\* What an entry e at the end of the table adds to the counts.
Grown(st, wt, e) ==
  /\ \A section : /\ FilledIn(st, section) <= FilledIn(wt, section)
                  /\ FilledIn(st, section) \in Nat /\ FilledIn(wt, section) \in Nat
                  /\ e.shndx # section => FilledIn(wt, section) = FilledIn(st, section)
                  /\ e.shndx = section => FilledIn(wt, section) = FilledIn(st, section) + e.size
  /\ TotalOf(wt) = TotalOf(st) + e.size

LEMMA AppendCounts ==
  ASSUME NEW st \in Seq(Symbols), NEW e \in Symbols, NEW wt, wt = Append(st, e)
  PROVE  Grown(st, wt, e)
<1> DEFINE n == Len(st) + 1
<1>1. /\ wt \in Seq(Symbols) /\ DOMAIN st = 1 .. Len(st) /\ DOMAIN wt = DOMAIN st \cup {n}
      /\ n \notin DOMAIN st /\ wt[n] = e /\ \A d \in DOMAIN st : wt[d] = st[d]
  OBVIOUS
<1>2. /\ IsFiniteSet(DOMAIN st) /\ IsFiniteSet(DOMAIN wt)
      /\ \A d \in DOMAIN wt : SizesIn(wt)[d] \in Nat
      /\ \A d \in DOMAIN st : SizesIn(wt)[d] = SizesIn(st)[d]
      /\ SizesIn(wt)[n] = e.size
  BY <1>1, SizesOfTable DEF SizesIn
<1> HIDE DEF n
<1>3. ASSUME NEW ds \in SUBSET DOMAIN st
      PROVE  /\ IsFiniteSet(ds)
             /\ SumFunctionOnSet(SizesIn(wt), ds) = SumFunctionOnSet(SizesIn(st), ds)
             /\ SumFunctionOnSet(SizesIn(wt), ds \cup {n})
                  = SumFunctionOnSet(SizesIn(st), ds) + e.size
             /\ SumFunctionOnSet(SizesIn(st), ds) \in Nat
  <2>1. IsFiniteSet(ds) /\ n \notin ds /\ \A d \in ds \cup {n} : SizesIn(wt)[d] \in Nat
    BY <1>1, <1>2, FS_Subset
  <2>2. SumFunctionOnSet(SizesIn(wt), ds) = SumFunctionOnSet(SizesIn(st), ds)
    BY <1>2, <2>1, SumEqual
  <2>3. SumFunctionOnSet(SizesIn(wt), ds \cup {n}) = SumFunctionOnSet(SizesIn(wt), ds) + e.size
    BY <1>2, <2>1, SumAdd
  <2>4. \A d \in ds : SizesIn(st)[d] \in Nat
    BY <1>1, <1>2
  <2> QED
    BY <2>1, <2>2, <2>3, <2>4, SumNat
<1>4. TotalOf(wt) = TotalOf(st) + e.size
  BY <1>1, <1>3 DEF TotalOf
<1>5. ASSUME NEW section
      PROVE  /\ e.shndx # section => FilledIn(wt, section) = FilledIn(st, section)
             /\ e.shndx = section => FilledIn(wt, section) = FilledIn(st, section) + e.size
  <2> DEFINE ds == {d \in DOMAIN st : st[d].shndx = section}
             es == {d \in DOMAIN wt : wt[d].shndx = section}
  <2>1. ds \in SUBSET DOMAIN st
    OBVIOUS
  <2>2. es = IF e.shndx = section THEN ds \cup {n} ELSE ds
    BY <1>1
  <2>3. /\ FilledIn(wt, section) = SumFunctionOnSet(SizesIn(wt), es)
        /\ FilledIn(st, section) = SumFunctionOnSet(SizesIn(st), ds)
    BY DEF FilledIn
  <2> HIDE DEF ds, es
  <2> QED
    BY <1>3, <2>1, <2>2, <2>3
<1>6. \A section : FilledIn(st, section) \in Nat /\ FilledIn(wt, section) \in Nat
  BY <1>1, TableCounts
<1>7. e.size \in Nat
  BY DEF Symbols
<1>8. ASSUME NEW section PROVE FilledIn(st, section) <= FilledIn(wt, section)
  <2>1. CASE e.shndx = section
    BY <1>5, <1>6, <1>7, <2>1
  <2>2. CASE e.shndx # section
    BY <1>5, <1>6, <2>2
  <2> QED
    BY <2>1, <2>2
<1> QED
  BY <1>4, <1>5, <1>6, <1>8 DEF Grown

\* An entry that is merged adds its lines to those of its section.
LEMMA MarkCounts ==
  ASSUME TypeOK, NEW w, DOMAIN w = DOMAIN smap,
         NEW k \in DOMAIN smap, smap[k].dst = 0,
         \A l \in DOMAIN smap : /\ w[l].src = smap[l].src
                                /\ w[l].dst # 0 <=> l = k \/ smap[l].dst # 0
  PROVE  \A section :
           SumFunctionOnSet(Sizes(w), MergedIn(w, section))
             = SumFunctionOnSet(Sizes(smap), MergedIn(smap, section))
                 + IF SrcOf(smap, k).shndx = section THEN SrcOf(smap, k).size ELSE 0
<1>1. \A l \in DOMAIN smap : SrcOf(w, l) = SrcOf(smap, l)
  BY DEF SrcOf
<1>2. Sizes(w) = Sizes(smap)
  BY <1>1 DEF Sizes
<1> SUFFICES ASSUME NEW section
             PROVE  SumFunctionOnSet(Sizes(smap), MergedIn(w, section))
                      = SumFunctionOnSet(Sizes(smap), MergedIn(smap, section))
                          + IF SrcOf(smap, k).shndx = section THEN SrcOf(smap, k).size ELSE 0
  BY <1>2
<1> DEFINE ks == MergedIn(smap, section)
<1>3. MergedIn(w, section) = IF SrcOf(smap, k).shndx = section THEN ks \cup {k} ELSE ks
  BY <1>1 DEF MergedIn, EntriesIn
<1>4. ks \subseteq DOMAIN smap /\ k \notin ks
  BY DEF MergedIn, EntriesIn
<1>5. IsFiniteSet(ks) /\ \A l \in ks \cup {k} : Sizes(smap)[l] \in Nat
  BY <1>4, MapSizes, FS_Subset
<1>6. Sizes(smap)[k] = SrcOf(smap, k).size
  BY MapSizes
<1> HIDE DEF ks
<1>7. SumFunctionOnSet(Sizes(smap), ks) \in Nat
  BY <1>5, SumNat
<1>8. SumFunctionOnSet(Sizes(smap), ks \cup {k})
        = SumFunctionOnSet(Sizes(smap), ks) + SrcOf(smap, k).size
  BY <1>4, <1>5, <1>6, SumAdd
<1> QED
  BY <1>3, <1>7, <1>8 DEF ks

\* A section that a chosen symbol is in has lines, and so it is in dst.
LEMMA SectionPresent ==
  ASSUME TypeOK, NEW s \in 1 .. 3, NEW k \in EntriesIn(smap, Sections[s])
  PROVE  s \in Present /\ SrcOf(smap, k).size <= CountOf(Sections[s])
<1>1. /\ k \in DOMAIN smap /\ SrcOf(smap, k).shndx = Sections[s] /\ Sections[s] \in Contents
      /\ smap[k].src \in SymbolIds /\ SrcOf(smap, k) = Sym(smap[k].src)
  BY MapSizes, SectionFacts DEF EntriesIn, SrcOf
<1>2. SrcOf(smap, k).size # 0 /\ SrcOf(smap, k).size \in Nat
  BY <1>1, CompiledSymbols, MapSizes
<1>3. SumFunctionOnSet(Sizes(smap), {k}) = SrcOf(smap, k).size
  <2>1. IsFiniteSet({}) /\ {} \cup {k} = {k}
    BY FS_EmptySet
  <2>2. Sizes(smap)[k] = SrcOf(smap, k).size
    BY <1>1, MapSizes
  <2>3. SumFunctionOnSet(Sizes(smap), {} \cup {k})
          = SumFunctionOnSet(Sizes(smap), {}) + Sizes(smap)[k]
    BY <1>2, <2>1, <2>2, SumAdd
  <2> QED
    BY <1>2, <2>1, <2>2, <2>3, SumEmpty
<1>4. SrcOf(smap, k).size <= CountOf(Sections[s]) /\ CountOf(Sections[s]) \in Nat
  BY <1>3, CountTypes
<1>5. CountOf(Sections[s]) # 0
  BY <1>2, <1>4
<1> QED
  BY <1>4, <1>5, SectionFacts DEF Present

LEMMA PresentFinite ==
  Present \subseteq 1 .. 4 /\ IsFiniteSet(Present) /\ Cardinality(Present) \in Nat
<1>1. Present \subseteq 1 .. 4
  BY SectionFacts DEF Present
<1>2. IsFiniteSet(1 .. 4)
  <2> DEFINE n == 4
  <2>1. n \in Int
    OBVIOUS
  <2> HIDE DEF n
  <2>2. IsFiniteSet(1 .. n)
    BY <2>1, FS_Interval
  <2> QED
    BY <2>2 DEF n
<1>3. IsFiniteSet(Present)
  BY <1>1, <1>2, FS_Subset
<1> QED
  BY <1>1, <1>3, FS_CardinalityType

LEMMA HeadersMerge ==
  ASSUME ReadInv, compute_section_header
  PROVE  MergeInv'
<1>1. /\ TypeOK /\ pc = "headers" /\ pc' = "merge"
      /\ srcs' = srcs /\ smap' = smap /\ symt' = symt /\ lines' = lines
      /\ counts' = <<LineCount, Len(smap)>> /\ sht' = Headers
      /\ todo' = {<<s, id[1], id[2]>> : s \in Present, id \in SymbolIds}
  BY DEF ReadInv, compute_section_header
<1>2. symt = <<>> /\ lines = <<>> /\ \A k \in DOMAIN smap : smap[k].dst = 0
  BY <1>1 DEF ReadInv, Reading, Entries
<1>3. Headers' = Headers /\ LineCount' = LineCount
  BY <1>1, SameHeaders DEF TypeOK
<1>4. SymbolIds' = SymbolIds /\ \A k : SrcOf(smap, k)' = SrcOf(smap, k)
  BY <1>1, SameSymbols DEF SrcOf, Sym
<1>5. DOMAIN sht' = Present
  BY <1>1 DEF Headers
<1>6. MergeIds' = todo'
  BY <1>1, <1>4, <1>5 DEF MergeIds
<1>7. Numbered(smap, symt)'
  BY <1>1, <1>2 DEF Numbered
<1>8. InOrder(smap, todo)'
  <2>1. ASSUME NEW s \in 1 .. 3, NEW k \in EntriesIn(smap, Sections[s])
        PROVE  s \in Present /\ smap[k].dst = 0 /\ VisitOf(smap, k, s) \in todo'
    <3>1. s \in Present /\ k \in DOMAIN smap
      BY <1>1, SectionPresent DEF EntriesIn
    <3>2. smap[k].src \in SymbolIds
      BY <1>1, <3>1, MapSizes
    <3> QED
      BY <1>1, <1>2, <3>1, <3>2 DEF VisitOf
  <2>2. \A s : EntriesIn(smap, Sections[s])' = EntriesIn(smap, Sections[s])
    BY <1>1, <1>4 DEF EntriesIn, Sections
  <2>3. \A k, s : VisitOf(smap, k, s)' = VisitOf(smap, k, s)
    BY <1>1 DEF VisitOf
  <2> QED
    BY <1>1, <1>5, <1>6, <2>1, <2>2, <2>3 DEF InOrder
<1>9. /\ \A section : FilledIn(symt, section)' = 0
      /\ TotalOf(symt)' = 0
  <2>1. DOMAIN symt' = {}
    BY <1>1, <1>2
  <2>2. \A section : {d \in DOMAIN symt' : symt'[d].shndx = section} = {}
    BY <2>1
  <2> QED
    BY <2>1, <2>2, SumEmpty DEF FilledIn, TotalOf
<1>10. Counted(smap, symt)'
  <2>1. \A section : MergedIn(smap, section)' = {}
    BY <1>1, <1>2 DEF MergedIn, EntriesIn
  <2>2. \A section : SumFunctionOnSet(Sizes(smap), MergedIn(smap, section))' = 0
    BY <2>1, SumEmpty
  <2> QED
    BY <1>9, <2>2 DEF Counted
<1>11. Copied(smap, symt, lines)'
  <2>1. Start' \in Nat
    BY <1>5, PresentFinite DEF Start
  <2>2. DOMAIN lines' = {}
    BY <1>1, <1>2
  <2>3. TotalOf(symt)' = 0
    BY <1>9
  <2>4. Start' .. Start' + TotalOf(symt)' - 1 = {}
    <3>1. ASSUME NEW a \in Nat, NEW b, b = 0 PROVE a .. a + b - 1 = {}
      BY <3>1
    <3> QED
      BY <2>1, <2>3, <3>1
  <2> QED
    BY <1>1, <1>2, <2>2, <2>4 DEF Copied
<1> QED
  BY <1>1, <1>3, <1>7, <1>8, <1>10, <1>11 DEF MergeInv

\* The symbol that is merged, and its entry, which had none before.
LEMMA MergedEntry ==
  ASSUME ReadInv, MergeInv, NEW s \in DOMAIN Sections, NEW id \in SymbolIds, MergeSymbol(s, id)
  PROVE  /\ s \in 1 .. 3 /\ Sym(id).shndx = Sections[s] /\ Sym(id) \in Symbols
         /\ \E k \in EntriesIn(smap, Sections[s]) :
              /\ k \in DOMAIN smap /\ smap[k].src = id /\ smap[k].dst = 0
              /\ SrcOf(smap, k) = Sym(id) /\ VisitOf(smap, k, s) = <<s, id[1], id[2]>>
              /\ \A l \in DOMAIN smap : smap[l].src = id <=> l = k
<1>1. /\ pc = "merge" /\ <<s, id[1], id[2]>> \in todo
      /\ Sym(id).shndx = Sections[s] /\ Chosen(id)
  BY DEF MergeSymbol, Merging, Visits, Merges
<1>2. Sym(id) \in Symbols
  BY SymbolTypes DEF ReadInv, TypeOK
<1>3. s # 4
  BY <1>1, <1>2, SectionFacts DEF Symbols, Contents
<1>4. s \in 1 .. 3
  BY <1>3, SectionFacts
<1>5. PICK k \in DOMAIN smap : smap[k].src = id
  BY <1>1 DEF Chosen, Entries
<1>6. SrcOf(smap, k) = Sym(id) /\ k \in EntriesIn(smap, Sections[s])
  BY <1>1, <1>5 DEF SrcOf, EntriesIn
<1>7. VisitOf(smap, k, s) = <<s, id[1], id[2]>>
  BY <1>5 DEF VisitOf
<1>8. InOrder(smap, todo)
  BY <1>1 DEF MergeInv
<1>9. smap[k].dst # 0 <=> VisitOf(smap, k, s) \notin todo
  BY <1>4, <1>6, <1>8 DEF InOrder
<1>10. \A l \in DOMAIN smap : smap[l].src = id <=> l = k
  BY <1>1, <1>5 DEF ReadInv, Reading, Resolution, Refusals
<1> QED
  BY <1>1, <1>2, <1>4, <1>5, <1>6, <1>7, <1>9, <1>10

\* The map w is m with the number n in the entry k.
Marks(m, w, k, n) ==
  /\ DOMAIN w = DOMAIN m
  /\ \A l \in DOMAIN m : w[l].src = m[l].src /\ w[l].dst = IF l = k THEN n ELSE m[l].dst

\* A new entry at the end of the table, and its number in the map.
LEMMA NumberedStep ==
  ASSUME NEW m, NEW st \in Seq(Symbols), Numbered(m, st),
         NEW e \in Symbols, NEW wt, wt = Append(st, e), NEW k \in DOMAIN m,
         IsCopy(e, SrcOf(m, k)), SrcOf(m, k).shndx \in Contents, m[k].dst = 0,
         NEW w, Marks(m, w, k, Len(st) + 1)
  PROVE  Numbered(w, wt)
<1> DEFINE n == Len(st) + 1
<1>1. /\ n \in Nat /\ n # 0 /\ n \notin 0 .. Len(st) /\ n \in 0 .. Len(wt) /\ Len(wt) = n
      /\ wt[n] = e /\ \A d \in 1 .. Len(st) : wt[d] = st[d]
      /\ \A d \in 1 .. Len(wt) : d \in 1 .. Len(st) \/ d = n
      /\ \A d \in 0 .. Len(st) : d \in 0 .. Len(wt) /\ (d # 0 => d \in 1 .. Len(st))
  OBVIOUS
<1>2. DOMAIN w = DOMAIN m /\ \A l \in DOMAIN m : SrcOf(w, l) = SrcOf(m, l)
  BY DEF SrcOf, Marks
<1>3. \A l \in DOMAIN m : w[l].dst = IF l = k THEN n ELSE m[l].dst
  BY DEF Marks
<1>4. \A l \in DOMAIN m : m[l].dst \in 0 .. Len(st)
  BY DEF Numbered
<1> HIDE DEF n
<1>5. \A l \in DOMAIN w : w[l].dst \in 0 .. Len(wt)
  BY <1>1, <1>2, <1>3, <1>4
<1>6. \A l, i \in DOMAIN w : w[l].dst = w[i].dst /\ w[l].dst # 0 => l = i
  BY <1>1, <1>2, <1>3, <1>4 DEF Numbered
<1>7. ASSUME NEW l \in DOMAIN w, w[l].dst # 0
      PROVE  /\ SrcOf(w, l).shndx \in Contents
             /\ IsCopy(wt[w[l].dst], SrcOf(w, l))
  <2>1. CASE l = k
    <3>1. w[l].dst = n /\ wt[w[l].dst] = e /\ SrcOf(w, l) = SrcOf(m, k)
      BY <1>1, <1>2, <1>3, <2>1
    <3> QED
      BY <3>1
  <2>2. CASE l # k
    <3>1. w[l].dst = m[l].dst /\ wt[w[l].dst] = st[m[l].dst] /\ SrcOf(w, l) = SrcOf(m, l)
      BY <1>1, <1>2, <1>3, <1>4, <1>7, <2>2
    <3> QED
      BY <1>2, <1>7, <3>1 DEF Numbered
  <2> QED
    BY <2>1, <2>2
<1>8. \A d \in 1 .. Len(wt) : \E l \in DOMAIN w : w[l].dst = d
  BY <1>1, <1>2, <1>3 DEF Numbered
<1> QED
  BY <1>5, <1>6, <1>7, <1>8 DEF Numbered

\* While the symbols of a section are merged, the sections before it are
\* complete and those behind it are empty.
LEMMA TotalAt ==
  ASSUME ReadInv, MergeInv, pc = "merge", NEW s \in 1 .. 3, NEW x \in todo, x[1] = s,
         \A y \in todo : s <= y[1]
  PROVE  TotalOf(symt) = Before(Sections[s]) + FilledIn(symt, Sections[s])
<1>1. TypeOK /\ InOrder(smap, todo) /\ Counted(smap, symt)
  BY DEF ReadInv, MergeInv
<1>2. ASSUME NEW t \in 1 .. 3, t < s
      PROVE  FilledIn(symt, Sections[t]) = CountOf(Sections[t])
  <2>1. \A k \in EntriesIn(smap, Sections[t]) : VisitOf(smap, k, t) \notin todo
    BY <1>2 DEF VisitOf
  <2>2. MergedIn(smap, Sections[t]) = EntriesIn(smap, Sections[t])
    BY <1>1, <2>1 DEF MergedIn, InOrder
  <2>3. Sections[t] \in Contents
    BY SectionFacts
  <2> QED
    BY <1>1, <2>2, <2>3, CountTypes DEF Counted
<1>3. ASSUME NEW t \in 1 .. 3, s < t
      PROVE  FilledIn(symt, Sections[t]) = 0
  <2>1. ASSUME NEW k \in EntriesIn(smap, Sections[t]) PROVE smap[k].dst = 0
    <3>1. t \in DOMAIN sht /\ smap[k].src \in SymbolIds
      BY <1>1, MapSizes DEF InOrder, EntriesIn
    <3>2. VisitOf(smap, k, t) \in MergeIds /\ VisitOf(smap, k, t)[1] = t
      BY <3>1 DEF MergeIds, VisitOf
    <3>3. VisitOf(smap, k, t) \in todo
      <4>1. ~(t <= x[1])
        BY <1>3
      <4> QED
        BY <1>1, <3>2, <4>1, Zenon DEF InOrder
    <3> QED
      BY <1>1, <3>3 DEF InOrder
  <2>2. MergedIn(smap, Sections[t]) = {}
    BY <2>1 DEF MergedIn
  <2>3. Sections[t] \in Contents
    BY SectionFacts
  <2> QED
    BY <1>1, <2>2, <2>3, SumEmpty DEF Counted
<1>4. TotalOf(symt) = FilledIn(symt, ".text") + FilledIn(symt, ".rodata") + FilledIn(symt, ".data")
  BY <1>1 DEF Counted
<1>5. /\ FilledIn(symt, ".text") \in Nat /\ FilledIn(symt, ".rodata") \in Nat
      /\ FilledIn(symt, ".data") \in Nat
  BY <1>1, TableCounts DEF TypeOK
<1>6. \A section : CountOf(section) \in Nat
  BY <1>1, CountTypes
<1>7. 1 \in 1 .. 3 /\ 2 \in 1 .. 3 /\ 3 \in 1 .. 3
  OBVIOUS
<1>8. CASE s = 1
  <2>1. FilledIn(symt, ".rodata") = 0 /\ FilledIn(symt, ".data") = 0
    BY <1>3, <1>7, <1>8, SectionFacts
  <2> QED
    BY <1>4, <1>5, <1>8, <2>1, SectionFacts DEF Before
<1>9. CASE s = 2
  <2>1. FilledIn(symt, ".text") = CountOf(".text") /\ FilledIn(symt, ".data") = 0
    BY <1>2, <1>3, <1>7, <1>9, SectionFacts
  <2> QED
    BY <1>4, <1>5, <1>9, <2>1, SectionFacts DEF Before
<1>10. CASE s = 3
  <2>1. /\ FilledIn(symt, ".text") = CountOf(".text")
        /\ FilledIn(symt, ".rodata") = CountOf(".rodata")
    BY <1>2, <1>7, <1>10, SectionFacts
  <2> QED
    BY <1>4, <1>5, <1>10, <2>1, SectionFacts DEF Before
<1> QED
  BY <1>8, <1>9, <1>10

\* Copies that were found stay where they are when lines are added behind them.
LEMMA StillFound ==
  ASSUME NEW src, NEW id, NEW sym, NEW ls, NEW lt, Found(src, id, sym, ls),
         \A n \in DOMAIN ls : n \in DOMAIN lt /\ lt[n] = ls[n]
  PROVE  Found(src, id, sym, lt)
BY DEF Found

LEMMA JoinRanges ==
  ASSUME NEW a \in Int, NEW t \in Nat, NEW z \in Nat, NEW b, b = a + t
  PROVE  (a .. b - 1) \cup (b .. b + z - 1) = a .. a + (t + z) - 1
         /\ \A n \in a .. b - 1 : n \notin b .. b + z - 1
<1>1. ASSUME NEW n PROVE n \in (a .. b - 1) \cup (b .. b + z - 1) <=> n \in a .. a + (t + z) - 1
  OBVIOUS
<1>2. \A n \in a .. b - 1 : n \notin b .. b + z - 1
  OBVIOUS
<1> QED
  BY <1>1, <1>2, Zenon

\* The lines new are those of the symbol id, from the next one that is written.
Copies(new, id, section, size) ==
  /\ DOMAIN new = Written .. Written + size - 1 /\ DOMAIN new \subseteq 0 .. FileLength - 1
  /\ \A n \in DOMAIN new : new[n] = <<id[1], section, Sym(id).value + n - Written>>

\* The lines lt are ls with new.
Joined(ls, new, lt) ==
  /\ DOMAIN lt = DOMAIN ls \cup DOMAIN new
  /\ \A n \in DOMAIN lt : lt[n] = IF n \in DOMAIN new THEN new[n] ELSE ls[n]

LEMMA NextLine ==
  ASSUME NEW a \in Int, NEW b \in Nat, NEW v \in Nat, NEW i \in Nat, NEW t, t = b + v
  PROVE  /\ a + b + v + i = (a + t) + i
         /\ a + t \in Int
OBVIOUS

\* The lines of the symbol that is merged follow those that are there.
LEMMA CopiedStep ==
  ASSUME TypeOK, Numbered(smap, symt), Copied(smap, symt, lines),
         Cardinality(DOMAIN sht) \in Nat,
         NEW s \in 1 .. 3, NEW id \in SymbolIds, Sym(id).shndx = Sections[s],
         TotalOf(symt) = Before(Sections[s]) + FilledIn(symt, Sections[s]),
         NEW e \in Symbols, e.size = Sym(id).size, e.shndx = Sections[s],
         e.value = FilledIn(symt, Sections[s]),
         NEW wt, wt = Append(symt, e),
         NEW new, Copies(new, id, Sections[s], e.size), NEW lt, Joined(lines, new, lt),
         NEW k \in DOMAIN smap, smap[k].src = id, NEW w, Marks(smap, w, k, Len(symt) + 1)
  PROVE  Copied(w, wt, lt)
<1> USE DEF Copies, Joined
<1>1. /\ symt \in Seq(Symbols) /\ Sym(id) \in Symbols /\ SrcOf(w, k) = Sym(id)
      /\ DOMAIN w = DOMAIN smap
      /\ \A l \in DOMAIN smap : SrcOf(w, l) = SrcOf(smap, l) /\ w[l].src = smap[l].src
      /\ \A l \in DOMAIN smap : w[l].dst = IF l = k THEN Len(symt) + 1 ELSE smap[l].dst
  BY SymbolTypes DEF TypeOK, SrcOf, Marks
<1>2. Start \in Int /\ Written = Start + TotalOf(symt) /\ TotalOf(symt) \in Nat
  <2>1. TotalOf(symt) \in Nat
    BY <1>1, TableCounts
  <2>2. Written = Start + TotalOf(symt)
    BY DEF Written, Start, TotalOf, SizesIn, SumFunction
  <2>3. Start \in Int
    BY DEF Start
  <2> QED
    BY <2>1, <2>2, <2>3
<1>3. e.size \in Nat /\ e.value \in Nat
  BY DEF Symbols
<1>4. /\ TotalOf(wt) = TotalOf(symt) + e.size
      /\ FilledIn(wt, Sections[s]) = FilledIn(symt, Sections[s]) + e.size
      /\ \A section : /\ FilledIn(symt, section) <= FilledIn(wt, section)
                      /\ FilledIn(symt, section) \in Nat /\ FilledIn(wt, section) \in Nat
  <2>1. Grown(symt, wt, e)
    BY <1>1, AppendCounts
  <2> QED
    BY <2>1 DEF Grown
<1>5. DOMAIN lines = Start .. Start + TotalOf(symt) - 1 /\ DOMAIN lines \subseteq 0 .. FileLength - 1
  BY DEF Copied
<1>6. /\ DOMAIN lt = Start .. Start + TotalOf(wt) - 1
      /\ \A n \in DOMAIN lines : n \notin DOMAIN new
  <2> DEFINE a == Start
             t == TotalOf(symt)
             b == Written
             z == e.size
  <2>1. DOMAIN lines = a .. a + t - 1 /\ DOMAIN new = b .. b + z - 1 /\ TotalOf(wt) = t + z
    BY <1>4, <1>5
  <2>2. a \in Int /\ t \in Nat /\ z \in Nat /\ b = a + t
    BY <1>2, <1>3
  <2> HIDE DEF a, t, b, z
  <2>3. /\ (a .. b - 1) \cup (b .. b + z - 1) = a .. a + (t + z) - 1
        /\ \A n \in a .. b - 1 : n \notin b .. b + z - 1
    BY <2>2, JoinRanges
  <2>4. a + t - 1 = b - 1
    BY <2>2
  <2>5. DOMAIN lines = a .. b - 1 /\ DOMAIN new = b .. b + z - 1
    BY <2>1, <2>4
  <2>6. DOMAIN lines \cup DOMAIN new = a .. a + TotalOf(wt) - 1
    BY <2>1, <2>3, <2>5
  <2>7. \A n \in DOMAIN lines : n \notin DOMAIN new
    BY <2>3, <2>5
  <2> QED
    BY <2>6, <2>7 DEF a
<1>7. \A n \in DOMAIN lines : n \in DOMAIN lt /\ n \notin DOMAIN new /\ lt[n] = lines[n]
  BY <1>6
<1>8. ASSUME NEW l \in DOMAIN w, w[l].dst # 0
      PROVE  /\ wt[w[l].dst].value + wt[w[l].dst].size <= FilledIn(wt, SrcOf(w, l).shndx)
             /\ Found(SrcOf(w, l), w[l].src, wt[w[l].dst], lt)
  <2>1. CASE l # k
    <3>1. w[l].dst = smap[l].dst /\ smap[l].dst # 0 /\ smap[l].dst \in 1 .. Len(symt)
      BY <1>1, <1>8, <2>1 DEF Numbered
    <3>2. wt[w[l].dst] = symt[smap[l].dst] /\ symt[smap[l].dst] \in Symbols
      BY <1>1, <3>1
    <3>3. /\ symt[smap[l].dst].value + symt[smap[l].dst].size <= FilledIn(symt, SrcOf(smap, l).shndx)
          /\ Found(SrcOf(smap, l), smap[l].src, symt[smap[l].dst], lines)
      BY <1>1, <3>1 DEF Copied
    <3>4. Found(SrcOf(smap, l), smap[l].src, symt[smap[l].dst], lt)
      BY <1>7, <3>3, StillFound
    <3>5. /\ symt[smap[l].dst].value \in Nat /\ symt[smap[l].dst].size \in Nat
      BY <3>2 DEF Symbols
    <3>6. /\ FilledIn(symt, SrcOf(smap, l).shndx) <= FilledIn(wt, SrcOf(smap, l).shndx)
          /\ FilledIn(symt, SrcOf(smap, l).shndx) \in Nat /\ FilledIn(wt, SrcOf(smap, l).shndx) \in Nat
      BY <1>4
    <3>7. SrcOf(w, l) = SrcOf(smap, l) /\ w[l].src = smap[l].src
      BY <1>1
    <3> QED
      BY <3>2, <3>3, <3>4, <3>5, <3>6, <3>7
  <2>2. CASE l = k
    <3>1. wt[w[l].dst] = e /\ SrcOf(w, l) = Sym(id) /\ w[l].src = id
      BY <1>1, <2>2
    <3>2. e.value + e.size <= FilledIn(wt, Sections[s])
      BY <1>3, <1>4
    <3>3. ASSUME NEW i \in Nat, i < e.size,
                 NEW n, n = Start + Before(Sections[s]) + e.value + i
          PROVE  n \in DOMAIN lt /\ lt[n] = <<id[1], Sections[s], Sym(id).value + i>>
      <4>1. Before(Sections[s]) \in Nat
        BY CountTypes, SectionFacts DEF Before
      <4>2. Written \in Int /\ n = Written + i
        <5>1. TotalOf(symt) = Before(Sections[s]) + e.value
          OBVIOUS
        <5>2. /\ Start + Before(Sections[s]) + e.value + i = (Start + TotalOf(symt)) + i
              /\ Start + TotalOf(symt) \in Int
          <6> DEFINE a == Start
                     b == Before(Sections[s])
                     v == e.value
                     t == TotalOf(symt)
          <6>1. a \in Int /\ b \in Nat /\ v \in Nat /\ i \in Nat /\ t = b + v
            BY <1>2, <1>3, <3>3, <4>1, <5>1, Zenon
          <6> HIDE DEF a, b, v, t
          <6>2. a + b + v + i = (a + t) + i /\ a + t \in Int
            BY <6>1, NextLine
          <6> QED
            BY <6>2, Zenon DEF a, b, v, t
        <5> QED
          BY <1>2, <3>3, <5>2, Zenon
      <4>3. n \in DOMAIN new
        BY <1>3, <3>3, <4>2
      <4>4. Sym(id).value + n - Written = Sym(id).value + i
        <5>1. Sym(id).value \in Nat
          BY <1>1 DEF Symbols
        <5> QED
          BY <4>2, <5>1
      <4> QED
        BY <4>3, <4>4
    <3>4. Found(Sym(id), id, e, lt)
      BY <3>3 DEF Found
    <3> QED
      BY <3>1, <3>2, <3>4
  <2> QED
    BY <2>1, <2>2
<1>9. DOMAIN lt \subseteq 0 .. FileLength - 1
  BY <1>5
<1> QED
  BY <1>6, <1>8, <1>9 DEF Copied

LEMMA MergedTable ==
  ASSUME ReadInv, NEW s \in DOMAIN Sections, NEW id \in SymbolIds, MergeSymbol(s, id),
         pc' # "toolong"
  PROVE  \E e \in Symbols :
           /\ symt' = Append(symt, e) /\ e.size = Sym(id).size /\ e.shndx = Sym(id).shndx
           /\ e.value = FilledIn(symt, Sections[s])
           /\ IsCopy(e, Sym(id))
<1> DEFINE e == [Sym(id) EXCEPT !.value = Filled(Sections[s])]
<1>1. e \in Symbols /\ symt' = Append(symt, e)
  BY MergeSteps
<1>2. Sym(id) \in Symbols
  BY SymbolTypes DEF ReadInv, TypeOK
<1>3. /\ e.size = Sym(id).size /\ e.shndx = Sym(id).shndx /\ e.value = Filled(Sections[s])
      /\ IsCopy(e, Sym(id))
  BY <1>2 DEF Symbols, IsCopy
<1>4. Filled(Sections[s]) = FilledIn(symt, Sections[s])
  BY DEF Filled, FilledIn, SizesIn
<1> HIDE DEF e
<1> QED
  BY <1>1, <1>3, <1>4

LEMMA PrecedesFirst ==
  ASSUME NEW x, DOMAIN x = 1 .. 3, NEW y, x[1] \in Int, y[1] \in Int, Precedes(x, y)
  PROVE  x[1] <= y[1]
<1>1. PICK n \in DOMAIN x : x[n] < y[n] /\ \A i \in 1 .. n - 1 : x[i] = y[i]
  BY DEF Precedes
<1>2. n = 1 \/ 1 \in 1 .. n - 1
  BY <1>1
<1> QED
  BY <1>1, <1>2

LEMMA VisitTypes ==
  ASSUME MergeInv, pc = "merge"
  PROVE  /\ DOMAIN sht = Present /\ DOMAIN sht \subseteq 1 .. 4 /\ Cardinality(DOMAIN sht) \in Nat
         /\ \A x \in MergeIds : DOMAIN x = 1 .. 3 /\ x[1] \in 1 .. 4 /\ x[1] \in DOMAIN sht
         /\ todo \subseteq MergeIds
<1>1. DOMAIN sht = Present
  BY DEF MergeInv, Headers
<1>2. DOMAIN sht \subseteq 1 .. 4 /\ Cardinality(DOMAIN sht) \in Nat
  BY <1>1, PresentFinite
<1>3. ASSUME NEW x \in MergeIds
      PROVE  DOMAIN x = 1 .. 3 /\ x[1] \in 1 .. 4 /\ x[1] \in DOMAIN sht
  <2>1. PICK s \in DOMAIN sht, id \in SymbolIds : x = <<s, id[1], id[2]>>
    BY DEF MergeIds
  <2> QED
    BY <1>2, <2>1
<1>4. todo \subseteq MergeIds
  BY DEF MergeInv, InOrder
<1> QED
  BY <1>1, <1>2, <1>3, <1>4

\* The order is kept when the first tuple is taken out.
LEMMA OrderKept ==
  ASSUME MergeInv, pc = "merge", NEW x, Visits(x), NEW td, td = todo \ {x}
  PROVE  td \subseteq MergeIds /\ \A a \in MergeIds \ td : \A b \in td : a[1] <= b[1]
<1>1. x \in todo /\ x \in MergeIds /\ \A y \in td : Precedes(x, y)
  BY VisitTypes DEF Visits
<1>2. \A a \in MergeIds \ td : a \in MergeIds \ todo \/ a = x
  OBVIOUS
<1>3. \A a \in MergeIds \ todo : \A b \in td : a[1] <= b[1]
  BY DEF MergeInv, InOrder
<1>4. ASSUME NEW b \in td PROVE x[1] <= b[1]
  <2>1. Precedes(x, b) /\ b \in MergeIds
    BY <1>1, VisitTypes
  <2>2. DOMAIN x = 1 .. 3 /\ x[1] \in Int /\ b[1] \in Int
    BY <1>1, <2>1, VisitTypes
  <2> QED
    BY <2>1, <2>2, PrecedesFirst
<1>5. td \subseteq MergeIds
  BY VisitTypes
<1> QED
  BY <1>2, <1>3, <1>4, <1>5

LEMMA MergeSymbolMerges ==
  ASSUME ReadInv, MergeInv, NEW s \in DOMAIN Sections, NEW id \in SymbolIds, MergeSymbol(s, id)
  PROVE  MergeInv'
<1>1. pc = "merge" /\ Visits(<<s, id[1], id[2]>>) /\ Sym(id).shndx = Sections[s]
  BY DEF MergeSymbol, Merging, Merges
<1>2. CASE pc' = "toolong"
  BY <1>2 DEF MergeInv
<1>3. CASE pc' # "toolong"
  <2> DEFINE new == CopyOf(Sections[s], id)
             x == <<s, id[1], id[2]>>
  <2>1. /\ pc' = "merge" /\ todo' = todo \ {x} /\ srcs' = srcs /\ sht' = sht /\ counts' = counts
        /\ DOMAIN new \subseteq 0 .. FileLength - 1
        /\ lines' = [n \in DOMAIN lines \cup DOMAIN new |->
                       IF n \in DOMAIN new THEN new[n] ELSE lines[n]]
    BY <1>1, <1>3, Zenon DEF MergeSymbol, Stop
  <2>2. /\ smap' \in Seq(Pairs) /\ DOMAIN smap' = DOMAIN smap
        /\ \A k \in DOMAIN smap :
             /\ smap'[k].src = smap[k].src
             /\ smap'[k].dst = IF smap[k].src = id THEN Len(symt) + 1 ELSE smap[k].dst
    BY <1>3, MergeSteps
  <2>3. PICK e \in Symbols :
          /\ symt' = Append(symt, e) /\ e.size = Sym(id).size /\ e.shndx = Sym(id).shndx
          /\ e.value = FilledIn(symt, Sections[s])
          /\ IsCopy(e, Sym(id))
    BY <1>3, MergedTable
  <2>4. s \in 1 .. 3 /\ Sections[s] \in Contents
    BY MergedEntry, SectionFacts
  <2>5. PICK k \in EntriesIn(smap, Sections[s]) :
          /\ k \in DOMAIN smap /\ smap[k].src = id /\ smap[k].dst = 0
          /\ SrcOf(smap, k) = Sym(id) /\ VisitOf(smap, k, s) = <<s, id[1], id[2]>>
          /\ \A l \in DOMAIN smap : smap[l].src = id <=> l = k
    BY MergedEntry
  <2>6. Marks(smap, smap', k, Len(symt) + 1)
    BY <2>2, <2>5 DEF Marks
  <2>7. TypeOK /\ symt \in Seq(Symbols) /\ Len(symt) \in Nat
    BY DEF ReadInv, TypeOK
  <2>8. Headers' = Headers /\ LineCount' = LineCount /\ Len(smap') = Len(smap)
    BY <2>1, <2>2, <2>7, SameHeaders DEF TypeOK
  <2>9. Numbered(smap', symt')
    <3>1. Numbered(smap, symt)
      BY <1>1 DEF MergeInv
    <3>2. IsCopy(e, SrcOf(smap, k)) /\ SrcOf(smap, k).shndx \in Contents
      BY <1>1, <2>3, <2>4, <2>5
    <3> HIDE DEF new, x
    <3> QED
      BY <2>3, <2>5, <2>6, <2>7, <3>1, <3>2, NumberedStep
  <2>10. InOrder(smap', todo')
    <3>1. InOrder(smap, todo)
      BY <1>1 DEF MergeInv
    <3>2. todo' \subseteq MergeIds /\ \A a \in MergeIds \ todo' : \A y \in todo' : a[1] <= y[1]
      BY <1>1, <2>1, OrderKept
    <3>3. ASSUME NEW t \in 1 .. 3, NEW l \in EntriesIn(smap', Sections[t])
          PROVE  t \in DOMAIN sht /\ (smap'[l].dst # 0 <=> VisitOf(smap', l, t) \notin todo')
      <4>1. /\ l \in DOMAIN smap /\ l \in EntriesIn(smap, Sections[t])
            /\ VisitOf(smap', l, t) = VisitOf(smap, l, t)
        BY <2>6 DEF Marks, EntriesIn, SrcOf, VisitOf
      <4>2. t \in DOMAIN sht /\ (smap[l].dst # 0 <=> VisitOf(smap, l, t) \notin todo)
        BY <3>1, <4>1 DEF InOrder
      <4>3. CASE l = k
        <5>1. Sections[t] = Sections[s]
          BY <2>5, <4>1, <4>3 DEF EntriesIn
        <5>2. t = s
          BY <5>1, <2>4, SectionFacts
        <5>3. smap'[l].dst # 0
          BY <2>5, <2>6, <2>7, <4>3 DEF Marks
        <5> QED
          BY <2>1, <2>5, <4>1, <4>2, <4>3, <5>2, <5>3
      <4>4. CASE l # k
        <5>1. smap[l].src # id /\ smap[l].src \in SymbolIds
          BY <2>5, <2>7, <4>1, <4>4, MapSizes
        <5>2. smap[l].src = <<smap[l].src[1], smap[l].src[2]>> /\ id = <<id[1], id[2]>>
          BY <2>7, <5>1, SymbolTypes DEF TypeOK
        <5>3. VisitOf(smap, l, t) # x
          BY <5>1, <5>2 DEF VisitOf
        <5>4. smap'[l].dst = smap[l].dst
          BY <2>6, <4>1, <4>4 DEF Marks
        <5> HIDE DEF x
        <5> QED
          BY <2>1, <4>1, <4>2, <5>3, <5>4
      <4> QED
        BY <4>3, <4>4
    <3> HIDE DEF new, x
    <3> QED
      BY <3>2, <3>3 DEF InOrder
  <2>11. Counted(smap', symt')
    <3>1. Counted(smap, symt)
      BY <1>1 DEF MergeInv
    <3>2. Grown(symt, symt', e)
      BY <2>3, <2>7, AppendCounts
    <3>3. \A section :
            SumFunctionOnSet(Sizes(smap'), MergedIn(smap', section))
              = SumFunctionOnSet(Sizes(smap), MergedIn(smap, section))
                  + IF SrcOf(smap, k).shndx = section THEN SrcOf(smap, k).size ELSE 0
      <4>1. DOMAIN smap' = DOMAIN smap
        BY <2>2
      <4>2. \A l \in DOMAIN smap : /\ smap'[l].src = smap[l].src
                                   /\ smap'[l].dst # 0 <=> l = k \/ smap[l].dst # 0
        BY <2>6, <2>7 DEF Marks
      <4>3. k \in DOMAIN smap /\ smap[k].dst = 0
        BY <2>5
      <4> HIDE DEF new, x
      <4> QED
        BY <2>7, <4>1, <4>2, <4>3, MarkCounts
    <3>4. SrcOf(smap, k).shndx = Sections[s] /\ SrcOf(smap, k).size = e.size
          /\ e.shndx = Sections[s] /\ e.size \in Nat
      BY <1>1, <2>3, <2>5 DEF Symbols
    <3>5. \A section \in Contents :
            FilledIn(symt', section) = SumFunctionOnSet(Sizes(smap'), MergedIn(smap', section))
      <4> SUFFICES ASSUME NEW section \in Contents
                   PROVE  FilledIn(symt', section)
                            = SumFunctionOnSet(Sizes(smap'), MergedIn(smap', section))
        OBVIOUS
      <4>1. /\ FilledIn(symt, section) = SumFunctionOnSet(Sizes(smap), MergedIn(smap, section))
            /\ FilledIn(symt, section) \in Nat
        BY <3>1, <3>2 DEF Counted, Grown
      <4>2. FilledIn(symt', section)
              = FilledIn(symt, section) + IF Sections[s] = section THEN e.size ELSE 0
        BY <3>2, <3>4, <4>1 DEF Grown
      <4> HIDE DEF new, x
      <4> QED
        BY <3>3, <3>4, <4>1, <4>2
    <3>6. TotalOf(symt') = FilledIn(symt', ".text") + FilledIn(symt', ".rodata")
                             + FilledIn(symt', ".data")
      <4>1. /\ TotalOf(symt) = FilledIn(symt, ".text") + FilledIn(symt, ".rodata")
                                 + FilledIn(symt, ".data")
            /\ TotalOf(symt') = TotalOf(symt) + e.size
        BY <3>1, <3>2 DEF Counted, Grown
      <4>2. \A section : /\ FilledIn(symt, section) \in Nat
                         /\ FilledIn(symt', section)
                              = FilledIn(symt, section) + IF Sections[s] = section THEN e.size ELSE 0
        BY <3>2, <3>4 DEF Grown
      <4>3. s = 1 \/ s = 2 \/ s = 3
        BY <2>4
      <4> HIDE DEF new, x
      <4> QED
        BY <3>4, <4>1, <4>2, <4>3, SectionFacts
    <3> QED
      BY <3>5, <3>6 DEF Counted
  <2>12. Copied(smap', symt', lines')
    <3>1. Numbered(smap, symt) /\ Copied(smap, symt, lines) /\ Cardinality(DOMAIN sht) \in Nat
      BY <1>1, VisitTypes DEF MergeInv
    <3>2. TotalOf(symt) = Before(Sections[s]) + FilledIn(symt, Sections[s])
      <4>1. x \in todo /\ x[1] = s
        BY <1>1 DEF Visits
      <4>2. ASSUME NEW y \in todo PROVE s <= y[1]
        <5>1. y \in MergeIds /\ x \in MergeIds
          BY <1>1, <4>1, VisitTypes
        <5>2. DOMAIN x = 1 .. 3 /\ x[1] \in Int /\ y[1] \in Int
          BY <1>1, <5>1, VisitTypes
        <5>3. y = x \/ Precedes(x, y)
          BY <1>1 DEF Visits
        <5> HIDE DEF x
        <5> QED
          BY <4>1, <5>2, <5>3, PrecedesFirst
      <4> HIDE DEF x
      <4> QED
        BY <1>1, <2>4, <4>1, <4>2, TotalAt
    <3>3. Copies(new, id, Sections[s], e.size)
      BY <2>1, <2>3 DEF Copies, CopyOf
    <3>4. Joined(lines, new, lines')
      BY <2>1 DEF Joined
    <3>5. e.size = Sym(id).size /\ e.shndx = Sections[s] /\ e.value = FilledIn(symt, Sections[s])
      BY <1>1, <2>3
    <3>6. k \in DOMAIN smap /\ smap[k].src = id /\ symt' = Append(symt, e)
      BY <2>3, <2>5
    <3> HIDE DEF new, x
    <3> QED
      BY <1>1, <2>4, <2>6, <2>7, <3>1, <3>2, <3>3, <3>4, <3>5, <3>6, CopiedStep
  <2>13. /\ Numbered(smap, symt)' /\ InOrder(smap, todo)' /\ Counted(smap, symt)'
         /\ Copied(smap, symt, lines)'
    BY <2>1, <2>2, <2>9, <2>10, <2>11, <2>12, NextLayout
  <2>14. counts' = <<LineCount', Len(smap')>> /\ sht' = Headers'
    BY <1>1, <2>1, <2>8 DEF MergeInv
  <2> QED
    BY <2>1, <2>13, <2>14 DEF MergeInv
<1> QED
  BY <1>2, <1>3

\* A step that leaves the map, the table and the lines alone.
LEMMA LayoutKept ==
  ASSUME ReadInv, MergeInv, pc \in {"merge", "relocate", "done"},
         UNCHANGED <<srcs, smap, counts, sht, symt, lines>>,
         pc' = "merge" => InOrder(smap, todo'),
         pc' \in {"merge", "relocate", "done"},
         pc' # "merge" => \A k \in DOMAIN smap : smap[k].dst # 0
  PROVE  MergeInv'
<1>1. smap \in Seq(Pairs)
  BY DEF ReadInv, TypeOK
<1>2. Headers' = Headers /\ LineCount' = LineCount /\ Len(smap') = Len(smap)
  BY <1>1, SameHeaders
<1>3. /\ counts' = <<LineCount', Len(smap')>> /\ sht' = Headers'
      /\ Numbered(smap, symt) /\ Counted(smap, symt) /\ Copied(smap, symt, lines)
  BY <1>2 DEF MergeInv
<1>4. /\ Numbered(smap, symt)' /\ Counted(smap, symt)' /\ Copied(smap, symt, lines)'
      /\ pc' = "merge" => InOrder(smap, todo)'
  <2>1. smap' = smap /\ symt' = symt /\ lines' = lines
    OBVIOUS
  <2>2. /\ Numbered(smap', symt') /\ Counted(smap', symt') /\ Copied(smap', symt', lines')
        /\ pc' = "merge" => InOrder(smap', todo')
    BY <1>3, <2>1
  <2> QED
    BY <2>2, NextLayout
<1> QED
  BY <1>3, <1>4 DEF MergeInv

\* A symbol that is passed over in a section has no entry, or is in another one.
LEMMA PassUnmergedMerges ==
  ASSUME ReadInv, MergeInv, NEW s \in DOMAIN Sections, NEW id \in SymbolIds, PassUnmerged(s, id)
  PROVE  MergeInv'
<1> DEFINE x == <<s, id[1], id[2]>>
<1>1. /\ pc = "merge" /\ pc' = "merge" /\ Visits(x) /\ ~Merges(Sections[s], id)
      /\ todo' = todo \ {x} /\ UNCHANGED <<srcs, smap, counts, sht, symt, lines>>
  BY DEF PassUnmerged, Merging
<1>2. TypeOK /\ InOrder(smap, todo)
  BY <1>1 DEF ReadInv, MergeInv
<1>3. todo' \subseteq MergeIds /\ \A a \in MergeIds \ todo' : \A y \in todo' : a[1] <= y[1]
  BY <1>1, OrderKept
<1>4. ASSUME NEW t \in 1 .. 3, NEW l \in EntriesIn(smap, Sections[t])
      PROVE  VisitOf(smap, l, t) # x
  <2>1. l \in DOMAIN smap /\ smap[l].src \in SymbolIds /\ Sym(smap[l].src).shndx = Sections[t]
    BY <1>2, MapSizes DEF EntriesIn, SrcOf
  <2>2. SUFFICES ASSUME VisitOf(smap, l, t) = x PROVE FALSE
    OBVIOUS
  <2>3. smap[l].src = <<smap[l].src[1], smap[l].src[2]>> /\ id = <<id[1], id[2]>>
    BY <1>2, <2>1, SymbolTypes DEF TypeOK
  <2>4. t = s /\ smap[l].src = id
    BY <2>2, <2>3 DEF VisitOf
  <2>5. Sections[s] \in Contents
    BY <2>4, SectionFacts
  <2>6. Sections[s] \in srcs[id[1]].sections
    BY <1>2, <2>1, <2>4, <2>5, CompiledSymbols
  <2> QED
    BY <1>1, <2>1, <2>4, <2>6 DEF Merges, Chosen, Entries
<1> HIDE DEF x
<1>5. InOrder(smap, todo')
  BY <1>1, <1>2, <1>3, <1>4 DEF InOrder
<1> QED
  BY <1>1, <1>5, LayoutKept

\* When all has been visited, every entry of a merged section has been merged.
LEMMA AllMerged ==
  ASSUME ReadInv, MergeInv, pc = "merge", todo = {}
  PROVE  /\ \A section \in Contents : /\ MergedIn(smap, section) = EntriesIn(smap, section)
                                      /\ FilledIn(symt, section) = CountOf(section)
         /\ TotalOf(symt) = CountOf(".text") + CountOf(".rodata") + CountOf(".data")
<1>1. TypeOK /\ InOrder(smap, todo) /\ Counted(smap, symt)
  BY DEF ReadInv, MergeInv
<1>2. ASSUME NEW section \in Contents
      PROVE  /\ MergedIn(smap, section) = EntriesIn(smap, section)
             /\ FilledIn(symt, section) = CountOf(section)
  <2>1. PICK s \in 1 .. 3 : Sections[s] = section
    BY SectionFacts
  <2>2. MergedIn(smap, section) = EntriesIn(smap, section)
    BY <1>1, <2>1 DEF InOrder, MergedIn
  <2> QED
    BY <1>1, <2>2, CountTypes DEF Counted
<1> QED
  BY <1>1, <1>2 DEF Counted, Contents

LEMMA IntervalSize ==
  ASSUME NEW n \in Nat
  PROVE  IsFiniteSet(1 .. n) /\ Cardinality(1 .. n) = n
<1> DEFINE one == 1
<1>1. one \in Int /\ n \in Int
  OBVIOUS
<1> HIDE DEF one
<1>2. /\ IsFiniteSet(one .. n)
      /\ Cardinality(one .. n) = IF one > n THEN 0 ELSE n - one + 1
  BY <1>1, FS_Interval
<1> QED
  BY <1>2 DEF one

\* The entries of the map that number a table are as many as it has at least.
LEMMA TableWithin ==
  ASSUME NEW m, NEW D, IsFiniteSet(D), NEW len \in Nat,
         \A k \in D : m[k].dst \in 0 .. len,
         \A d \in 1 .. len : \E k \in D : m[k].dst = d
  PROVE  len <= Cardinality(D)
<1> DEFINE K == {k \in D : m[k].dst # 0}
           f == [k \in K |-> m[k].dst]
<1>1. IsFiniteSet(1 .. len) /\ Cardinality(1 .. len) = len
  BY IntervalSize
<1>2. IsFiniteSet(K) /\ Cardinality(K) <= Cardinality(D)
  <2>1. K \in SUBSET D
    OBVIOUS
  <2> HIDE DEF K
  <2> QED
    BY <2>1, FS_Subset
<1>3. f \in Surjection(K, 1 .. len)
  <2>1. \A k \in K : m[k].dst \in 1 .. len
    OBVIOUS
  <2>2. f \in [K -> 1 .. len]
    <3> HIDE DEF K
    <3> QED
      BY <2>1
  <2>3. ASSUME NEW d \in 1 .. len PROVE \E k \in K : f[k] = d
    <3>1. PICK k \in D : m[k].dst = d
      OBVIOUS
    <3>2. k \in K
      BY <3>1
    <3> QED
      BY <3>1, <3>2
  <2> HIDE DEF f, K
  <2> QED
    BY <2>2, <2>3 DEF Surjection
<1> HIDE DEF K, f
<1>4. Cardinality(1 .. len) <= Cardinality(K)
  BY <1>2, <1>3, FS_Surjection
<1>5. Cardinality(K) \in Nat /\ Cardinality(D) \in Nat
  BY <1>2, FS_CardinalityType
<1> QED
  BY <1>1, <1>2, <1>4, <1>5

\* A table as long as the map leaves no entry of the map without a number.
LEMMA AllNumbered ==
  ASSUME NEW m, NEW n \in Nat, DOMAIN m = 1 .. n, NEW len \in Nat, n <= len,
         \A k \in DOMAIN m : m[k].dst \in 0 .. len,
         \A d \in 1 .. len : \E k \in DOMAIN m : m[k].dst = d
  PROVE  \A k \in DOMAIN m : m[k].dst # 0
<1> SUFFICES ASSUME NEW z \in 1 .. n, m[z].dst = 0 PROVE FALSE
  OBVIOUS
<1> DEFINE D == (1 .. n) \ {z}
<1>1. IsFiniteSet(1 .. n) /\ Cardinality(1 .. n) = n
  BY IntervalSize
<1>2. IsFiniteSet(D) /\ Cardinality(D) = n - 1
  <2>1. Cardinality(D) = Cardinality(1 .. n) - 1 /\ IsFiniteSet(D)
    BY <1>1, FS_RemoveElement
  <2> QED
    BY <1>1, <2>1
<1>3. \A k \in D : m[k].dst \in 0 .. len
  OBVIOUS
<1>4. \A d \in 1 .. len : \E k \in D : m[k].dst = d
  <2> SUFFICES ASSUME NEW d \in 1 .. len PROVE \E k \in D : m[k].dst = d
    OBVIOUS
  <2>1. PICK k \in 1 .. n : m[k].dst = d
    OBVIOUS
  <2> QED
    BY <2>1
<1> HIDE DEF D
<1>5. len <= Cardinality(D)
  BY <1>2, <1>3, <1>4, TableWithin
<1> QED
  BY <1>2, <1>5

\* A table shorter than the map leaves one.
LEMMA SomeUnnumbered ==
  ASSUME NEW m, NEW n \in Nat, DOMAIN m = 1 .. n, NEW len \in Nat, len < n,
         \A k \in DOMAIN m : m[k].dst \in 0 .. len,
         \A k, l \in DOMAIN m : m[k].dst = m[l].dst /\ m[k].dst # 0 => k = l
  PROVE  \E k \in DOMAIN m : m[k].dst = 0
<1> SUFFICES ASSUME \A k \in 1 .. n : m[k].dst # 0 PROVE FALSE
  OBVIOUS
<1> DEFINE f == [k \in 1 .. n |-> m[k].dst]
<1>1. /\ IsFiniteSet(1 .. n) /\ Cardinality(1 .. n) = n
      /\ IsFiniteSet(1 .. len) /\ Cardinality(1 .. len) = len
  BY IntervalSize
<1>2. f \in [1 .. n -> 1 .. len]
  OBVIOUS
<1>3. \A k, l \in 1 .. n : f[k] = f[l] => k = l
  OBVIOUS
<1> HIDE DEF f
<1>4. \E k, l \in 1 .. n : k # l /\ f[k] = f[l]
  <2>1. Cardinality(1 .. len) < Cardinality(1 .. n)
    BY <1>1
  <2> QED
    BY <1>1, <1>2, <2>1, FS_PigeonHole, SMTT(30)
<1> QED
  BY <1>3, <1>4

\* The lines written when all has been visited are those that were counted.
LEMMA WrittenIsCounted ==
  ASSUME ReadInv, MergeInv, pc = "merge", todo = {}
  PROVE  Written + Len(smap) = counts[1] /\ Written \in Nat
<1>1. TypeOK /\ counts = <<LineCount, Len(smap)>> /\ sht = Headers
  BY DEF ReadInv, MergeInv
<1>2. DOMAIN sht = Present /\ Cardinality(Present) \in Nat
  BY <1>1, PresentFinite DEF Headers
<1>3. Written = 2 + Cardinality(Present) + TotalOf(symt)
  BY <1>2 DEF Written, TotalOf, SizesIn, SumFunction
<1>4. TotalOf(symt) = CountOf(".text") + CountOf(".rodata") + CountOf(".data")
  BY AllMerged
<1>5. Len(smap) \in Nat /\ \A section : CountOf(section) \in Nat
  BY <1>1, MapSizes, CountTypes
<1>6. counts[1] = LineCount
  BY <1>1
<1> QED
  BY <1>2, <1>3, <1>4, <1>5, <1>6 DEF LineCount

LEMMA WriteSymtabMerges ==
  ASSUME ReadInv, MergeInv, WriteSymtab
  PROVE  MergeInv' /\ pc' # "miscounted"
<1>1. pc = "merge" /\ todo = {} /\ TypeOK /\ Numbered(smap, symt)
  BY DEF WriteSymtab, ReadInv, MergeInv
<1>2. pc' # "miscounted"
  BY <1>1, WrittenIsCounted DEF WriteSymtab, Stop
<1>3. CASE pc' = "relocate"
  <2>1. ~(Len(symt) < Len(smap)) /\ UNCHANGED <<srcs, smap, counts, sht, symt, lines>>
    BY <1>3, Zenon DEF WriteSymtab, Stop
  <2>2. /\ Len(smap) \in Nat /\ DOMAIN smap = 1 .. Len(smap) /\ Len(symt) \in Nat
        /\ Len(smap) <= Len(symt)
    BY <1>1, <2>1 DEF TypeOK
  <2>3. \A k \in DOMAIN smap : smap[k].dst # 0
    BY <1>1, <2>2, AllNumbered DEF Numbered
  <2> QED
    BY <1>1, <1>3, <2>1, <2>3, LayoutKept
<1>4. CASE pc' # "relocate"
  BY <1>2, <1>4, LaterSteps DEF MergeInv
<1> QED
  BY <1>2, <1>3, <1>4

LEMMA RelocateMerges ==
  ASSUME ReadInv, MergeInv, NEW r \in RelocationIds, Relocate(r) \/ PassRelocation(r)
  PROVE  MergeInv'
<1>1. /\ pc = "relocate" /\ UNCHANGED <<srcs, smap, counts, sht, symt, lines>>
      /\ pc' \in {"relocate", "unmapped", "nottext", "astray"}
  BY Zenon DEF Relocate, PassRelocation, Relocating, Stop
<1>2. CASE pc' = "relocate"
  BY <1>1, <1>2, LayoutKept DEF MergeInv
<1> QED
  BY <1>1, <1>2 DEF MergeInv

LEMMA FinishMerges ==
  ASSUME ReadInv, MergeInv, Finish
  PROVE  MergeInv'
<1>1. pc = "relocate" /\ pc' = "done" /\ UNCHANGED <<srcs, smap, counts, sht, symt, lines>>
  BY DEF Finish, Stop
<1> QED
  BY <1>1, LayoutKept DEF MergeInv

LEMMA StutterMerges ==
  ASSUME ReadInv, MergeInv, UNCHANGED vars
  PROVE  MergeInv'
<1>1. /\ pc' = pc /\ todo' = todo /\ UNCHANGED <<srcs, smap, counts, sht, symt, lines>>
  BY DEF vars
<1>2. CASE pc \in {"merge", "relocate", "done"}
  BY <1>1, <1>2, LayoutKept DEF MergeInv
<1> QED
  BY <1>1, <1>2 DEF MergeInv

\* While the files are read, nothing is merged or relocated yet.
LEMMA ReadingStays ==
  ASSUME ReadInv, Next, pc = "symbols"
  PROVE  pc' \in {"symbols", "headers"} \cup Refusals
<1>1. \/ \E id \in SymbolIds : InsertSymbol(id) \/ ResolveSymbol(id) \/ PassWeak(id)
      \/ CleanUp
  BY LaterSteps DEF Next
<1> QED
  BY <1>1, Zenon DEF InsertSymbol, ResolveSymbol, PassWeak, CleanUp, Stop, Refusals

LEMMA ReadingMerges ==
  ASSUME ReadInv, Next, pc = "symbols"
  PROVE  MergeInv'
BY ReadingStays DEF MergeInv, Refusals

LEMMA StepMerges ==
  ASSUME ReadInv, MergeInv, [Next]_vars
  PROVE  MergeInv'
<1>1. CASE UNCHANGED vars
  BY <1>1, StutterMerges
<1>2. CASE Next /\ pc = "symbols"
  BY <1>2, ReadingMerges
<1>3. CASE Next /\ pc # "symbols"
  <2>1. \/ compute_section_header
        \/ \E s \in DOMAIN Sections, id \in SymbolIds : MergeSymbol(s, id) \/ PassUnmerged(s, id)
        \/ WriteSymtab
        \/ \E r \in RelocationIds : Relocate(r) \/ PassRelocation(r)
        \/ Finish
    BY <1>3 DEF Next, InsertSymbol, ResolveSymbol, PassWeak, Processing, CleanUp
  <2> QED
    BY <2>1, HeadersMerge, MergeSymbolMerges, PassUnmergedMerges, WriteSymtabMerges,
       RelocateMerges, FinishMerges
<1> QED
  BY <1>1, <1>2, <1>3

\* What is merged is in order: the map numbers the entries of the table of dst,
\* which are copies of the symbols chosen, each with its lines where the sections
\* before it and its value say (merge_section).
THEOREM MergeInvHolds == Spec => [](ReadInv /\ MergeInv)
<1>1. Init => MergeInv
  BY DEF Init, MergeInv
<1>2. ReadInv /\ MergeInv /\ [Next]_vars => MergeInv'
  BY StepMerges
<1> QED
  BY <1>1, <1>2, ReadInvHolds, PTL DEF Spec

-----------------------------------------------------------------------------
(* What a link that succeeds has defined                                   *)

LEMMA MergedIsStrong ==
  ASSUME ReadInv, MergeInv, pc \in {"relocate", "done"}, NEW k \in Entries,
         Sym(smap[k].src).bind = "GLOBAL"
  PROVE  Strong(smap[k].src)
<1>1. TypeOK /\ Numbered(smap, symt) /\ smap[k].dst # 0 /\ k \in DOMAIN smap
  BY DEF ReadInv, MergeInv, Entries
<1>2. Sym(smap[k].src).shndx \in Contents /\ smap[k].src \in SymbolIds
  BY <1>1, MapSizes DEF Numbered, SrcOf
<1>3. Precedence(Sym(smap[k].src)) = 2
  BY <1>1, <1>2, CompiledSymbols, PrecedenceFacts DEF Contents
<1> QED
  BY <1>3 DEF Strong

LEMMA MergeInvDefines == ASSUME ReadInv, MergeInv PROVE DoneMeansDefined
<1> SUFFICES ASSUME pc = "done", NEW id \in SymbolIds, Sym(id).bind = "GLOBAL"
             PROVE  \E k \in Entries :
                      /\ GlobalNamed({smap[k].src}, Sym(id).name) = {smap[k].src}
                      /\ {x \in GlobalNamed(SymbolIds, Sym(id).name) : Strong(x)} = {smap[k].src}
  BY DEF DoneMeansDefined
<1>1. TypeOK /\ Resolution(smap, SymbolIds)
  BY DEF ReadInv, Reading, Refusals
<1>2. PICK k \in DOMAIN smap : GlobalOf(smap, k, Sym(id).name)
  BY <1>1 DEF Resolution
<1> DEFINE a == smap[k].src
<1>3. k \in Entries /\ a \in SymbolIds /\ Sym(a).bind = "GLOBAL" /\ Sym(a).name = Sym(id).name
  BY <1>1, <1>2, MapSizes DEF Entries, GlobalOf, SrcOf
<1>4. Strong(a)
  BY <1>3, MergedIsStrong
<1>5. ASSUME NEW x \in SymbolIds, Strong(x), Sym(x).name = Sym(id).name PROVE x = a
  <2>1. PICK l \in DOMAIN smap : smap[l].src = x
    BY <1>1, <1>5 DEF Resolution
  <2>2. Sym(x).bind = "GLOBAL"
    BY <1>5 DEF Strong
  <2>3. GlobalOf(smap, l, SrcOf(smap, k).name) /\ SrcOf(smap, k).bind = "GLOBAL"
    BY <1>2, <1>5, <2>1, <2>2 DEF GlobalOf, SrcOf
  <2>4. l = k
    BY <1>1, <2>3 DEF Resolution
  <2> QED
    BY <2>1, <2>4
<1> HIDE DEF a
<1>6. GlobalNamed({a}, Sym(id).name) = {a}
  BY <1>3 DEF GlobalNamed
<1>7. {x \in GlobalNamed(SymbolIds, Sym(id).name) : Strong(x)} = {a}
  BY <1>3, <1>4, <1>5 DEF GlobalNamed
<1> QED
  BY <1>3, <1>6, <1>7 DEF a

\* A link that succeeds has exactly one strong symbol for every global name, and
\* smap_table has chosen it: a tentative or an undefined one never gets through
\* merge_section.
THEOREM DoneMeansDefinedHolds == Spec => []DoneMeansDefined
<1>1. ReadInv /\ MergeInv => DoneMeansDefined
  BY MergeInvDefines
<1> QED
  BY <1>1, MergeInvHolds, PTL

-----------------------------------------------------------------------------
(* The section headers                                                     *)

\* The sizes of the headers, those of absent sections included: they are 0.
SizeAt(s) == SizeOf(Sections[s])

LEMMA HeaderSizes ==
  ASSUME TypeOK
  PROVE  /\ SizeAt(1) = CountOf(".text") /\ SizeAt(2) = CountOf(".rodata") * DataSize
         /\ SizeAt(3) = CountOf(".data") /\ SizeAt(4) = Len(smap)
         /\ \A s \in 1 .. 4 : SizeAt(s) \in Nat /\ (s \notin Present => SizeAt(s) = 0)
         /\ CountOf(".rodata") * DataSize >= CountOf(".rodata")
<1>1. DataSize \in Nat /\ DataSize >= 1
  BY LinkAssumption
<1>2. Len(smap) \in Nat /\ \A section : CountOf(section) \in Nat
  BY MapSizes, CountTypes
<1>3. /\ SizeAt(1) = CountOf(".text") /\ SizeAt(2) = CountOf(".rodata") * DataSize
      /\ SizeAt(3) = CountOf(".data") /\ SizeAt(4) = Len(smap)
  BY SectionFacts DEF SizeAt, SizeOf
<1>4. ASSUME NEW a \in Nat
      PROVE  a * DataSize \in Nat /\ a * DataSize >= a /\ (a = 0 => a * DataSize = 0)
  BY <1>1
<1>5. CountOf(".rodata") * DataSize \in Nat /\ CountOf(".rodata") * DataSize >= CountOf(".rodata")
      /\ (CountOf(".rodata") = 0 => CountOf(".rodata") * DataSize = 0)
  BY <1>2, <1>4
<1>6. \A s \in 1 .. 4 : s = 1 \/ s = 2 \/ s = 3 \/ s = 4
  OBVIOUS
<1>7. \A s \in 1 .. 4 : SizeAt(s) \in Nat
  BY <1>2, <1>3, <1>5, <1>6
<1>8. \A s \in 1 .. 4 : s \notin Present => s # 4 /\ CountOf(Sections[s]) = 0
  BY SectionFacts DEF Present
<1>9. \A s \in 1 .. 4 : s \notin Present => SizeAt(s) = 0
  BY <1>3, <1>5, <1>6, <1>8, SectionFacts
<1> QED
  BY <1>3, <1>5, <1>7, <1>9

\* The sum of the sizes of the sections present up to the n-th.
SizesTo(n) == SumFunctionOnSet([t \in Present |-> SizeAt(t)], {t \in Present : t < n + 1})

LEMMA SizesToNext ==
  ASSUME TypeOK, NEW n \in 0 .. 3
  PROVE  SizesTo(n + 1) = SizesTo(n) + SizeAt(n + 1) /\ SizesTo(n) \in Nat
<1> DEFINE f == [t \in Present |-> SizeAt(t)]
           S == {t \in Present : t < n + 1}
           T == {t \in Present : t < (n + 1) + 1}
           m == n + 1
<1>1. Present \subseteq 1 .. 4 /\ IsFiniteSet(Present) /\ m \in 1 .. 4
  BY PresentFinite
<1>2. IsFiniteSet(S)
  BY <1>1, FS_Subset
<1>3. \A t \in Present : f[t] \in Nat /\ f[t] = SizeAt(t)
  BY <1>1, HeaderSizes
<1>4. SizesTo(n) = SumFunctionOnSet(f, S) /\ SizesTo(n + 1) = SumFunctionOnSet(f, T)
  BY DEF SizesTo
<1>5. S \subseteq Present
  OBVIOUS
<1>6. CASE m \in Present
  <2>1. T = S \cup {m} /\ m \notin S
    <3>1. \A t \in 1 .. 4 : t < (n + 1) + 1 <=> t < n + 1 \/ t = n + 1
      OBVIOUS
    <3>2. \A t : t \in T <=> t \in S \cup {m}
      BY <1>1, <1>6, <3>1
    <3>3. m \notin S
      OBVIOUS
    <3> HIDE DEF f, S, T, m
    <3> QED
      BY <3>2, <3>3
  <2> HIDE DEF f, S, T, m
  <2>2. SumFunctionOnSet(f, S \cup {m}) = SumFunctionOnSet(f, S) + f[m]
    BY <1>2, <1>3, <1>5, <1>6, <2>1, SumAdd
  <2>3. SumFunctionOnSet(f, S) \in Nat
    BY <1>2, <1>3, <1>5, SumNat
  <2> QED
    BY <1>3, <1>4, <1>6, <2>1, <2>2, <2>3 DEF m
<1>7. CASE m \notin Present
  <2>1. T = S
    <3>1. \A t \in 1 .. 4 : t < (n + 1) + 1 <=> t < n + 1 \/ t = n + 1
      OBVIOUS
    <3>2. \A t : t \in T <=> t \in S
      BY <1>1, <1>7, <3>1
    <3> HIDE DEF f, S, T, m
    <3> QED
      BY <3>2
  <2>2. SizeAt(m) = 0
    BY <1>1, <1>7, HeaderSizes
  <2> HIDE DEF f, S, T, m
  <2>3. SumFunctionOnSet(f, S) \in Nat
    BY <1>2, <1>3, <1>5, SumNat
  <2> QED
    BY <1>4, <2>1, <2>2, <2>3 DEF m
<1> QED
  BY <1>6, <1>7

\* Where a section begins, and how long the file is.
LEMMA Offsets ==
  ASSUME TypeOK
  PROVE  /\ SizesTo(0) = 0 /\ SizesTo(1) = CountOf(".text")
         /\ SizesTo(2) = CountOf(".text") + CountOf(".rodata") * DataSize
         /\ SizesTo(3) = CountOf(".text") + CountOf(".rodata") * DataSize + CountOf(".data")
         /\ SizesTo(4) = CountOf(".text") + CountOf(".rodata") * DataSize + CountOf(".data")
                           + Len(smap)
<1>1. SizesTo(0) = 0
  <2>1. \A t \in 1 .. 4 : ~(t < 0 + 1)
    OBVIOUS
  <2>2. {t \in Present : t < 0 + 1} = {}
    BY <2>1, PresentFinite, Zenon
  <2> QED
    BY <2>2, SumEmpty DEF SizesTo
<1>2. /\ 0 \in 0 .. 3 /\ 1 \in 0 .. 3 /\ 2 \in 0 .. 3 /\ 3 \in 0 .. 3
      /\ 0 + 1 = 1 /\ 1 + 1 = 2 /\ 2 + 1 = 3 /\ 3 + 1 = 4
  OBVIOUS
<1>3. SizesTo(1) = SizesTo(0) + SizeAt(1) /\ SizesTo(2) = SizesTo(1) + SizeAt(2)
  BY <1>2, SizesToNext
<1>4. SizesTo(3) = SizesTo(2) + SizeAt(3) /\ SizesTo(4) = SizesTo(3) + SizeAt(4)
  BY <1>2, SizesToNext
<1>5. SizeAt(1) \in Nat /\ SizeAt(2) \in Nat /\ SizeAt(3) \in Nat /\ SizeAt(4) \in Nat
  BY HeaderSizes
<1>6. SizesTo(1) = SizeAt(1) /\ SizesTo(2) = SizeAt(1) + SizeAt(2)
      /\ SizesTo(3) = SizeAt(1) + SizeAt(2) + SizeAt(3)
      /\ SizesTo(4) = SizeAt(1) + SizeAt(2) + SizeAt(3) + SizeAt(4)
  BY <1>1, <1>3, <1>4, <1>5
<1> QED
  BY <1>1, <1>6, HeaderSizes

LEMMA HeaderAt ==
  ASSUME TypeOK, sht = Headers, NEW s \in Present
  PROVE  /\ HeaderOf(Sections[s]) = sht[s]
         /\ sht[s].offset = Start + SizesTo(s - 1) /\ sht[s].size = SizeAt(s)
         /\ sht[s].name = Sections[s]
<1>1. s \in 1 .. 4 /\ DOMAIN sht = Present /\ Present \subseteq DOMAIN Sections
  BY PresentFinite, SectionFacts DEF Headers
<1>2. /\ sht[s].name = Sections[s] /\ sht[s].offset = OffsetOf(s) /\ sht[s].size = SizeAt(s)
      /\ \A t \in Present : sht[t].name = Sections[t]
  BY DEF Headers, SizeAt
<1>3. \A t \in DOMAIN sht : sht[t].name = Sections[s] <=> t = s
  BY <1>1, <1>2, SectionFacts
<1>4. HeaderOf(Sections[s]) = sht[s]
  BY <1>1, <1>3 DEF HeaderOf
<1>5. OffsetOf(s) = Start + SizesTo(s - 1)
  <2> DEFINE f == [t \in Present |-> SizeOf(Sections[t])]
  <2>1. (s - 1) + 1 = s
    BY <1>1
  <2>2. SizesTo(s - 1) = SumFunctionOnSet(f, {t \in Present : t < s})
    BY <2>1 DEF SizesTo, SizeAt
  <2>3. OffsetOf(s) = 2 + Cardinality(Present) + SumFunctionOnSet(f, {t \in Present : t < s})
    BY DEF OffsetOf
  <2> HIDE DEF f
  <2> QED
    BY <1>1, <2>2, <2>3 DEF Start
<1> QED
  BY <1>2, <1>4, <1>5

\* What the offset of .data has too much.
LEMMA SurplusFacts ==
  ASSUME TypeOK
  PROVE  /\ Surplus(".text") = 0 /\ Surplus(".rodata") = 0
         /\ Surplus(".data") \in Nat
         /\ CountOf(".rodata") * DataSize = CountOf(".rodata") + Surplus(".data")
<1>1. DataSize \in Nat /\ DataSize >= 1 /\ CountOf(".rodata") \in Nat
  BY LinkAssumption, CountTypes
<1>2. ASSUME NEW a \in Nat, NEW d \in Nat, d >= 1
      PROVE  a * (d - 1) \in Nat /\ a * d = a + a * (d - 1)
  BY <1>2
<1>3. Surplus(".data") = CountOf(".rodata") * (DataSize - 1)
  BY DEF Surplus
<1>4. /\ CountOf(".rodata") * (DataSize - 1) \in Nat
      /\ CountOf(".rodata") * DataSize = CountOf(".rodata") + CountOf(".rodata") * (DataSize - 1)
  BY <1>1, <1>2
<1> QED
  BY <1>3, <1>4 DEF Surplus

\* The offset in the header of a section, and that of its first line.
LEMMA SectionStarts ==
  ASSUME TypeOK, sht = Headers, NEW s \in 1 .. 3, s \in Present
  PROVE  /\ Start \in Nat /\ Before(Sections[s]) \in Nat /\ Surplus(Sections[s]) \in Nat
         /\ HeaderOf(Sections[s]).offset = Start + SizesTo(s - 1)
         /\ SizesTo(s - 1) = Before(Sections[s]) + Surplus(Sections[s])
         /\ Before(Sections[s]) + CountOf(Sections[s]) <= CopiedLines /\ CopiedLines \in Nat
<1>1. HeaderOf(Sections[s]).offset = Start + SizesTo(s - 1)
  BY HeaderAt
<1>2. Start \in Nat
  BY PresentFinite DEF Start, Headers
<1>3. \A section : CountOf(section) \in Nat
  BY CountTypes
<1>7. CopiedLines = CountOf(".text") + CountOf(".rodata") + CountOf(".data")
  BY DEF CopiedLines
<1>4. CASE s = 1
  <2>1. /\ Before(Sections[s]) = 0 /\ SizesTo(s - 1) = 0 /\ Sections[s] = ".text"
        /\ Surplus(Sections[s]) = 0
    BY <1>4, SectionFacts, SurplusFacts, Offsets DEF Before
  <2> QED
    BY <1>1, <1>2, <1>3, <1>7, <2>1
<1>5. CASE s = 2
  <2>1. /\ Before(Sections[s]) = CountOf(".text") /\ SizesTo(s - 1) = CountOf(".text")
        /\ Sections[s] = ".rodata" /\ Surplus(Sections[s]) = 0
    BY <1>5, SectionFacts, SurplusFacts, Offsets DEF Before
  <2> QED
    BY <1>1, <1>2, <1>3, <1>7, <2>1
<1>6. CASE s = 3
  <2>1. /\ Before(Sections[s]) = CountOf(".text") + CountOf(".rodata")
        /\ SizesTo(s - 1) = CountOf(".text") + CountOf(".rodata") * DataSize
        /\ Sections[s] = ".data"
    BY <1>6, SectionFacts, Offsets DEF Before
  <2>2. Surplus(Sections[s]) \in Nat
        /\ CountOf(".rodata") * DataSize = CountOf(".rodata") + Surplus(Sections[s])
    BY <2>1, SurplusFacts
  <2> QED
    BY <1>1, <1>2, <1>3, <1>7, <2>1, <2>2
<1> QED
  BY <1>4, <1>5, <1>6

\* The entry of a symbol that is merged.
LEMMA EntryFacts ==
  ASSUME ReadInv, MergeInv, pc \in {"relocate", "done"}, NEW k \in DOMAIN smap
  PROVE  LET sym == symt[smap[k].dst]
             src == SrcOf(smap, k)
         IN  /\ smap[k].dst \in DOMAIN symt /\ sym \in Symbols /\ src \in Symbols
             /\ sym = [src EXCEPT !.value = sym.value]
             /\ sym.shndx = src.shndx /\ sym.size = src.size /\ src.size # 0
             /\ sym.name = src.name /\ sym.bind = src.bind
             /\ sym.value + sym.size <= CountOf(src.shndx)
             /\ Found(src, smap[k].src, sym, lines)
             /\ \E s \in 1 .. 3 : s \in Present /\ Sections[s] = src.shndx
<1> DEFINE sym == symt[smap[k].dst]
           src == SrcOf(smap, k)
<1>1. /\ TypeOK /\ Numbered(smap, symt) /\ Counted(smap, symt) /\ Copied(smap, symt, lines)
      /\ smap[k].dst # 0
  BY DEF ReadInv, MergeInv
<1>2. /\ smap[k].dst \in 0 .. Len(symt) /\ src.shndx \in Contents /\ IsCopy(sym, src)
  BY <1>1 DEF Numbered
<1>3. smap[k].dst \in DOMAIN symt /\ sym \in Symbols
  BY <1>1, <1>2 DEF TypeOK
<1>4. src \in Symbols /\ smap[k].src \in SymbolIds /\ src = Sym(smap[k].src)
  BY <1>1, MapSizes DEF SrcOf
<1>5. PICK s \in 1 .. 3 : Sections[s] = src.shndx
  BY <1>2, SectionFacts
<1>6. s \in Present
  BY <1>1, <1>5, SectionPresent DEF EntriesIn
<1>7. src.size # 0
  BY <1>1, <1>2, <1>4, CompiledSymbols
<1>8. sym.value + sym.size <= FilledIn(symt, src.shndx) /\ Found(src, smap[k].src, sym, lines)
  BY <1>1 DEF Copied
<1>9. FilledIn(symt, src.shndx) <= CountOf(src.shndx) /\ FilledIn(symt, src.shndx) \in Nat
      /\ CountOf(src.shndx) \in Nat
  <2>1. FilledIn(symt, src.shndx) = SumFunctionOnSet(Sizes(smap), MergedIn(smap, src.shndx))
    BY <1>1, <1>2 DEF Counted
  <2>2. MergedIn(smap, src.shndx) \in SUBSET EntriesIn(smap, src.shndx)
    BY DEF MergedIn
  <2>3. FilledIn(symt, src.shndx) \in Nat
    BY <1>1, TableCounts DEF TypeOK
  <2> QED
    BY <1>1, <2>1, <2>2, <2>3, CountTypes
<1>10. sym = [src EXCEPT !.value = sym.value]
  BY <1>2 DEF IsCopy
<1> HIDE DEF src
<1>11. /\ sym.shndx = src.shndx /\ sym.size = src.size /\ sym.name = src.name
       /\ sym.bind = src.bind /\ sym.value \in Nat /\ sym.size \in Nat
  <2> DEFINE v == sym.value
  <2>1. v \in Nat /\ sym.size \in Nat
    BY <1>3 DEF Symbols
  <2>2. sym = [src EXCEPT !.value = v]
    BY <1>10
  <2> HIDE DEF v, sym
  <2>3. /\ sym.shndx = src.shndx /\ sym.size = src.size /\ sym.name = src.name
        /\ sym.bind = src.bind
    BY <1>4, <2>2 DEF Symbols
  <2> QED
    BY <2>1, <2>3 DEF v
<1>12. sym.value + sym.size <= CountOf(src.shndx)
  BY <1>8, <1>9, <1>11
<1> HIDE DEF sym
<1> QED
  BY <1>3, <1>4, <1>5, <1>6, <1>7, <1>8, <1>10, <1>11, <1>12 DEF sym, src

LEMMA MergeInvLocates == ASSUME ReadInv, MergeInv PROVE SymbolsLocate
<1> SUFFICES ASSUME pc \in {"relocate", "done"}, NEW k \in Entries
             PROVE  LET sym == symt[smap[k].dst]
                        src == Sym(smap[k].src)
                    IN  /\ sym = [src EXCEPT !.value = sym.value]
                        /\ \A l \in 0 .. sym.size - 1 :
                             LET n == HeaderOf(sym.shndx).offset - Surplus(sym.shndx)
                                        + sym.value + l
                             IN  n \in DOMAIN lines
                                   /\ lines[n] = <<smap[k].src[1], src.shndx, src.value + l>>
  BY DEF SymbolsLocate
<1> DEFINE sym == symt[smap[k].dst]
           src == Sym(smap[k].src)
<1>1. k \in DOMAIN smap /\ SrcOf(smap, k) = src /\ TypeOK /\ sht = Headers
  BY DEF Entries, SrcOf, ReadInv, MergeInv
<1>2. /\ sym \in Symbols /\ sym = [src EXCEPT !.value = sym.value] /\ sym.shndx = src.shndx
      /\ Found(src, smap[k].src, sym, lines)
      /\ \E s \in 1 .. 3 : s \in Present /\ Sections[s] = src.shndx
  BY <1>1, EntryFacts
<1>3. PICK s \in 1 .. 3 : s \in Present /\ Sections[s] = src.shndx
  BY <1>2
<1> HIDE DEF sym, src
<1>4. ASSUME NEW l \in 0 .. sym.size - 1
      PROVE  LET n == HeaderOf(sym.shndx).offset - Surplus(sym.shndx) + sym.value + l IN
             n \in DOMAIN lines /\ lines[n] = <<smap[k].src[1], src.shndx, src.value + l>>
  <2>1. /\ HeaderOf(sym.shndx).offset = Start + (Before(src.shndx) + Surplus(sym.shndx))
        /\ Start \in Nat /\ Before(src.shndx) \in Nat /\ Surplus(sym.shndx) \in Nat
    BY <1>1, <1>2, <1>3, SectionStarts
  <2>2. sym.size \in Nat /\ sym.value \in Nat
    BY <1>2 DEF Symbols
  <2>3. l \in Nat /\ l < sym.size
    BY <1>4, <2>2
  <2>4. HeaderOf(sym.shndx).offset - Surplus(sym.shndx) + sym.value + l
          = Start + Before(src.shndx) + sym.value + l
    BY <2>1, <2>2, <2>3
  <2>5. LET n == Start + Before(src.shndx) + sym.value + l IN
        n \in DOMAIN lines /\ lines[n] = <<smap[k].src[1], src.shndx, src.value + l>>
    BY <1>2, <2>3 DEF Found
  <2> QED
    BY <2>4, <2>5
<1> QED
  BY <1>2, <1>4 DEF sym, src

\* However many files there are and whatever their symbols, the value of a symbol of
\* dst leads to the lines of the symbol that was chosen for it, from where its
\* section begins; that is the offset in the header of the section, from which in
\* .data the bytes are to be taken that it counts as lines of .rodata
\* (compute_section_header, merge_section).
THEOREM SymbolsLocateHolds == Spec => []SymbolsLocate
<1>1. ReadInv /\ MergeInv => SymbolsLocate
  BY MergeInvLocates
<1> QED
  BY <1>1, MergeInvHolds, PTL

-----------------------------------------------------------------------------
(* Why the program stops                                                   *)

LEMMA RelocationTypes ==
  ASSUME TypeOK, NEW r \in RelocationIds
  PROVE  /\ r[1] \in DOMAIN srcs /\ r[2] \in {1, 2} /\ r = <<r[1], r[2], r[3]>>
         /\ Rel(r) \in Relocations
         /\ r[2] = 1 => r[3] \in DOMAIN srcs[r[1]].reltext /\ Rel(r) = srcs[r[1]].reltext[r[3]]
         /\ r[2] = 2 => r[3] \in DOMAIN srcs[r[1]].reldata /\ Rel(r) = srcs[r[1]].reldata[r[3]]
<1>1. PICK i \in DOMAIN srcs, t \in {1, 2} :
        \E j \in DOMAIN Tables(srcs[i])[t] : r = <<i, t, j>>
  BY DEF RelocationIds
<1>2. PICK j \in DOMAIN Tables(srcs[i])[t] : r = <<i, t, j>>
  BY <1>1
<1>3. srcs[i].reltext \in Seq(Relocations) /\ srcs[i].reldata \in Seq(Relocations)
  <2>1. srcs[i] \in Files
    BY DEF TypeOK
  <2> QED
    BY <2>1 DEF Files
<1>4. r[1] = i /\ r[2] = t /\ r[3] = j /\ Rel(r) = Tables(srcs[i])[t][j]
  BY <1>2 DEF Rel
<1>5. Tables(srcs[i])[1] = srcs[i].reltext /\ Tables(srcs[i])[2] = srcs[i].reldata
  BY DEF Tables
<1>6. CASE t = 1
  <2>1. j \in DOMAIN srcs[i].reltext /\ Rel(r) = srcs[i].reltext[j]
    BY <1>2, <1>4, <1>5, <1>6
  <2> QED
    BY <1>2, <1>3, <1>4, <1>6, <2>1
<1>7. CASE t = 2
  <2>1. j \in DOMAIN srcs[i].reldata /\ Rel(r) = srcs[i].reldata[j]
    BY <1>2, <1>4, <1>5, <1>7
  <2> QED
    BY <1>2, <1>3, <1>4, <1>7, <2>1
<1> QED
  BY <1>6, <1>7

\* The symbol in which a relocation stands.
LEMMA ReferencingTypes ==
  ASSUME TypeOK, NEW r \in RelocationIds, NEW j \in Referencing(r)
  PROVE  LET id == <<r[1], j>> IN
         /\ id \in SymbolIds /\ Sym(id) \in Symbols /\ Sym(id) = srcs[r[1]].symt[j]
         /\ Sym(id).shndx = SectionOf(r) /\ SectionOf(r) \in {".text", ".data"}
         /\ Precedence(Sym(id)) = 2 /\ Sym(id).size # 0
         /\ Covers(r, Sym(id))
<1> DEFINE id == <<r[1], j>>
<1>1. /\ r[1] \in DOMAIN srcs /\ j \in DOMAIN srcs[r[1]].symt
      /\ srcs[r[1]].symt[j].shndx = SectionOf(r) /\ Covers(r, srcs[r[1]].symt[j])
  BY RelocationTypes DEF Referencing
<1>2. id \in SymbolIds /\ Sym(id) = srcs[r[1]].symt[j]
  BY <1>1, SymbolTypes DEF TypeOK
<1>3. Sym(id) \in Symbols
  BY <1>2, SymbolTypes DEF TypeOK
<1>4. SectionOf(r) \in {".text", ".data"}
  BY DEF SectionOf
<1> HIDE DEF id
<1>5. Precedence(Sym(id)) = 2 /\ Sym(id).size # 0
  BY <1>1, <1>2, <1>4, CompiledSymbols, PrecedenceFacts DEF Contents
<1> QED
  BY <1>1, <1>2, <1>3, <1>4, <1>5 DEF id

\* The symbol that decides is the first of its file that covers the line.
LEMMA FirstReferencing ==
  ASSUME TypeOK, NEW r \in RelocationIds, Referencing(r) # {}
  PROVE  Least(Referencing(r)) \in Referencing(r)
         /\ \A j \in Referencing(r) : Least(Referencing(r)) <= j
<1>1. srcs[r[1]] \in Files
  BY RelocationTypes, SymbolTypes DEF TypeOK
<1>2. srcs[r[1]].symt \in Seq(Symbols)
  BY <1>1 DEF Files
<1>3. DOMAIN srcs[r[1]].symt \subseteq Nat
  BY <1>2
<1>4. Referencing(r) \in SUBSET Nat
  BY <1>3 DEF Referencing
<1> QED
  BY <1>4, LeastIn

\* The symbol in which a relocation stands, by Placed.
LEMMA StandsIn ==
  ASSUME TypeOK, NEW r \in RelocationIds
  PROVE  \E i \in Referencing(r) : LET sym == srcs[r[1]].symt[i] IN
           sym.value <= Rel(r).row /\ Rel(r).row < sym.value + sym.size
<1> DEFINE file == srcs[r[1]]
<1>1. PICK rels : /\ Placed(file, rels, SectionOf(r)) /\ r[3] \in DOMAIN rels /\ Rel(r) = rels[r[3]]
  <2>1. /\ Placed(file, file.reltext, ".text") /\ Placed(file, file.reldata, ".data")
    BY RelocationTypes DEF TypeOK, Compiled
  <2>2. CASE r[2] = 1
    BY <2>1, <2>2, RelocationTypes DEF SectionOf
  <2>3. CASE r[2] = 2
    BY <2>1, <2>3, RelocationTypes DEF SectionOf
  <2> QED
    BY <2>2, <2>3, RelocationTypes
<1>2. PICK i \in DOMAIN file.symt :
        /\ file.symt[i].shndx = SectionOf(r) /\ file.symt[i].value <= Rel(r).row
        /\ Rel(r).row < file.symt[i].value + file.symt[i].size
  BY <1>1 DEF Placed
<1>3. Covers(r, file.symt[i])
  BY <1>2 DEF Covers
<1> QED
  BY <1>2, <1>3 DEF Referencing

\* Only a weak symbol has no entry in the map.
LEMMA UnmappedIsWeak ==
  ASSUME ReadInv, pc = "relocate", NEW r \in RelocationIds, NEW j \in Referencing(r),
         ~Chosen(<<r[1], j>>)
  PROVE  \E a \in SymbolIds : Sym(a).bind = "WEAK"
<1> DEFINE id == <<r[1], j>>
<1>1. TypeOK /\ Resolution(smap, SymbolIds)
  BY DEF ReadInv, Reading, Refusals
<1>2. id \in SymbolIds /\ Sym(id) \in Symbols /\ Precedence(Sym(id)) = 2
  BY <1>1, ReferencingTypes
<1>3. ~Chosen(id)
  OBVIOUS
<1> HIDE DEF id
<1>4. Sym(id).bind # "LOCAL" /\ ~Strong(id)
  BY <1>1, <1>2, <1>3 DEF Resolution, Chosen, Entries
<1>5. Sym(id).bind = "WEAK"
  BY <1>2, <1>4 DEF Strong, Symbols
<1> QED
  BY <1>2, <1>5

\* The row a patch is written to.
LEMMA PatchRow ==
  ASSUME ReadInv, MergeInv, pc = "relocate", NEW r \in RelocationIds, NEW j \in Referencing(r),
         Chosen(<<r[1], j>>)
  PROVE  LET id == <<r[1], j>> IN
         /\ \E k \in DOMAIN smap : smap[k].src = id /\ DstOf(id) = smap[k].dst
         /\ \E s \in {1, 3} : s \in Present /\ Sections[s] = SectionOf(r)
         /\ RowIn(r, id) \in Nat /\ RowIn(r, id) <= CountOf(SectionOf(r))
<1> DEFINE id == <<r[1], j>>
<1>1. TypeOK /\ Resolution(smap, SymbolIds)
  BY DEF ReadInv, Reading, Refusals
<1>2. /\ id \in SymbolIds /\ Sym(id) \in Symbols /\ Sym(id).shndx = SectionOf(r)
      /\ SectionOf(r) \in {".text", ".data"} /\ Sym(id).size # 0 /\ Covers(r, Sym(id))
  BY <1>1, ReferencingTypes
<1>3. Chosen(id)
  OBVIOUS
<1> HIDE DEF id
<1>4. PICK k \in DOMAIN smap : smap[k].src = id
  BY <1>3 DEF Chosen, Entries
<1>5. DstOf(id) = smap[k].dst
  <2>1. \A l \in DOMAIN smap : smap[l].src = id <=> l = k
    BY <1>1, <1>4 DEF Resolution
  <2> QED
    BY <2>1, <1>4 DEF DstOf, Entries
<1> DEFINE sym == symt[smap[k].dst]
<1>6. /\ SrcOf(smap, k) = Sym(id) /\ sym \in Symbols /\ sym.size = Sym(id).size
      /\ sym.value + sym.size <= CountOf(Sym(id).shndx)
      /\ \E s \in 1 .. 3 : s \in Present /\ Sections[s] = Sym(id).shndx
  <2>1. SrcOf(smap, k) = Sym(id)
    BY <1>4 DEF SrcOf
  <2> QED
    BY <2>1, EntryFacts
<1>7. PICK s \in 1 .. 3 : s \in Present /\ Sections[s] = SectionOf(r)
  BY <1>2, <1>6
<1>8. s \in {1, 3}
  BY <1>2, <1>7, SectionFacts
<1>9. Rel(r) \in Relocations
  BY <1>1, RelocationTypes
<1>10. /\ Rel(r).row \in Nat /\ Sym(id).value \in Nat /\ Sym(id).size \in Nat
       /\ sym.value \in Nat /\ CountOf(SectionOf(r)) \in Nat
  BY <1>1, <1>2, <1>6, <1>9, CountTypes DEF Symbols, Relocations
<1>11. Sym(id).value <= Rel(r).row /\ Rel(r).row <= Sym(id).value + Sym(id).size
  BY <1>2, <1>10 DEF Covers
<1>12. RowIn(r, id) = Rel(r).row - Sym(id).value + sym.value
  BY <1>5 DEF RowIn
<1>13. sym.value + Sym(id).size <= CountOf(SectionOf(r))
  BY <1>2, <1>6
<1> HIDE DEF sym
<1>14. RowIn(r, id) \in Nat /\ RowIn(r, id) <= CountOf(SectionOf(r))
  BY <1>10, <1>11, <1>12, <1>13
<1> QED
  BY <1>4, <1>5, <1>7, <1>8, <1>14 DEF id

\* The line of a patch is within the lines of the file, further on by what the
\* header of its section has too much.
LEMMA PatchInside ==
  ASSUME ReadInv, MergeInv, pc = "relocate", NEW r \in RelocationIds, NEW j \in Referencing(r),
         Chosen(<<r[1], j>>)
  PROVE  LET line == HeaderOf(SectionOf(r)).offset + RowIn(r, <<r[1], j>>) IN
         /\ line \in Nat /\ Surplus(SectionOf(r)) \in Nat
         /\ FileLines \in Nat /\ line < FileLines + Surplus(SectionOf(r))
<1> DEFINE row == RowIn(r, <<r[1], j>>)
           section == SectionOf(r)
<1>1. TypeOK /\ sht = Headers
  BY DEF ReadInv, MergeInv
<1>2. row \in Nat /\ row <= CountOf(section)
  BY PatchRow
<1>3. PICK s \in {1, 3} : s \in Present /\ Sections[s] = section
  BY PatchRow
<1>4. PICK k \in DOMAIN smap : TRUE
  BY PatchRow
<1> HIDE DEF row, section
<1>5. /\ HeaderOf(section).offset = Start + (Before(section) + Surplus(section))
      /\ Start \in Nat /\ Before(section) \in Nat /\ Surplus(section) \in Nat
      /\ Before(section) + CountOf(section) <= CopiedLines /\ CopiedLines \in Nat
  BY <1>1, <1>3, SectionStarts
<1>6. Len(smap) \in Nat /\ Len(smap) >= 1
  BY <1>1, <1>4, MapSizes
<1>7. FileLines = Start + CopiedLines + Len(smap)
  BY DEF FileLines, Start
<1>8. CountOf(section) \in Nat
  BY <1>1, CountTypes
<1>9. /\ HeaderOf(section).offset + row \in Nat /\ FileLines \in Nat
      /\ HeaderOf(section).offset + row < FileLines + Surplus(section)
  BY <1>2, <1>5, <1>6, <1>7, <1>8
<1> QED
  BY <1>5, <1>9 DEF row, section

HasWeak == \E a \in SymbolIds : Sym(a).bind = "WEAK"

RelativeInData == \E i \in DOMAIN srcs : \E j \in DOMAIN srcs[i].reldata :
                    srcs[i].reldata[j].type # "32"

PatchesData == \E i \in DOMAIN srcs : srcs[i].reldata # <<>>

LeavesUnset == \E k \in Entries : Sym(smap[k].src).shndx \notin Contents

\* Why the program stops after it has read the files.
Stopped ==
  /\ pc = "toolong" => Start + CopiedLines > FileLength
  /\ pc = "unset" => LeavesUnset
  /\ pc = "overrun" => FileLines > FileLength
  /\ pc = "relocate" => FileLines <= FileLength
  /\ pc = "unmapped" => HasWeak
  /\ pc = "nottext" => RelativeInData
  /\ pc = "astray" => /\ FileLines <= FileLength /\ FileLength < FileLines + Surplus(".data")
                      /\ PatchesData
  /\ DOMAIN lines \subseteq 0 .. FileLength - 1
  /\ pc # "miscounted"

\* The lines written and those of one more symbol are not more than all that are
\* to be copied.
LEMMA MergeStops ==
  ASSUME ReadInv, MergeInv, NEW s \in DOMAIN Sections, NEW id \in SymbolIds,
         MergeSymbol(s, id), pc' = "toolong"
  PROVE  Start + CopiedLines > FileLength
<1>1. pc = "merge" /\ TypeOK /\ sht = Headers /\ Counted(smap, symt)
  BY DEF MergeSymbol, Merging, ReadInv, MergeInv
<1>2. /\ s \in 1 .. 3 /\ Sym(id).shndx = Sections[s] /\ Sym(id) \in Symbols
      /\ Sections[s] \in Contents
  BY MergedEntry, SectionFacts
<1>3. PICK k \in EntriesIn(smap, Sections[s]) :
        /\ k \in DOMAIN smap /\ smap[k].src = id /\ smap[k].dst = 0
        /\ SrcOf(smap, k) = Sym(id)
  BY MergedEntry
<1> DEFINE size == Sym(id).size
           merged(section) == SumFunctionOnSet(Sizes(smap), MergedIn(smap, section))
<1>4. size \in Nat
  BY <1>2 DEF Symbols
<1>5. \A section \in Contents :
        /\ FilledIn(symt, section) = merged(section) /\ merged(section) <= CountOf(section)
        /\ CountOf(section) \in Nat /\ FilledIn(symt, section) \in Nat
  <2>1. \A section : MergedIn(smap, section) \in SUBSET EntriesIn(smap, section)
    BY DEF MergedIn
  <2> QED
    BY <1>1, <2>1, CountTypes, TableCounts DEF Counted, TypeOK
<1>6. merged(Sections[s]) + size <= CountOf(Sections[s])
  <2> DEFINE M == MergedIn(smap, Sections[s])
  <2>1. /\ IsFiniteSet(M) /\ k \notin M /\ M \cup {k} \in SUBSET EntriesIn(smap, Sections[s])
        /\ \A l \in M \cup {k} : Sizes(smap)[l] \in Nat
        /\ Sizes(smap)[k] = size
    <3>1. M \subseteq DOMAIN smap
      BY DEF MergedIn, EntriesIn
    <3>2. IsFiniteSet(M) /\ \A l \in M \cup {k} : Sizes(smap)[l] \in Nat
      BY <1>1, <1>3, <3>1, MapSizes, FS_Subset
    <3>3. k \notin M /\ M \cup {k} \in SUBSET EntriesIn(smap, Sections[s])
      BY <1>3 DEF MergedIn
    <3>4. Sizes(smap)[k] = size
      BY <1>1, <1>3, MapSizes
    <3> QED
      BY <3>2, <3>3, <3>4
  <2> HIDE DEF M, size
  <2>2. SumFunctionOnSet(Sizes(smap), M \cup {k}) = SumFunctionOnSet(Sizes(smap), M) + size
    BY <2>1, SumAdd
  <2>3. SumFunctionOnSet(Sizes(smap), M \cup {k}) <= CountOf(Sections[s])
    BY <1>1, <2>1, CountTypes
  <2> QED
    BY <2>2, <2>3 DEF M
<1>7. /\ Start \in Nat
      /\ Written = Start + (FilledIn(symt, ".text") + FilledIn(symt, ".rodata")
                              + FilledIn(symt, ".data"))
  <2>1. Written = Start + TotalOf(symt)
    BY DEF Written, Start, TotalOf, SizesIn, SumFunction
  <2>2. Start \in Nat
    BY <1>1, PresentFinite DEF Start, Headers
  <2> QED
    BY <1>1, <2>1, <2>2 DEF Counted
<1> HIDE DEF size, merged
<1>8. Written \in Nat /\ Written + size <= Start + CopiedLines /\ CopiedLines \in Nat
  <2>1. /\ ".text" \in Contents /\ ".rodata" \in Contents /\ ".data" \in Contents
        /\ Sections[s] \in {".text", ".rodata", ".data"}
    BY <1>2 DEF Contents
  <2>2. /\ FilledIn(symt, ".text") <= CountOf(".text") /\ FilledIn(symt, ".data") <= CountOf(".data")
        /\ FilledIn(symt, ".rodata") <= CountOf(".rodata")
        /\ FilledIn(symt, ".text") \in Nat /\ FilledIn(symt, ".data") \in Nat
        /\ FilledIn(symt, ".rodata") \in Nat /\ CountOf(".text") \in Nat
        /\ CountOf(".data") \in Nat /\ CountOf(".rodata") \in Nat
    BY <1>5, <2>1
  <2>3. FilledIn(symt, Sections[s]) + size <= CountOf(Sections[s])
    BY <1>2, <1>5, <1>6
  <2> QED
    BY <1>4, <1>7, <2>1, <2>2, <2>3 DEF CopiedLines
<1>9. ~(Written .. Written + size - 1 \subseteq 0 .. FileLength - 1)
  BY <1>1 DEF MergeSymbol, CopyOf, size
<1>10. Written + size > FileLength
  BY <1>4, <1>8, <1>9, LinkAssumption
<1> QED
  BY <1>4, <1>7, <1>8, <1>10, LinkAssumption

LEMMA WriteSymtabStops ==
  ASSUME ReadInv, MergeInv, WriteSymtab
  PROVE  /\ pc' = "unset" => LeavesUnset
         /\ pc' = "overrun" => FileLines > FileLength
         /\ pc' = "relocate" => FileLines <= FileLength
<1>1. pc = "merge" /\ todo = {} /\ TypeOK /\ Numbered(smap, symt) /\ sht = Headers
  BY DEF WriteSymtab, ReadInv, MergeInv
<1>2. /\ pc' = "unset" => Len(symt) < Len(smap)
      /\ pc' = "overrun" => Written + Len(symt) > FileLength
      /\ pc' = "relocate" => ~(Written + Len(symt) > FileLength) /\ ~(Len(symt) < Len(smap))
  BY <1>1 DEF WriteSymtab, Stop
<1>3. DOMAIN smap = 1 .. Len(smap) /\ Len(smap) \in Nat /\ Len(symt) \in Nat
  BY <1>1, MapSizes DEF TypeOK
<1>4. ASSUME Len(symt) < Len(smap) PROVE LeavesUnset
  <2>1. PICK k \in DOMAIN smap : smap[k].dst = 0
    BY <1>1, <1>3, <1>4, SomeUnnumbered DEF Numbered
  <2>2. SrcOf(smap, k).shndx \notin Contents
    <3>1. \A section \in Contents : k \in EntriesIn(smap, section) => k \in MergedIn(smap, section)
      BY <1>1, AllMerged
    <3> QED
      BY <2>1, <3>1 DEF EntriesIn, MergedIn
  <2> QED
    BY <2>2 DEF LeavesUnset, SrcOf, Entries
<1>5. Len(symt) <= Len(smap)
  <2>1. IsFiniteSet(DOMAIN smap) /\ Cardinality(DOMAIN smap) = Len(smap)
    BY <1>3, IntervalSize
  <2> DEFINE len == Len(symt)
             D == DOMAIN smap
  <2>2. /\ len \in Nat /\ \A k \in D : smap[k].dst \in 0 .. len
        /\ \A d \in 1 .. len : \E k \in D : smap[k].dst = d
    BY <1>1, <1>3 DEF Numbered
  <2>3. IsFiniteSet(D)
    BY <2>1
  <2> HIDE DEF len, D
  <2>4. len <= Cardinality(D)
    BY <2>2, <2>3, TableWithin
  <2> QED
    BY <2>1, <2>4 DEF len, D
<1>6. FileLines = Written + Len(smap) /\ Written \in Nat
  <2>1. Written = Start + TotalOf(symt)
    BY DEF Written, Start, TotalOf, SizesIn, SumFunction
  <2>2. TotalOf(symt) = CopiedLines
    BY <1>1, AllMerged DEF CopiedLines
  <2> QED
    BY <1>1, <2>1, <2>2, WrittenIsCounted DEF FileLines, Start
<1> QED
  BY <1>2, <1>3, <1>4, <1>5, <1>6, LinkAssumption

LEMMA RelocateStops ==
  ASSUME ReadInv, MergeInv, Stopped, NEW r \in RelocationIds, Relocate(r) \/ PassRelocation(r)
  PROVE  /\ pc' = "unmapped" => HasWeak
         /\ pc' = "nottext" => RelativeInData
         /\ pc' = "astray" => FileLength < FileLines + Surplus(".data") /\ PatchesData
         /\ FileLines <= FileLength
<1>1. pc = "relocate" /\ TypeOK /\ sht = Headers /\ FileLines <= FileLength
  BY DEF Relocate, PassRelocation, Relocating, ReadInv, MergeInv, Stopped
<1>2. CASE PassRelocation(r)
  <2>1. pc' = "unmapped" => \E j \in Referencing(r) : ~Chosen(<<r[1], j>>)
    BY <1>1, <1>2 DEF PassRelocation, Stop
  <2>2. pc' \in {"relocate", "unmapped"}
    BY <1>2, LaterSteps
  <2> QED
    BY <1>1, <2>1, <2>2, UnmappedIsWeak DEF HasWeak
<1>3. CASE Relocate(r)
  <2> DEFINE j == Least(Referencing(r))
             id == <<r[1], j>>
             row == RowIn(r, id)
             target == smap[Least(Targets(r))].dst
             patch == Patch(r, row, target)
  <2>1. j \in Referencing(r)
    BY <1>1, <1>3, FirstReferencing DEF Relocate
  <2>2. \/ ~Chosen(id) /\ pc' = "unmapped"
        \/ Chosen(id) /\ Rel(r).type # "32" /\ SectionOf(r) # ".text" /\ pc' = "nottext"
        \/ Chosen(id) /\ patch.line >= FileLength /\ pc' = "astray"
        \/ pc' = "relocate"
    BY <1>1, <1>3, Zenon DEF Relocate, Stop
  <2>3. patch.line = HeaderOf(SectionOf(r)).offset + row
    BY DEF Patch
  <2> HIDE DEF j, target, patch
  <2>4. CASE ~Chosen(id) /\ pc' = "unmapped"
    BY <1>1, <2>1, <2>4, UnmappedIsWeak DEF HasWeak
  <2>5. CASE Rel(r).type # "32" /\ SectionOf(r) # ".text" /\ pc' = "nottext"
    <3>1. r[2] = 2
      BY <1>1, <2>5, RelocationTypes DEF SectionOf
    <3> QED
      BY <1>1, <2>5, <3>1, RelocationTypes DEF RelativeInData
  <2>6. CASE Chosen(id) /\ patch.line >= FileLength /\ pc' = "astray"
    <3> DEFINE line == HeaderOf(SectionOf(r)).offset + row
    <3>1. /\ line \in Nat /\ Surplus(SectionOf(r)) \in Nat /\ FileLines \in Nat
          /\ line < FileLines + Surplus(SectionOf(r))
      BY <1>1, <2>1, <2>6, PatchInside
    <3>2. line >= FileLength
      BY <2>3, <2>6
    <3> HIDE DEF line, row
    <3>3. FileLength < FileLines + Surplus(SectionOf(r)) /\ Surplus(SectionOf(r)) # 0
      BY <1>1, <3>1, <3>2, LinkAssumption
    <3>4. SectionOf(r) = ".data" /\ r[2] = 2
      BY <1>1, <3>3, SurplusFacts, RelocationTypes DEF SectionOf
    <3>5. srcs[r[1]].reldata # <<>> /\ r[1] \in DOMAIN srcs
      <4>1. r[3] \in DOMAIN srcs[r[1]].reldata
        BY <1>1, <3>4, RelocationTypes
      <4>2. DOMAIN <<>> = {}
        OBVIOUS
      <4> QED
        BY <1>1, <4>1, <4>2, RelocationTypes
    <3> QED
      BY <1>1, <2>6, <3>3, <3>4, <3>5 DEF PatchesData
  <2> QED
    BY <1>1, <2>2, <2>4, <2>5, <2>6
<1> QED
  BY <1>2, <1>3

LEMMA SameCauses ==
  ASSUME UNCHANGED <<srcs, smap, sht>>
  PROVE  /\ (HasWeak' <=> HasWeak) /\ (RelativeInData' <=> RelativeInData)
         /\ (LeavesUnset' <=> LeavesUnset) /\ (PatchesData' <=> PatchesData)
         /\ Start' = Start /\ CopiedLines' = CopiedLines /\ FileLines' = FileLines
         /\ \A section : Surplus(section)' = Surplus(section)
<1>1. SymbolIds' = SymbolIds /\ \A id : Sym(id)' = Sym(id)
  BY SameSymbols
<1>2. HasWeak' <=> HasWeak
  BY <1>1 DEF HasWeak
<1>3. (RelativeInData' <=> RelativeInData) /\ (PatchesData' <=> PatchesData)
  BY DEF RelativeInData, PatchesData
<1>4. \A section : CountOf(section)' = CountOf(section)
  BY SameCounts
<1>5. Start' = Start /\ CopiedLines' = CopiedLines /\ FileLines' = FileLines
  BY <1>4 DEF Start, CopiedLines, FileLines
<1>6. LeavesUnset' <=> LeavesUnset
  BY <1>1 DEF LeavesUnset, Entries
<1>7. \A section : Surplus(section)' = Surplus(section)
  BY <1>4 DEF Surplus
<1> QED
  BY <1>2, <1>3, <1>5, <1>6, <1>7

LEMMA StepStops ==
  ASSUME ReadInv, MergeInv, Stopped, [Next]_vars
  PROVE  Stopped'
<1> DEFINE early == {"symbols", "headers", "merge", "done"} \cup Refusals
<1>1. CASE UNCHANGED vars
  <2>1. pc' = pc /\ lines' = lines /\ UNCHANGED <<srcs, smap, sht>>
    BY <1>1 DEF vars
  <2> QED
    BY <2>1, SameCauses DEF Stopped
<1>2. ASSUME lines' = lines, pc' \in early PROVE Stopped'
  BY <1>2 DEF Stopped, Refusals
<1>3. CASE \/ \E id \in SymbolIds : InsertSymbol(id) \/ ResolveSymbol(id) \/ PassWeak(id)
           \/ CleanUp \/ compute_section_header \/ Finish
           \/ \E s \in DOMAIN Sections, id \in SymbolIds : PassUnmerged(s, id)
  <2>1. lines' = lines
    <3>1. \A id : InsertSymbol(id) => lines' = lines
      BY Zenon DEF InsertSymbol, Stop
    <3>2. \A id : ResolveSymbol(id) => lines' = lines
      BY Zenon DEF ResolveSymbol, Stop
    <3>3. \A id : PassWeak(id) => lines' = lines
      BY Zenon DEF PassWeak
    <3>4. CleanUp => lines' = lines
      BY Zenon DEF CleanUp, Stop
    <3>5. compute_section_header => lines' = lines
      BY DEF compute_section_header
    <3>6. Finish => lines' = lines
      BY Zenon DEF Finish, Stop
    <3>7. \A s, id : PassUnmerged(s, id) => lines' = lines
      BY Zenon DEF PassUnmerged
    <3> QED
      BY <1>3, <3>1, <3>2, <3>3, <3>4, <3>5, <3>6, <3>7
  <2>2. ASSUME NEW id \in SymbolIds, InsertSymbol(id) \/ ResolveSymbol(id) \/ PassWeak(id)
        PROVE  pc' \in {"symbols"} \cup Refusals
    BY <2>2 DEF InsertSymbol, ResolveSymbol, PassWeak, Processing, Stop, Refusals
  <2>3. CleanUp => pc' \in {"headers", "unresolved", "unnamed"}
    BY DEF CleanUp, Stop
  <2>4. pc' \in early
    BY <1>3, <2>2, <2>3, LaterSteps DEF Refusals
  <2> QED
    BY <2>1, <2>4, <1>2
<1>4. ASSUME NEW s \in DOMAIN Sections, NEW id \in SymbolIds, MergeSymbol(s, id)
      PROVE  Stopped'
  <2>1. pc' \in {"merge", "toolong"} /\ pc = "merge"
    BY <1>4, LaterSteps
  <2>2. CASE pc' = "merge"
    <3>1. MergeInv'
      BY <1>4, MergeSymbolMerges
    <3> QED
      BY <2>2, <3>1 DEF MergeInv, Copied, Stopped
  <2>3. CASE pc' = "toolong"
    <3>1. lines' = lines /\ UNCHANGED <<srcs, smap, sht>>
      BY <1>4, <2>1, <2>3, Zenon DEF MergeSymbol, Stop
    <3>2. Start' + CopiedLines' > FileLength
      BY <1>4, <2>3, <3>1, MergeStops, SameCauses
    <3> QED
      BY <2>3, <3>1, <3>2 DEF Stopped
  <2> QED
    BY <2>1, <2>2, <2>3
<1>5. CASE WriteSymtab
  <2>1. /\ lines' = lines /\ UNCHANGED <<srcs, smap, sht>>
        /\ pc' \in {"relocate", "overrun", "unset"}
    BY <1>5, WriteSymtabMerges, LaterSteps, Zenon DEF WriteSymtab, Stop
  <2>2. /\ pc' = "unset" => LeavesUnset
        /\ pc' = "overrun" => FileLines > FileLength
        /\ pc' = "relocate" => FileLines <= FileLength
    BY <1>5, WriteSymtabStops
  <2> QED
    BY <2>1, <2>2, SameCauses DEF Stopped
<1>6. ASSUME NEW r \in RelocationIds, Relocate(r) \/ PassRelocation(r)
      PROVE  Stopped'
  <2>1. lines' = lines /\ UNCHANGED <<srcs, smap, sht>>
    BY <1>6, Zenon DEF Relocate, PassRelocation, Stop
  <2>2. pc' \in {"relocate", "unmapped", "nottext", "astray"}
    BY <1>6, LaterSteps
  <2> HIDE DEF early
  <2> QED
    BY <1>6, <2>1, <2>2, RelocateStops, SameCauses DEF Stopped
<1> QED
  BY <1>1, <1>3, <1>4, <1>5, <1>6 DEF Next

LEMMA StoppedHasCause == ASSUME ReadInv, Stopped PROVE StopsForCause
BY DEF ReadInv, TypeOK, Refused, Locals, Globals, GlobalNames, Stopped, HasWeak,
   RelativeInData, PatchesData, LeavesUnset, Start, StopsForCause

\* Every way in which a link ends early has its cause in the files, whichever they
\* are: the assertions on the kinds and names of symbols, on the room in the map and
\* in the buffer and on the relocations fail for it, and that on the number of lines
\* (staticlink.c:570) never.  Where no assertion holds the linker back, it prints an
\* entry that no section has given only if a symbol is in no merged section, prints
\* the table behind the buffer only if the file is longer than the buffer
\* (staticlink.c:566), and patches behind it only by what the offset of .data has
\* too much (290).
THEOREM StopsForCauseHolds == Spec => []StopsForCause
<1>1. Init => Stopped
  BY DEF Init, Stopped
<1>2. ReadInv /\ MergeInv /\ Stopped /\ [Next]_vars => Stopped'
  BY StepStops
<1>3. ReadInv /\ Stopped => StopsForCause
  BY StoppedHasCause
<1> QED
  BY <1>1, <1>2, <1>3, MergeInvHolds, PTL DEF Spec

-----------------------------------------------------------------------------
(* No relocation of a global name is left out                              *)

ForGlobal(r) == srcs[r[1]].symt[Rel(r).sym].bind = "GLOBAL"

Patched ==
  pc \in {"relocate", "done"} =>
    /\ todo \subseteq RelocationIds
    /\ pc = "done" => todo = {}
    /\ \A r \in RelocationIds \ todo : ForGlobal(r) => \E p \in patches : p.rel = r

LEMMA RelocationsAreMet ==
  ASSUME ReadInv, MergeInv, pc = "relocate", NEW r \in RelocationIds, ForGlobal(r)
  PROVE  Referencing(r) # {} /\ Targets(r) # {}
<1>1. TypeOK /\ Resolution(smap, SymbolIds)
  BY DEF ReadInv, Reading, Refusals
<1> DEFINE file == srcs[r[1]]
<1>2. PICK rels : /\ Placed(file, rels, SectionOf(r)) /\ r[3] \in DOMAIN rels /\ Rel(r) = rels[r[3]]
  <2>1. /\ Placed(file, file.reltext, ".text") /\ Placed(file, file.reldata, ".data")
    BY <1>1, RelocationTypes DEF TypeOK, Compiled
  <2>2. CASE r[2] = 1
    BY <1>1, <2>1, <2>2, RelocationTypes DEF SectionOf
  <2>3. CASE r[2] = 2
    BY <1>1, <2>1, <2>3, RelocationTypes DEF SectionOf
  <2> QED
    BY <1>1, <2>2, <2>3, RelocationTypes
<1>3. Referencing(r) # {}
  BY <1>1, StandsIn
<1>4. Targets(r) # {}
  <2> DEFINE id == <<r[1], Rel(r).sym>>
  <2>1. id \in SymbolIds /\ Sym(id) = file.symt[Rel(r).sym]
    <3>1. r[1] \in DOMAIN srcs /\ Rel(r).sym \in DOMAIN file.symt
      BY <1>1, <1>2, RelocationTypes DEF Placed
    <3> QED
      BY <1>1, <3>1, SymbolTypes DEF TypeOK
  <2>2. Sym(id).bind = "GLOBAL" /\ Sym(id).name = ReferencedName(r)
    BY <2>1 DEF ForGlobal, ReferencedName
  <2> HIDE DEF id
  <2>3. PICK k \in DOMAIN smap : GlobalOf(smap, k, ReferencedName(r))
    BY <1>1, <2>1, <2>2 DEF Resolution
  <2>4. /\ symt[smap[k].dst].name = SrcOf(smap, k).name
        /\ symt[smap[k].dst].bind = SrcOf(smap, k).bind
    BY EntryFacts
  <2>5. k \in Targets(r)
    BY <2>3, <2>4 DEF Targets, Entries, GlobalOf
  <2> QED
    BY <2>5
<1> QED
  BY <1>3, <1>4

LEMMA SameRelocations ==
  ASSUME srcs' = srcs
  PROVE  /\ RelocationIds' = RelocationIds
         /\ \A r : Rel(r)' = Rel(r) /\ (ForGlobal(r)' <=> ForGlobal(r))
<1>1. RelocationIds' = RelocationIds
  BY DEF RelocationIds
<1>2. \A r : Rel(r)' = Rel(r)
  BY DEF Rel
<1> QED
  BY <1>1, <1>2 DEF ForGlobal

LEMMA RelocatePatches ==
  ASSUME ReadInv, MergeInv, Patched, NEW r \in RelocationIds, Relocate(r) \/ PassRelocation(r)
  PROVE  Patched'
<1>1. /\ pc = "relocate" /\ r \in todo /\ srcs' = srcs
      /\ pc' \in {"relocate", "unmapped", "nottext", "astray"}
  BY LaterSteps, LaterFrames DEF Relocate, PassRelocation, Relocating, Visits
<1>2. CASE pc' # "relocate"
  BY <1>1, <1>2 DEF Patched
<1>3. CASE pc' = "relocate"
  <2>1. todo' = todo \ {r} /\ patches \subseteq patches'
    <3>1. CASE Relocate(r)
      <4>1. pc' \notin {"unmapped", "nottext", "astray"}
        BY <1>3
      <4>2. todo' = todo \ {r} /\ \E p : patches' = patches \cup {p}
        BY <3>1, <4>1, Zenon DEF Relocate, Stop
      <4> QED
        BY <4>2
    <3>2. CASE PassRelocation(r)
      <4>1. pc' # "unmapped"
        BY <1>3
      <4>2. todo' = todo \ {r} /\ patches' = patches
        BY <3>2, <4>1, Zenon DEF PassRelocation, Stop
      <4> QED
        BY <4>2
    <3> QED
      BY <3>1, <3>2
  <2>2. ASSUME ForGlobal(r) PROVE \E p \in patches' : p.rel = r
    <3>1. Relocate(r)
      BY <1>1, <2>2, RelocationsAreMet DEF PassRelocation
    <3>2. PICK row, target : patches' = patches \cup {Patch(r, row, target)}
      <4>1. pc' \notin {"unmapped", "nottext", "astray"}
        BY <1>3
      <4> QED
        BY <3>1, <4>1, Zenon DEF Relocate, Stop
    <3>3. Patch(r, row, target).rel = r
      BY DEF Patch
    <3> QED
      BY <3>2, <3>3
  <2>3. /\ RelocationIds' = RelocationIds
        /\ \A q : ForGlobal(q)' <=> ForGlobal(q)
    BY <1>1, SameRelocations
  <2>4. ASSUME NEW q \in RelocationIds \ todo', ForGlobal(q)
        PROVE  \E p \in patches' : p.rel = q
    <3>1. CASE q = r
      BY <2>2, <2>4, <3>1
    <3>2. CASE q # r
      BY <1>1, <2>1, <2>4, <3>2 DEF Patched
    <3> QED
      BY <3>1, <3>2
  <2>5. todo' \subseteq RelocationIds
    BY <1>1, <2>1 DEF Patched
  <2> QED
    BY <1>3, <2>3, <2>4, <2>5 DEF Patched
<1> QED
  BY <1>2, <1>3

LEMMA StepPatches ==
  ASSUME ReadInv, MergeInv, Patched, [Next]_vars
  PROVE  Patched'
<1>1. ASSUME srcs' = srcs, pc' \in {"relocate", "done"}, todo' = todo, patches' = patches,
             pc = "relocate" \/ pc = pc', pc' = "done" => todo = {}
      PROVE  Patched'
  <2>1. pc \in {"relocate", "done"}
    BY <1>1
  <2> QED
    BY <1>1, <2>1, SameRelocations DEF Patched
<1>2. CASE UNCHANGED vars
  <2>1. srcs' = srcs /\ pc' = pc /\ todo' = todo /\ patches' = patches
    BY <1>2 DEF vars
  <2> QED
    BY <1>1, <2>1 DEF Patched
<1>3. CASE Next /\ pc = "symbols"
  <2>1. pc' \in {"symbols", "headers"} \cup Refusals
    BY <1>3, ReadingStays
  <2> QED
    BY <2>1 DEF Patched, Refusals
<1>4. ASSUME pc' \notin {"relocate", "done"} PROVE Patched'
  BY <1>4 DEF Patched
<1>5. CASE Next /\ pc # "symbols"
  <2>1. \/ compute_section_header
        \/ \E s \in DOMAIN Sections, id \in SymbolIds : MergeSymbol(s, id) \/ PassUnmerged(s, id)
        \/ WriteSymtab
        \/ \E r \in RelocationIds : Relocate(r) \/ PassRelocation(r)
        \/ Finish
    BY <1>5 DEF Next, InsertSymbol, ResolveSymbol, PassWeak, Processing, CleanUp
  <2>2. CASE WriteSymtab
    <3>1. CASE pc' = "relocate"
      <4>1. todo' = RelocationIds /\ srcs' = srcs
        BY <2>2, <3>1, Zenon DEF WriteSymtab, Stop
      <4> QED
        BY <3>1, <4>1, SameRelocations DEF Patched
    <3> QED
      BY <1>4, <2>2, <3>1, LaterSteps
  <2>3. CASE Finish
    BY <1>1, <2>3 DEF Finish, Stop
  <2> QED
    BY <1>4, <2>1, <2>2, <2>3, LaterSteps, RelocatePatches
<1> QED
  BY <1>2, <1>3, <1>5

LEMMA PatchedIsComplete == ASSUME Patched PROVE RelocationsComplete
BY DEF Patched, RelocationsComplete, ForGlobal

\* A link that succeeds has patched every relocation of a global name: the name
\* has a symbol in dst, and the line a symbol of its file that covers it
\* (relocation_processing).
THEOREM RelocationsCompleteHolds == Spec => []RelocationsComplete
<1>1. Init => Patched
  BY DEF Init, Patched
<1>2. ReadInv /\ MergeInv /\ Patched /\ [Next]_vars => Patched'
  BY StepPatches
<1>3. Patched => RelocationsComplete
  BY PatchedIsComplete
<1> QED
  BY <1>1, <1>2, <1>3, MergeInvHolds, PTL DEF Spec

-----------------------------------------------------------------------------
(* The order in which dst is filled                                        *)

\* Of the tuples of the merge, those visited precede those that are left.
Lexical(td) == \A x \in MergeIds \ td : \A y \in td : Precedes(x, y)

\* Each section is filled from its start, and the last entry ends its section.
Stacked(st) ==
  /\ \A d, e \in DOMAIN st : d < e /\ st[d].shndx = st[e].shndx
                               => st[d].value + st[d].size <= st[e].value
  /\ \A d \in DOMAIN st : /\ st[d].value + st[d].size <= FilledIn(st, st[d].shndx)
                          /\ d = Len(st) =>
                               st[d].value + st[d].size = FilledIn(st, st[d].shndx)

\* The table is in the order of the visits.
Ordered(m) ==
  \A k, l \in DOMAIN m : \A s, t \in 1 .. 3 :
    /\ k \in EntriesIn(m, Sections[s]) /\ l \in EntriesIn(m, Sections[t])
    /\ m[k].dst # 0 /\ m[k].dst < m[l].dst
    => Precedes(VisitOf(m, k, s), VisitOf(m, l, t))

\* Every line of a section that has been filled is one of an entry.
Gapless(st) ==
  \A section \in Contents : \A row \in Nat :
    row < FilledIn(st, section) =>
      \E d \in DOMAIN st : /\ st[d].shndx = section
                          /\ st[d].value <= row /\ row < st[d].value + st[d].size

StackInv ==
  pc \in {"merge", "relocate", "done"} =>
    /\ pc = "merge" => Lexical(todo)
    /\ Stacked(symt) /\ Gapless(symt) /\ Ordered(smap)

LEMMA NextStack ==
  ASSUME srcs' = srcs, sht' = sht, DOMAIN smap' = DOMAIN smap,
         \A k \in DOMAIN smap : smap'[k].src = smap[k].src
  PROVE  /\ Lexical(todo)' <=> Lexical(todo')
         /\ Stacked(symt)' <=> Stacked(symt')
         /\ Gapless(symt)' <=> Gapless(symt')
         /\ Ordered(smap)' <=> Ordered(smap')
<1>1. /\ SymbolIds' = SymbolIds /\ \A id : Sym(id)' = Sym(id)
  BY SameSymbols
<1>2. MergeIds' = MergeIds
  BY <1>1 DEF MergeIds
<1>3. \A section : EntriesIn(smap, section)' = EntriesIn(smap', section)
  BY DEF EntriesIn, SrcOf, Sym
<1>4. Lexical(todo)' <=> Lexical(todo')
  BY <1>2 DEF Lexical, Precedes
<1>5. \A section : FilledIn(symt, section)' = FilledIn(symt', section)
  BY DEF FilledIn, SizesIn
<1>6. Stacked(symt)' <=> Stacked(symt')
  BY <1>5 DEF Stacked
<1>7. Ordered(smap)' <=> Ordered(smap')
  <2>1. \A s : Sections[s]' = Sections[s]
    BY DEF Sections
  <2>2. \A k, l, s, t : Precedes(VisitOf(smap, k, s), VisitOf(smap, l, t))'
                          <=> Precedes(VisitOf(smap', k, s), VisitOf(smap', l, t))
    BY DEF Precedes, VisitOf
  <2>3. \A k, s : k \in EntriesIn(smap, Sections[s])' <=> k \in EntriesIn(smap', Sections[s])
    BY <1>3, <2>1
  <2> QED
    BY <2>2, <2>3 DEF Ordered
<1>8. Gapless(symt)' <=> Gapless(symt')
  BY <1>5 DEF Gapless, Contents
<1> QED
  BY <1>4, <1>6, <1>7, <1>8

\* The lexicographic order of triples.
LEMMA PrecedesMeans ==
  ASSUME NEW a \in Int, NEW b \in Int, NEW c \in Int, NEW p \in Int, NEW q \in Int, NEW r \in Int
  PROVE  Precedes(<<a, b, c>>, <<p, q, r>>)
           <=> a < p \/ (a = p /\ (b < q \/ (b = q /\ c < r)))
<1> DEFINE x == <<a, b, c>>
           y == <<p, q, r>>
<1>1. DOMAIN x = {1, 2, 3} /\ x[1] = a /\ x[2] = b /\ x[3] = c /\ y[1] = p /\ y[2] = q /\ y[3] = r
  OBVIOUS
<1>2. /\ \A m \in 1 .. 1 - 1 : FALSE
      /\ \A m : m \in 1 .. 2 - 1 <=> m = 1
      /\ \A m : m \in 1 .. 3 - 1 <=> m = 1 \/ m = 2
  OBVIOUS
<1> HIDE DEF x, y
<1>3. Precedes(x, y) <=> \/ x[1] < y[1]
                         \/ x[2] < y[2] /\ x[1] = y[1]
                         \/ x[3] < y[3] /\ x[1] = y[1] /\ x[2] = y[2]
  BY <1>1, <1>2 DEF Precedes
<1> QED
  BY <1>1, <1>3 DEF x, y

LEMMA StackedStep ==
  ASSUME NEW st \in Seq(Symbols), Stacked(st), NEW e \in Symbols, e.value = FilledIn(st, e.shndx),
         NEW wt, wt = Append(st, e)
  PROVE  Stacked(wt)
<1>1. Grown(st, wt, e)
  BY AppendCounts
<1>2. /\ \A section : /\ FilledIn(st, section) <= FilledIn(wt, section)
                      /\ FilledIn(st, section) \in Nat /\ FilledIn(wt, section) \in Nat
      /\ FilledIn(wt, e.shndx) = FilledIn(st, e.shndx) + e.size
  BY <1>1 DEF Grown
<1>3. /\ Len(st) \in Nat /\ DOMAIN st = 1 .. Len(st) /\ DOMAIN wt = 1 .. Len(st) + 1
      /\ Len(wt) = Len(st) + 1 /\ wt[Len(st) + 1] = e
      /\ \A d \in DOMAIN st : wt[d] = st[d] /\ st[d] \in Symbols
  OBVIOUS
<1>4. \A d \in DOMAIN wt : d \in DOMAIN st \/ d = Len(st) + 1
  BY <1>3
<1>5. \A d \in DOMAIN st : st[d].value \in Nat /\ st[d].size \in Nat /\ d <= Len(st)
  BY <1>3 DEF Symbols
<1>6. e.value \in Nat /\ e.size \in Nat
  BY DEF Symbols
<1>7. ASSUME NEW d \in DOMAIN wt, NEW f \in DOMAIN wt, d < f, wt[d].shndx = wt[f].shndx
      PROVE  wt[d].value + wt[d].size <= wt[f].value
  <2>1. d \in DOMAIN st
    BY <1>3, <1>7
  <2>2. CASE f \in DOMAIN st
    BY <1>3, <1>7, <2>1, <2>2 DEF Stacked
  <2>3. CASE f = Len(st) + 1
    <3>1. wt[f] = e /\ wt[d] = st[d] /\ st[d].shndx = e.shndx
      BY <1>3, <1>7, <2>1, <2>3
    <3>2. st[d].value + st[d].size <= FilledIn(st, e.shndx)
      BY <2>1, <3>1 DEF Stacked
    <3> QED
      BY <3>1, <3>2
  <2> QED
    BY <1>4, <2>2, <2>3
<1>8. ASSUME NEW d \in DOMAIN wt
      PROVE  /\ wt[d].value + wt[d].size <= FilledIn(wt, wt[d].shndx)
             /\ d = Len(wt) => wt[d].value + wt[d].size = FilledIn(wt, wt[d].shndx)
  <2>1. CASE d \in DOMAIN st
    <3>1. wt[d] = st[d] /\ d # Len(wt)
      BY <1>3, <1>5, <2>1
    <3>2. st[d].value + st[d].size <= FilledIn(st, st[d].shndx)
      BY <2>1 DEF Stacked
    <3> QED
      BY <1>2, <1>5, <2>1, <3>1, <3>2
  <2>2. CASE d = Len(st) + 1
    <3>1. wt[d] = e
      BY <1>3, <2>2
    <3>2. e.value + e.size = FilledIn(wt, e.shndx)
      BY <1>2, <1>6
    <3> QED
      BY <1>2, <1>6, <3>1, <3>2
  <2> QED
    BY <1>4, <2>1, <2>2
<1> QED
  BY <1>7, <1>8 DEF Stacked

LEMMA GaplessStep ==
  ASSUME NEW st \in Seq(Symbols), Gapless(st), NEW e \in Symbols, e.value = FilledIn(st, e.shndx),
         NEW wt, wt = Append(st, e)
  PROVE  Gapless(wt)
<1>1. Grown(st, wt, e)
  BY AppendCounts
<1>2. /\ DOMAIN st \subseteq DOMAIN wt /\ Len(st) + 1 \in DOMAIN wt /\ wt[Len(st) + 1] = e
      /\ \A d \in DOMAIN st : wt[d] = st[d]
  OBVIOUS
<1>3. SUFFICES ASSUME NEW section \in Contents, NEW row \in Nat, row < FilledIn(wt, section)
               PROVE  \E d \in DOMAIN wt : /\ wt[d].shndx = section /\ wt[d].value <= row
                                            /\ row < wt[d].value + wt[d].size
  BY DEF Gapless
<1>4. CASE row < FilledIn(st, section)
  <2>1. PICK d \in DOMAIN st : /\ st[d].shndx = section /\ st[d].value <= row
                               /\ row < st[d].value + st[d].size
    BY <1>4 DEF Gapless
  <2> QED
    BY <1>2, <2>1
<1>5. CASE ~(row < FilledIn(st, section))
  <2>1. FilledIn(st, section) \in Nat /\ FilledIn(wt, section) \in Nat /\ e.size \in Nat
    BY <1>1 DEF Grown, Symbols
  <2>2. e.shndx = section /\ FilledIn(wt, section) = FilledIn(st, section) + e.size
    BY <1>1, <1>3, <1>5 DEF Grown
  <2>3. e.value <= row /\ row < e.value + e.size
    BY <1>3, <1>5, <2>1, <2>2
  <2> QED
    BY <1>2, <2>2, <2>3
<1> QED
  BY <1>4, <1>5

LEMMA OrderedStep ==
  ASSUME NEW m, Ordered(m), NEW n \in Nat, NEW s \in 1 .. 3, NEW k \in EntriesIn(m, Sections[s]),
         \A l \in DOMAIN m : m[l].dst \in 0 .. n,
         \A t \in 1 .. 3 : \A l \in EntriesIn(m, Sections[t]) :
           m[l].dst # 0 => Precedes(VisitOf(m, l, t), VisitOf(m, k, s)),
         NEW w, Marks(m, w, k, n + 1)
  PROVE  Ordered(w)
<1>1. /\ DOMAIN w = DOMAIN m
      /\ \A l \in DOMAIN m : w[l].src = m[l].src
      /\ \A l \in DOMAIN m : w[l].dst = IF l = k THEN n + 1 ELSE m[l].dst
  BY DEF Marks
<1>2. \A section : EntriesIn(w, section) = EntriesIn(m, section)
  BY <1>1 DEF EntriesIn, SrcOf
<1>3. \A l \in DOMAIN m : \A t : VisitOf(w, l, t) = VisitOf(m, l, t)
  BY <1>1 DEF VisitOf
<1>4. SUFFICES ASSUME NEW a \in DOMAIN m, NEW b \in DOMAIN m, NEW t \in 1 .. 3, NEW u \in 1 .. 3,
                      a \in EntriesIn(m, Sections[t]), b \in EntriesIn(m, Sections[u]),
                      w[a].dst # 0, w[a].dst < w[b].dst
               PROVE  Precedes(VisitOf(m, a, t), VisitOf(m, b, u))
  BY <1>1, <1>2, <1>3 DEF Ordered
<1>5. a # k
  BY <1>1, <1>4
<1>6. m[a].dst # 0
  BY <1>1, <1>4, <1>5
<1>7. CASE b = k
  <2>1. Sections[u] = Sections[s]
    BY <1>4, <1>7 DEF EntriesIn
  <2>2. u = s
    BY <2>1, SectionFacts
  <2> QED
    BY <1>4, <1>6, <1>7, <2>2
<1>8. CASE b # k
  BY <1>1, <1>4, <1>5, <1>6, <1>8 DEF Ordered
<1> QED
  BY <1>7, <1>8

\* What is visited in a section comes before what is left of it.
LEMMA VisitOrder ==
  ASSUME TypeOK, DOMAIN sht \subseteq 1 .. 4, InOrder(smap, todo), Lexical(todo),
         NEW s \in 1 .. 3, NEW k \in EntriesIn(smap, Sections[s]), Visits(VisitOf(smap, k, s)),
         NEW t \in 1 .. 3, NEW l \in EntriesIn(smap, Sections[t])
  PROVE  /\ smap[l].dst # 0 => Precedes(VisitOf(smap, l, t), VisitOf(smap, k, s))
         /\ smap[l].dst = 0 => \/ VisitOf(smap, l, t) = VisitOf(smap, k, s)
                               \/ Precedes(VisitOf(smap, k, s), VisitOf(smap, l, t))
<1>1. l \in DOMAIN smap /\ smap[l].src \in SymbolIds
  BY MapSizes DEF EntriesIn
<1>2. t \in DOMAIN sht /\ (smap[l].dst # 0 <=> VisitOf(smap, l, t) \notin todo)
  BY DEF InOrder
<1>3. VisitOf(smap, l, t) \in MergeIds
  BY <1>1, <1>2 DEF MergeIds, VisitOf
<1>4. VisitOf(smap, k, s) \in todo
  BY DEF Visits
<1> QED
  BY <1>2, <1>3, <1>4 DEF Lexical, Visits

LEMMA VisitNumbers ==
  ASSUME TypeOK, NEW k \in DOMAIN smap, NEW l \in DOMAIN smap, NEW s \in 1 .. 3, NEW t \in 1 .. 3
  PROVE  /\ smap[k].src[1] \in Int /\ smap[k].src[2] \in Int
         /\ smap[l].src[1] \in Int /\ smap[l].src[2] \in Int
         /\ Precedes(VisitOf(smap, k, s), VisitOf(smap, l, t))
              <=> \/ s < t
                  \/ s = t /\ (\/ smap[k].src[1] < smap[l].src[1]
                               \/ smap[k].src[1] = smap[l].src[1] /\ smap[k].src[2] < smap[l].src[2])
<1>1. smap[k].src \in SymbolIds /\ smap[l].src \in SymbolIds
  BY MapSizes
<1>2. \A id \in SymbolIds : id[1] \in Int /\ id[2] \in Int
  <2>1. DOMAIN srcs = 1 .. Len(srcs) /\ \A i \in DOMAIN srcs : srcs[i] \in Files
    BY SymbolTypes DEF TypeOK
  <2>2. \A i \in DOMAIN srcs : DOMAIN srcs[i].symt = 1 .. Len(srcs[i].symt)
    BY <2>1 DEF Files
  <2>3. DOMAIN srcs \subseteq Int /\ \A i \in DOMAIN srcs : DOMAIN srcs[i].symt \subseteq Int
    BY <2>1, <2>2
  <2> QED
    BY <2>3, SymbolTypes DEF TypeOK
<1> DEFINE a == smap[k].src[1]
           b == smap[k].src[2]
           p == smap[l].src[1]
           q == smap[l].src[2]
<1>3. a \in Int /\ b \in Int /\ p \in Int /\ q \in Int
  BY <1>1, <1>2
<1>4. VisitOf(smap, k, s) = <<s, a, b>> /\ VisitOf(smap, l, t) = <<t, p, q>>
  BY DEF VisitOf
<1> HIDE DEF a, b, p, q
<1>5. Precedes(<<s, a, b>>, <<t, p, q>>) <=> s < t \/ (s = t /\ (a < p \/ (a = p /\ b < q)))
  BY <1>3, PrecedesMeans
<1> QED
  BY <1>3, <1>4, <1>5 DEF a, b, p, q

LEMMA LexicalStep ==
  ASSUME Lexical(todo), NEW x, Visits(x), NEW td, td = todo \ {x}
  PROVE  Lexical(td)
<1>1. \A b \in td : b \in todo /\ Precedes(x, b)
  BY DEF Visits
<1>2. \A a \in MergeIds \ td : a \in MergeIds \ todo \/ a = x
  OBVIOUS
<1> QED
  BY <1>1, <1>2 DEF Lexical

LEMMA MergeSymbolStacks ==
  ASSUME ReadInv, MergeInv, StackInv,
         NEW s \in DOMAIN Sections, NEW id \in SymbolIds, MergeSymbol(s, id)
  PROVE  StackInv'
<1> DEFINE x == <<s, id[1], id[2]>>
<1>1. pc = "merge" /\ Visits(x) /\ Sym(id).shndx = Sections[s]
  BY DEF MergeSymbol, Merging, Merges
<1>2. CASE pc' = "toolong"
  BY <1>2 DEF StackInv
<1>3. CASE pc' # "toolong"
  <2>1. pc' = "merge" /\ todo' = todo \ {x} /\ srcs' = srcs /\ sht' = sht
    BY <1>1, <1>3, Zenon DEF MergeSymbol, Stop
  <2>2. /\ DOMAIN smap' = DOMAIN smap
        /\ \A k \in DOMAIN smap :
             /\ smap'[k].src = smap[k].src
             /\ smap'[k].dst = IF smap[k].src = id THEN Len(symt) + 1 ELSE smap[k].dst
    BY <1>3, MergeSteps
  <2>3. PICK e \in Symbols :
          /\ symt' = Append(symt, e) /\ e.size = Sym(id).size /\ e.shndx = Sym(id).shndx
          /\ e.value = FilledIn(symt, Sections[s])
          /\ IsCopy(e, Sym(id))
    BY <1>3, MergedTable
  <2>4. s \in 1 .. 3
    BY MergedEntry
  <2>5. PICK k \in EntriesIn(smap, Sections[s]) :
          /\ k \in DOMAIN smap /\ smap[k].src = id /\ smap[k].dst = 0
          /\ SrcOf(smap, k) = Sym(id) /\ VisitOf(smap, k, s) = x
          /\ \A l \in DOMAIN smap : smap[l].src = id <=> l = k
    BY MergedEntry
  <2>6. Marks(smap, smap', k, Len(symt) + 1)
    BY <2>2, <2>5 DEF Marks
  <2>7. /\ TypeOK /\ symt \in Seq(Symbols) /\ Len(symt) \in Nat
        /\ Numbered(smap, symt) /\ InOrder(smap, todo) /\ DOMAIN sht \subseteq 1 .. 4
        /\ Lexical(todo) /\ Stacked(symt) /\ Gapless(symt) /\ Ordered(smap)
    BY <1>1, VisitTypes DEF ReadInv, TypeOK, MergeInv, StackInv
  <2> HIDE DEF x
  <2>8. Lexical(todo')
    BY <1>1, <2>1, <2>7, LexicalStep
  <2>9. Stacked(symt')
    BY <1>1, <2>3, <2>7, StackedStep
  <2>10. Ordered(smap')
    <3>1. \A t \in 1 .. 3 : \A l \in EntriesIn(smap, Sections[t]) :
            smap[l].dst # 0 => Precedes(VisitOf(smap, l, t), VisitOf(smap, k, s))
      BY <1>1, <2>4, <2>5, <2>7, VisitOrder
    <3>2. \A l \in DOMAIN smap : smap[l].dst \in 0 .. Len(symt)
      BY <2>7 DEF Numbered
    <3> QED
      BY <2>4, <2>5, <2>6, <2>7, <3>1, <3>2, OrderedStep
  <2>11. Gapless(symt')
    BY <1>1, <2>3, <2>7, GaplessStep
  <2> QED
    BY <2>1, <2>2, <2>8, <2>9, <2>10, <2>11, NextStack DEF StackInv
<1> QED
  BY <1>2, <1>3

\* A step that leaves the map and the table alone.
LEMMA StackKept ==
  ASSUME StackInv, pc \in {"merge", "relocate", "done"}, UNCHANGED <<srcs, smap, sht, symt>>,
         pc' = "merge" => Lexical(todo')
  PROVE  StackInv'
<1>1. Stacked(symt) /\ Gapless(symt) /\ Ordered(smap)
  BY DEF StackInv
<1>2. smap' = smap /\ symt' = symt
  OBVIOUS
<1>3. Stacked(symt') /\ Gapless(symt') /\ Ordered(smap')
  BY <1>1, <1>2
<1>4. Stacked(symt)' /\ Gapless(symt)' /\ Ordered(smap)' /\ (pc' = "merge" => Lexical(todo)')
  BY <1>3, NextStack
<1> QED
  BY <1>4 DEF StackInv

\* Nothing has been visited, and the table is empty.
LEMMA HeadersStack ==
  ASSUME ReadInv, compute_section_header
  PROVE  StackInv'
<1>1. /\ srcs' = srcs /\ smap' = smap /\ symt' = <<>> /\ sht' = Headers
      /\ todo' = {<<s, id[1], id[2]>> : s \in Present, id \in SymbolIds}
      /\ \A k \in DOMAIN smap : smap[k].dst = 0
  BY DEF ReadInv, Reading, compute_section_header, Entries
<1>2. SymbolIds' = SymbolIds /\ DOMAIN Headers = Present
  BY <1>1, SameSymbols DEF Headers
<1>3. MergeIds' = todo'
  BY <1>1, <1>2 DEF MergeIds
<1>4. Lexical(todo)'
  BY <1>3 DEF Lexical
<1>5. Stacked(symt)'
  BY <1>1 DEF Stacked
<1>6. \A k \in DOMAIN smap' : smap'[k].dst = 0
  BY <1>1
<1>7. Ordered(smap)'
  BY <1>6 DEF Ordered
<1>8. \A section : FilledIn(symt, section)' = 0
  <2>1. \A section : {d \in DOMAIN symt' : symt'[d].shndx = section} = {}
    BY <1>1
  <2> QED
    BY <2>1, SumEmpty DEF FilledIn
<1>9. Gapless(symt)'
  BY <1>8 DEF Gapless
<1> QED
  BY <1>4, <1>5, <1>7, <1>9 DEF StackInv

LEMMA StepStacks ==
  ASSUME ReadInv, MergeInv, StackInv, [Next]_vars
  PROVE  StackInv'
<1>1. CASE UNCHANGED vars
  <2>1. UNCHANGED <<srcs, smap, sht, symt>> /\ todo' = todo /\ pc' = pc
    BY <1>1 DEF vars
  <2>2. CASE pc \in {"merge", "relocate", "done"}
    BY <2>1, <2>2, StackKept DEF StackInv
  <2> QED
    BY <2>1, <2>2 DEF StackInv
<1>2. CASE Next /\ pc = "symbols"
  <2>1. pc' \in {"symbols", "headers"} \cup Refusals
    BY <1>2, ReadingStays
  <2> QED
    BY <2>1 DEF StackInv, Refusals
<1>3. CASE Next /\ pc # "symbols"
  <2>1. \/ compute_section_header
        \/ \E s \in DOMAIN Sections, id \in SymbolIds : MergeSymbol(s, id) \/ PassUnmerged(s, id)
        \/ WriteSymtab
        \/ \E r \in RelocationIds : Relocate(r) \/ PassRelocation(r)
        \/ Finish
    BY <1>3 DEF Next, InsertSymbol, ResolveSymbol, PassWeak, Processing, CleanUp
  <2>2. ASSUME NEW s \in DOMAIN Sections, NEW id \in SymbolIds, PassUnmerged(s, id)
        PROVE  StackInv'
    <3> DEFINE x == <<s, id[1], id[2]>>
    <3>1. /\ pc = "merge" /\ Visits(x) /\ todo' = todo \ {x}
          /\ UNCHANGED <<srcs, smap, sht, symt>>
      BY <2>2 DEF PassUnmerged, Merging
    <3> HIDE DEF x
    <3>2. Lexical(todo')
      BY <3>1, LexicalStep DEF StackInv
    <3> QED
      BY <3>1, <3>2, StackKept
  <2>3. CASE WriteSymtab
    <3>1. /\ pc = "merge" /\ pc' \in {"relocate", "overrun", "unset", "miscounted"}
          /\ UNCHANGED <<srcs, smap, sht, symt>>
      BY <2>3, LaterSteps DEF WriteSymtab, Stop
    <3> QED
      BY <3>1, StackKept
  <2>4. ASSUME NEW r \in RelocationIds, Relocate(r) \/ PassRelocation(r) PROVE StackInv'
    <3>1. /\ pc = "relocate" /\ pc' # "merge" /\ UNCHANGED <<srcs, smap, sht, symt>>
      BY <2>4, LaterSteps DEF Relocate, PassRelocation, Stop
    <3> QED
      BY <3>1, StackKept
  <2>5. CASE Finish
    <3>1. pc = "relocate" /\ pc' = "done" /\ UNCHANGED <<srcs, smap, sht, symt>>
      BY <2>5 DEF Finish, Stop
    <3> QED
      BY <3>1, StackKept
  <2> QED
    BY <2>1, <2>2, <2>3, <2>4, <2>5, HeadersStack, MergeSymbolStacks
<1> QED
  BY <1>1, <1>2, <1>3

\* The symbols of dst lie one behind the other and fill their sections without a
\* gap, in the order of the files and of the symbols in them (merge_section).
THEOREM StackInvHolds == Spec => [](ReadInv /\ MergeInv /\ StackInv)
<1>1. Init => StackInv
  BY DEF Init, StackInv
<1>2. ReadInv /\ MergeInv /\ StackInv /\ [Next]_vars => StackInv'
  BY StepStacks
<1> QED
  BY <1>1, <1>2, MergeInvHolds, PTL DEF Spec

-----------------------------------------------------------------------------
(* The lines that are patched                                              *)

\* The entries of .data are numbered in the order of the files and their symbols.
LEMMA DataOrder ==
  ASSUME ReadInv, MergeInv, StackInv, pc = "relocate",
         NEW k \in EntriesIn(smap, ".data"), NEW l \in EntriesIn(smap, ".data")
  PROVE  /\ smap[k].dst < smap[l].dst
              <=> \/ smap[k].src[1] < smap[l].src[1]
                  \/ smap[k].src[1] = smap[l].src[1] /\ smap[k].src[2] < smap[l].src[2]
         /\ smap[k].dst \in Int /\ smap[l].dst \in Int
         /\ smap[k].src[1] \in Int /\ smap[k].src[2] \in Int
         /\ smap[l].src[1] \in Int /\ smap[l].src[2] \in Int
         /\ smap[k].dst = smap[l].dst => k = l
<1>1. /\ TypeOK /\ Ordered(smap) /\ Numbered(smap, symt)
      /\ \A e \in DOMAIN smap : smap[e].dst # 0
  BY DEF ReadInv, MergeInv, StackInv
<1>2. k \in DOMAIN smap /\ l \in DOMAIN smap /\ Sections[3] = ".data" /\ 3 \in 1 .. 3
  BY SectionFacts DEF EntriesIn
<1>3. /\ smap[k].src[1] \in Int /\ smap[k].src[2] \in Int
      /\ smap[l].src[1] \in Int /\ smap[l].src[2] \in Int
  BY <1>1, <1>2, VisitNumbers
<1>4. smap[k].dst \in Int /\ smap[l].dst \in Int
  <2>1. Len(symt) \in Nat
    BY <1>1 DEF TypeOK
  <2> QED
    BY <1>1, <1>2, <2>1 DEF Numbered
<1>5. smap[k].dst = smap[l].dst => k = l
  BY <1>1, <1>2 DEF Numbered
<1>6. ASSUME NEW a \in EntriesIn(smap, ".data"), NEW b \in EntriesIn(smap, ".data"),
             smap[a].dst < smap[b].dst
      PROVE  \/ smap[a].src[1] < smap[b].src[1]
             \/ smap[a].src[1] = smap[b].src[1] /\ smap[a].src[2] < smap[b].src[2]
  <2>1. a \in DOMAIN smap /\ b \in DOMAIN smap
    BY DEF EntriesIn
  <2>2. Precedes(VisitOf(smap, a, 3), VisitOf(smap, b, 3))
    BY <1>1, <1>2, <1>6, <2>1 DEF Ordered
  <2> QED
    BY <1>1, <1>2, <2>1, <2>2, VisitNumbers
<1>7. smap[k].dst < smap[l].dst
        => \/ smap[k].src[1] < smap[l].src[1]
           \/ smap[k].src[1] = smap[l].src[1] /\ smap[k].src[2] < smap[l].src[2]
  BY <1>6
<1>8. smap[l].dst < smap[k].dst
        => \/ smap[l].src[1] < smap[k].src[1]
           \/ smap[l].src[1] = smap[k].src[1] /\ smap[l].src[2] < smap[k].src[2]
  BY <1>6
<1>9. ~(smap[k].dst < smap[l].dst)
        => ~(\/ smap[k].src[1] < smap[l].src[1]
             \/ smap[k].src[1] = smap[l].src[1] /\ smap[k].src[2] < smap[l].src[2])
  <2>1. CASE smap[k].dst = smap[l].dst
    BY <1>3, <1>5, <2>1
  <2>2. CASE smap[l].dst < smap[k].dst
    BY <1>3, <1>8, <2>2
  <2> QED
    BY <1>4, <2>1, <2>2
<1> QED
  BY <1>3, <1>4, <1>5, <1>7, <1>9

\* Where .data is in dst: behind the other sections, up to the last line.
LEMMA DataLines ==
  ASSUME ReadInv, MergeInv, pc = "relocate"
  PROVE  /\ FilledIn(symt, ".data") = CountOf(".data")
         /\ CountOf(".data") \in Nat /\ Start \in Nat /\ Before(".data") \in Nat
         /\ \A row \in Nat : Start + Before(".data") + row \in DOMAIN lines
                               <=> row < CountOf(".data")
<1>1. /\ TypeOK /\ Counted(smap, symt) /\ Copied(smap, symt, lines)
      /\ \A k \in DOMAIN smap : smap[k].dst # 0
  BY DEF ReadInv, MergeInv
<1>2. ASSUME NEW section \in Contents PROVE FilledIn(symt, section) = CountOf(section)
  <2>1. MergedIn(smap, section) = EntriesIn(smap, section)
    BY <1>1 DEF MergedIn, EntriesIn
  <2> QED
    BY <1>1, <2>1, CountTypes DEF Counted
<1>3. TotalOf(symt) = CountOf(".text") + CountOf(".rodata") + CountOf(".data")
  BY <1>1, <1>2 DEF Counted, Contents
<1>4. /\ Before(".data") = CountOf(".text") + CountOf(".rodata")
      /\ CountOf(".text") \in Nat /\ CountOf(".rodata") \in Nat /\ CountOf(".data") \in Nat
  BY <1>1, CountTypes DEF Before
<1>5. Start \in Nat
  <2>1. sht = Headers
    BY DEF MergeInv
  <2> QED
    BY <1>1, <2>1, PresentFinite DEF Start, Headers
<1>6. DOMAIN lines = Start .. Start + TotalOf(symt) - 1
  BY <1>1 DEF Copied
<1>7. \A row \in Nat : Start + Before(".data") + row \in DOMAIN lines <=> row < CountOf(".data")
  BY <1>3, <1>4, <1>5, <1>6
<1> QED
  BY <1>2, <1>4, <1>5, <1>7 DEF Contents

\* The entry that begins on the line behind a symbol of .data is the next one.
LEMMA NextBegins ==
  ASSUME ReadInv, MergeInv, StackInv, pc = "relocate", NEW k \in EntriesIn(smap, ".data"),
         NEW row, row = symt[smap[k].dst].value + symt[smap[k].dst].size,
         row < CountOf(".data")
  PROVE  \E m \in EntriesIn(smap, ".data") :
           /\ symt[smap[m].dst].value = row /\ smap[k].dst < smap[m].dst
           /\ \A e \in EntriesIn(smap, ".data") :
                ~(smap[k].dst < smap[e].dst /\ smap[e].dst < smap[m].dst)
<1>1. /\ TypeOK /\ Numbered(smap, symt) /\ Stacked(symt) /\ Gapless(symt)
      /\ \A e \in DOMAIN smap : smap[e].dst # 0
  BY DEF ReadInv, MergeInv, StackInv
<1>2. ASSUME NEW e \in EntriesIn(smap, ".data")
      PROVE  /\ e \in DOMAIN smap /\ smap[e].dst \in DOMAIN symt
             /\ symt[smap[e].dst].shndx = ".data" /\ symt[smap[e].dst].size # 0
             /\ symt[smap[e].dst].value \in Nat /\ symt[smap[e].dst].size \in Nat
  <2>1. e \in DOMAIN smap /\ SrcOf(smap, e).shndx = ".data"
    BY DEF EntriesIn
  <2>2. /\ smap[e].dst \in DOMAIN symt /\ symt[smap[e].dst] \in Symbols
        /\ symt[smap[e].dst].shndx = ".data" /\ symt[smap[e].dst].size # 0
    BY <2>1, EntryFacts
  <2> QED
    BY <2>1, <2>2 DEF Symbols
<1>3. row \in Nat
  BY <1>2
<1>4. PICK d \in DOMAIN symt : /\ symt[d].shndx = ".data"
                               /\ symt[d].value <= row /\ row < symt[d].value + symt[d].size
  BY <1>1, <1>3, DataLines DEF Gapless, Contents
<1>5. d \in 1 .. Len(symt)
  BY <1>1 DEF TypeOK
<1>6. PICK m \in DOMAIN smap : smap[m].dst = d
  BY <1>1, <1>5 DEF Numbered
<1>7. m \in EntriesIn(smap, ".data")
  <2>1. symt[d].shndx = SrcOf(smap, m).shndx
    BY <1>6, EntryFacts
  <2> QED
    BY <1>4, <2>1 DEF EntriesIn
<1>8. \A a, b \in EntriesIn(smap, ".data") :
        smap[a].dst < smap[b].dst =>
          symt[smap[a].dst].value + symt[smap[a].dst].size <= symt[smap[b].dst].value
  BY <1>1, <1>2 DEF Stacked
<1>9. symt[d].value \in Nat /\ symt[d].size \in Nat
  BY <1>2, <1>6, <1>7
<1>10. smap[k].dst < smap[m].dst
  <2>1. smap[k].dst \in Int /\ smap[m].dst \in Int
    BY <1>7, DataOrder
  <2>2. smap[k].dst # smap[m].dst
    BY <1>2, <1>4, <1>6
  <2>3. ~(smap[m].dst < smap[k].dst)
    BY <1>2, <1>4, <1>6, <1>7, <1>8, <1>9
  <2> QED
    BY <2>1, <2>2, <2>3
<1>11. symt[smap[m].dst].value = row
  BY <1>3, <1>4, <1>6, <1>7, <1>8, <1>9, <1>10
<1>12. ASSUME NEW e \in EntriesIn(smap, ".data"),
              smap[k].dst < smap[e].dst, smap[e].dst < smap[m].dst
       PROVE  FALSE
  <2>1. row <= symt[smap[e].dst].value
    BY <1>8, <1>12
  <2>2. symt[smap[e].dst].value + symt[smap[e].dst].size <= row
    BY <1>7, <1>8, <1>11, <1>12
  <2> QED
    BY <1>2, <1>3, <2>1, <2>2
<1> QED
  BY <1>7, <1>10, <1>11, <1>12

\* What is behind the symbol a relocation of .data is attributed to.
LEMMA BehindIs ==
  ASSUME ReadInv, MergeInv, pc = "relocate", NEW r \in RelocationIds, SectionOf(r) = ".data",
         Referencing(r) # {}
  PROVE  /\ Behind(r) \in SUBSET Nat
         /\ \A e \in EntriesIn(smap, ".data") :
              smap[e].src[1] = r[1] /\ smap[e].src[2] > Least(Referencing(r))
                => /\ smap[e].src[2] \in Behind(r)
                   /\ SrcOf(smap, e) = srcs[r[1]].symt[smap[e].src[2]]
         /\ \A b \in Behind(r) :
              /\ b > Least(Referencing(r))
              /\ \E e \in EntriesIn(smap, ".data") :
                   /\ smap[e].src[1] = r[1] /\ smap[e].src[2] = b
                   /\ SrcOf(smap, e) = srcs[r[1]].symt[b]
<1>1. TypeOK
  BY DEF ReadInv
<1>2. r[1] \in DOMAIN srcs /\ srcs[r[1]] \in Files
  BY <1>1, RelocationTypes, SymbolTypes DEF TypeOK
<1>3. DOMAIN srcs[r[1]].symt \in SUBSET Nat
  <2>1. srcs[r[1]].symt \in Seq(Symbols)
    BY <1>2 DEF Files
  <2> QED
    BY <2>1
<1>4. Behind(r) \in SUBSET Nat
  BY <1>3 DEF Behind
<1>5. ASSUME NEW e \in EntriesIn(smap, ".data"),
             smap[e].src[1] = r[1], smap[e].src[2] > Least(Referencing(r))
      PROVE  /\ smap[e].src[2] \in Behind(r)
             /\ SrcOf(smap, e) = srcs[r[1]].symt[smap[e].src[2]]
  <2>1. e \in DOMAIN smap /\ SrcOf(smap, e).shndx = ".data"
    BY DEF EntriesIn
  <2>2. smap[e].src \in SymbolIds
    BY <1>1, <2>1, MapSizes
  <2>3. PICK i \in DOMAIN srcs : \E j \in DOMAIN srcs[i].symt : smap[e].src = <<i, j>>
    BY <2>2, Zenon DEF SymbolIds
  <2>4. PICK j \in DOMAIN srcs[i].symt : smap[e].src = <<i, j>>
    BY <2>3
  <2>5. i = r[1] /\ j = smap[e].src[2]
    BY <1>5, <2>4
  <2>6. SrcOf(smap, e) = srcs[r[1]].symt[j]
    BY <2>4, <2>5 DEF SrcOf, Sym
  <2>7. Chosen(<<r[1], j>>)
    BY <2>1, <2>4, <2>5 DEF Chosen, Entries
  <2> QED
    BY <1>5, <2>1, <2>4, <2>5, <2>6, <2>7 DEF Behind
<1>6. ASSUME NEW b \in Behind(r)
      PROVE  /\ b > Least(Referencing(r))
             /\ \E e \in EntriesIn(smap, ".data") :
                  /\ smap[e].src[1] = r[1] /\ smap[e].src[2] = b
                  /\ SrcOf(smap, e) = srcs[r[1]].symt[b]
  <2>1. /\ b \in DOMAIN srcs[r[1]].symt /\ b > Least(Referencing(r))
        /\ srcs[r[1]].symt[b].shndx = ".data" /\ Chosen(<<r[1], b>>)
    BY DEF Behind
  <2>2. PICK e \in DOMAIN smap : smap[e].src = <<r[1], b>>
    BY <2>1 DEF Chosen, Entries
  <2>3. SrcOf(smap, e) = srcs[r[1]].symt[b] /\ smap[e].src[1] = r[1] /\ smap[e].src[2] = b
    BY <2>2 DEF SrcOf, Sym
  <2> QED
    BY <2>1, <2>2, <2>3 DEF EntriesIn
<1> QED
  BY <1>4, <1>5, <1>6

\* The line n of dst is the copy of the one that the relocation is about.
OwnLine(r, n) == n \in DOMAIN lines /\ lines[n] = <<r[1], SectionOf(r), Rel(r).row>>

\* A line of .data behind the symbol that is patched is the relocation's own if and
\* only if the symbol that the merge puts there is the one it stands in.
LEMMA LineBehind ==
  ASSUME ReadInv, MergeInv, StackInv, pc = "relocate", NEW r \in RelocationIds,
         SectionOf(r) = ".data", Referencing(r) # {}, Rel(r).row \in Int,
         NEW k \in EntriesIn(smap, ".data"), smap[k].src = <<r[1], Least(Referencing(r))>>,
         NEW row, row = symt[smap[k].dst].value + symt[smap[k].dst].size
  PROVE  OwnLine(r, Start + Before(".data") + row)
           <=> /\ Behind(r) # {}
               /\ srcs[r[1]].symt[Least(Behind(r))].value = Rel(r).row
<1> DEFINE line == Start + Before(".data") + row
           j == Least(Referencing(r))
<1>1. smap[k].src[1] = r[1] /\ smap[k].src[2] = j
  OBVIOUS
<1>2. ASSUME NEW e \in EntriesIn(smap, ".data")
      PROVE  /\ e \in DOMAIN smap /\ SrcOf(smap, e).shndx = ".data"
             /\ SrcOf(smap, e).value \in Nat
             /\ smap[e].dst \in DOMAIN symt /\ symt[smap[e].dst].shndx = ".data"
             /\ symt[smap[e].dst].value \in Nat /\ symt[smap[e].dst].size \in Nat \ {0}
             /\ symt[smap[e].dst].value + symt[smap[e].dst].size <= CountOf(".data")
             /\ Found(SrcOf(smap, e), smap[e].src, symt[smap[e].dst], lines)
  <2>1. e \in DOMAIN smap /\ SrcOf(smap, e).shndx = ".data"
    BY DEF EntriesIn
  <2> DEFINE sym == symt[smap[e].dst]
             src == SrcOf(smap, e)
  <2>2. /\ smap[e].dst \in DOMAIN symt /\ sym \in Symbols /\ src \in Symbols
        /\ sym.shndx = src.shndx /\ sym.size = src.size /\ src.size # 0
        /\ sym.value + sym.size <= CountOf(src.shndx)
        /\ Found(src, smap[e].src, sym, lines)
    BY <2>1, EntryFacts
  <2>3. src.shndx = ".data"
    BY <2>1
  <2> HIDE DEF sym, src
  <2>4. sym.value \in Nat /\ sym.size \in Nat \ {0} /\ src.value \in Nat
    BY <2>2 DEF Symbols
  <2> QED
    BY <2>1, <2>2, <2>3, <2>4 DEF sym, src
<1>3. row \in Nat /\ CountOf(".data") \in Nat /\ Start \in Nat /\ Before(".data") \in Nat
  BY <1>2, DataLines
<1>4. line \in DOMAIN lines <=> row < CountOf(".data")
  BY <1>3, DataLines
<1>5. ASSUME NEW m \in EntriesIn(smap, ".data"), symt[smap[m].dst].value = row
      PROVE  lines[line] = <<smap[m].src[1], ".data", SrcOf(smap, m).value>>
  <2> DEFINE src == SrcOf(smap, m)
             sym == symt[smap[m].dst]
  <2>1. /\ Found(src, smap[m].src, sym, lines) /\ 0 \in Nat /\ 0 < sym.size
        /\ src.shndx = ".data" /\ src.value \in Nat /\ sym.value = row
    BY <1>2, <1>5
  <2> HIDE DEF src, sym
  <2>2. lines[Start + Before(src.shndx) + sym.value + 0]
          = <<smap[m].src[1], src.shndx, src.value + 0>>
    BY <2>1 DEF Found
  <2>3. Start + Before(".data") + sym.value + 0 = line /\ src.value + 0 = src.value
    BY <1>3, <2>1
  <2> QED
    BY <2>1, <2>2, <2>3 DEF src
<1>6. ASSUME OwnLine(r, line)
      PROVE  Behind(r) # {} /\ srcs[r[1]].symt[Least(Behind(r))].value = Rel(r).row
  <2>1. row < CountOf(".data") /\ lines[line] = <<r[1], ".data", Rel(r).row>>
    BY <1>4, <1>6 DEF OwnLine
  <2>2. PICK m \in EntriesIn(smap, ".data") :
          /\ symt[smap[m].dst].value = row /\ smap[k].dst < smap[m].dst
          /\ \A e \in EntriesIn(smap, ".data") :
               ~(smap[k].dst < smap[e].dst /\ smap[e].dst < smap[m].dst)
    BY <2>1, NextBegins
  <2>3. smap[m].src[1] = r[1] /\ SrcOf(smap, m).value = Rel(r).row
    BY <1>5, <2>1, <2>2
  <2>4. smap[m].src[2] > j
    BY <1>1, <2>2, <2>3, DataOrder
  <2>5. /\ smap[m].src[2] \in Behind(r)
        /\ SrcOf(smap, m) = srcs[r[1]].symt[smap[m].src[2]]
    BY <2>3, <2>4, BehindIs
  <2>6. ASSUME NEW b \in Behind(r) PROVE smap[m].src[2] <= b
    <3>1. PICK e \in EntriesIn(smap, ".data") : smap[e].src[1] = r[1] /\ smap[e].src[2] = b
      BY BehindIs
    <3>2. b > j /\ b \in Int
      BY BehindIs
    <3>3. smap[k].dst < smap[e].dst
      BY <1>1, <3>1, <3>2, DataOrder
    <3>4. ~(smap[e].dst < smap[m].dst)
      BY <2>2, <3>3
    <3>5. smap[e].dst < smap[m].dst \/ ~(smap[e].src[2] < smap[m].src[2])
      BY <2>3, <3>1, DataOrder
    <3>6. smap[m].src[2] \in Int
      BY DataOrder
    <3> QED
      BY <3>1, <3>2, <3>4, <3>5, <3>6
  <2>7. Least(Behind(r)) = smap[m].src[2]
    <3>1. Behind(r) \in SUBSET Nat
      BY BehindIs
    <3>2. /\ Least(Behind(r)) \in Behind(r)
          /\ \A b \in Behind(r) : Least(Behind(r)) <= b
      BY <2>5, <3>1, LeastIn
    <3> QED
      BY <2>5, <2>6, <3>1, <3>2
  <2> QED
    BY <2>3, <2>5, <2>7
<1>7. ASSUME Behind(r) # {}, srcs[r[1]].symt[Least(Behind(r))].value = Rel(r).row
      PROVE  OwnLine(r, line)
  <2> DEFINE b == Least(Behind(r))
  <2>1. b \in Behind(r) /\ (\A c \in Behind(r) : b <= c) /\ b \in Nat
    <3>1. Behind(r) \in SUBSET Nat
      BY BehindIs
    <3> QED
      BY <1>7, <3>1, LeastIn
  <2>2. PICK e \in EntriesIn(smap, ".data") :
          /\ smap[e].src[1] = r[1] /\ smap[e].src[2] = b
          /\ SrcOf(smap, e) = srcs[r[1]].symt[b]
    BY <2>1, BehindIs
  <2>3. b > j
    BY <2>1, BehindIs
  <2>4. SrcOf(smap, e).value = Rel(r).row
    BY <1>7, <2>2
  <2> HIDE DEF b, j, line
  <2>5. smap[k].dst < smap[e].dst
    BY <1>1, <2>2, <2>3, DataOrder
  <2>6. row <= symt[smap[e].dst].value
    <3>1. Stacked(symt)
      BY DEF StackInv
    <3> QED
      BY <1>2, <2>5, <3>1 DEF Stacked
  <2>7. row < CountOf(".data")
    <3>1. /\ symt[smap[e].dst].value \in Nat /\ symt[smap[e].dst].size \in Nat \ {0}
          /\ symt[smap[e].dst].value + symt[smap[e].dst].size <= CountOf(".data")
      BY <1>2
    <3> QED
      BY <1>3, <2>6, <3>1
  <2>8. PICK m \in EntriesIn(smap, ".data") :
          /\ symt[smap[m].dst].value = row /\ smap[k].dst < smap[m].dst
          /\ \A f \in EntriesIn(smap, ".data") :
               ~(smap[k].dst < smap[f].dst /\ smap[f].dst < smap[m].dst)
    BY <2>7, NextBegins
  <2>9. ~(smap[e].dst < smap[m].dst)
    BY <2>5, <2>8
  <2>10. ~(smap[m].dst < smap[e].dst)
    <3> SUFFICES ASSUME smap[m].dst < smap[e].dst PROVE FALSE
      OBVIOUS
    <3>1. \/ smap[k].src[1] < smap[m].src[1]
          \/ smap[k].src[1] = smap[m].src[1] /\ smap[k].src[2] < smap[m].src[2]
      BY <2>8, DataOrder
    <3>2. \/ smap[m].src[1] < smap[e].src[1]
          \/ smap[m].src[1] = smap[e].src[1] /\ smap[m].src[2] < smap[e].src[2]
      BY DataOrder
    <3>3. /\ smap[m].src[1] \in Int /\ smap[m].src[2] \in Int
          /\ smap[k].src[1] \in Int /\ smap[k].src[2] \in Int
      BY DataOrder
    <3>4. smap[m].src[1] = r[1] /\ smap[m].src[2] > j /\ smap[m].src[2] < b
      BY <1>1, <2>2, <3>1, <3>2, <3>3
    <3>5. smap[m].src[2] \in Behind(r)
      BY <3>4, BehindIs DEF j
    <3> QED
      BY <2>1, <3>3, <3>4, <3>5
  <2>11. m = e
    BY <2>9, <2>10, DataOrder
  <2>12. lines[line] = <<r[1], ".data", Rel(r).row>>
    BY <1>5, <2>2, <2>4, <2>8, <2>11
  <2> QED
    BY <1>4, <2>7, <2>12 DEF OwnLine
<1> QED
  BY <1>6, <1>7

\* The line that is patched, less what the header of .data has too much.
Hits(r, n) == Attributable(r) <=> OwnLine(r, n - Surplus(SectionOf(r)))

LEMMA PatchLands ==
  ASSUME ReadInv, MergeInv, StackInv, pc = "relocate", NEW r \in RelocationIds,
         Referencing(r) # {}, NEW j, j = Least(Referencing(r)), Chosen(<<r[1], j>>)
  PROVE  Hits(r, HeaderOf(SectionOf(r)).offset + RowIn(r, <<r[1], j>>))
<1> DEFINE id == <<r[1], j>>
<1>1. TypeOK /\ sht = Headers
  BY DEF ReadInv, MergeInv
<1>2. j \in Referencing(r)
  BY <1>1, FirstReferencing
<1>3. /\ id \in SymbolIds /\ Sym(id) \in Symbols /\ Sym(id) = srcs[r[1]].symt[j]
      /\ Sym(id).shndx = SectionOf(r) /\ Sym(id).size # 0 /\ Covers(r, Sym(id))
      /\ id[1] = r[1]
  BY <1>1, <1>2, ReferencingTypes
<1>4. Chosen(id) /\ id = <<r[1], Least(Referencing(r))>>
  OBVIOUS
<1>5. PICK k \in DOMAIN smap : smap[k].src = id /\ DstOf(id) = smap[k].dst
  BY <1>2, <1>4, PatchRow
<1>6. PICK s \in {1, 3} : s \in Present /\ Sections[s] = SectionOf(r)
  BY <1>2, <1>4, PatchRow
<1> HIDE DEF id
<1> DEFINE sym == symt[smap[k].dst]
           src == Sym(id)
           section == SectionOf(r)
           line == HeaderOf(section).offset + RowIn(r, id)
           first == Start + Before(section)
<1>7. SrcOf(smap, k) = src
  BY <1>5 DEF SrcOf
<1>8. /\ sym \in Symbols /\ sym.size = src.size /\ src.shndx = section
      /\ Found(src, id, sym, lines)
  BY <1>3, <1>5, <1>7, EntryFacts
<1>9. Rel(r).row \in Nat
  <2>1. Rel(r) \in Relocations
    BY <1>1, RelocationTypes
  <2> QED
    BY <2>1 DEF Relocations
<1>10. /\ HeaderOf(section).offset = first + Surplus(section)
       /\ Start \in Nat /\ Before(section) \in Nat /\ Surplus(section) \in Nat
  BY <1>1, <1>6, SectionStarts
<1>11. RowIn(r, id) = Rel(r).row - src.value + sym.value
  BY <1>5 DEF RowIn
<1>12. src.value \in Nat /\ src.size \in Nat /\ sym.value \in Nat /\ sym.size \in Nat
  BY <1>3, <1>8 DEF Symbols
<1>13. line - Surplus(section) = first + sym.value + (Rel(r).row - src.value)
  <2> HIDE DEF section, sym, src
  <2> QED
    BY <1>9, <1>10, <1>11, <1>12
<1>14. src.value <= Rel(r).row
  BY <1>3 DEF Covers
<1>15. CASE Rel(r).row < src.value + src.size
  <2> DEFINE l == Rel(r).row - src.value
  <2>1. l \in Nat /\ l < sym.size /\ src.value + l = Rel(r).row
    BY <1>8, <1>9, <1>12, <1>14, <1>15
  <2>2. LET n == Start + Before(src.shndx) + sym.value + l IN
        n \in DOMAIN lines /\ lines[n] = <<id[1], src.shndx, src.value + l>>
    BY <1>8, <2>1, Zenon DEF Found
  <2>3. OwnLine(r, line - Surplus(section))
    BY <1>3, <1>8, <1>13, <2>1, <2>2 DEF OwnLine
  <2>4. Attributable(r)
    BY <1>3, <1>15 DEF Attributable
  <2> QED
    BY <2>3, <2>4 DEF Hits, id
<1>16. CASE ~(Rel(r).row < src.value + src.size)
  <2>1. Rel(r).row = src.value + src.size /\ section = ".data"
    BY <1>3, <1>9, <1>12, <1>16 DEF Covers, SectionOf
  <2>2. k \in EntriesIn(smap, ".data")
    BY <1>7, <1>8, <2>1 DEF EntriesIn
  <2> DEFINE row == sym.value + sym.size
  <2>3. line - Surplus(section) = Start + Before(".data") + row
    <3> HIDE DEF sym, src, line
    <3> QED
      BY <1>8, <1>9, <1>10, <1>12, <1>13, <2>1
  <2>4. OwnLine(r, Start + Before(".data") + row)
           <=> /\ Behind(r) # {}
               /\ srcs[r[1]].symt[Least(Behind(r))].value = Rel(r).row
    <3>1. smap[k].src = <<r[1], Least(Referencing(r))>> /\ Rel(r).row \in Int
      BY <1>4, <1>5, <1>9
    <3> QED
      BY <2>1, <2>2, <3>1, LineBehind
  <2>5. Attributable(r) <=> /\ Behind(r) # {}
                            /\ srcs[r[1]].symt[Least(Behind(r))].value = Rel(r).row
    BY <1>3, <1>16 DEF Attributable
  <2> QED
    BY <2>3, <2>4, <2>5 DEF Hits, id
<1> QED
  BY <1>15, <1>16

-----------------------------------------------------------------------------
(* The addresses the patches are computed from                             *)

LEMMA Scaled ==
  ASSUME NEW a \in Nat, NEW b \in Nat, NEW c \in Nat, NEW n \in Nat, a + b <= c
  PROVE  /\ n * a + b * n <= n * c
         /\ n * a \in Nat /\ b * n \in Nat /\ n * c \in Nat
         /\ b # 0 /\ n # 0 => b * n # 0
<1> DEFINE d == c - (a + b)
<1>1. d \in Nat /\ c = a + b + d
  OBVIOUS
<1> HIDE DEF d
<1>2. n * c = n * a + b * n + n * d
  BY <1>1
<1>3. n * d \in Nat /\ n * a \in Nat /\ b * n \in Nat /\ n * c \in Nat
  BY <1>1
<1>4. b # 0 /\ n # 0 => b * n # 0
  OBVIOUS
<1> QED
  BY <1>2, <1>3, <1>4

Unit(section) == IF section = ".text" THEN InstSize ELSE DataSize

\* Where a section of dst begins at run time, by get_sym_runtime_address.
Base(section) ==
  CASE section = ".text"   -> TextBase
    [] section = ".rodata" -> TextBase + CountOf(".text") * InstSize
    [] section = ".data"   -> TextBase + CountOf(".text") * InstSize
                                + CountOf(".rodata") * DataSize * DataSize

\* The size in the section header, of a section that dst has.
LEMMA SizeInIs ==
  ASSUME TypeOK, sht = Headers, NEW s \in 1 .. 3
  PROVE  SizeIn(Sections[s]) = SizeAt(s)
<1> DEFINE f == [t \in DOMAIN sht |-> sht[t].size]
           T == {t \in DOMAIN sht : sht[t].name = Sections[s]}
<1>1. DOMAIN sht = Present /\ Present \subseteq 1 .. 4
  BY PresentFinite DEF Headers
<1>2. \A t \in Present : t \in DOMAIN sht /\ f[t] = SizeAt(t) /\ sht[t].name = Sections[t]
  BY <1>1, HeaderAt
<1>3. \A t \in Present : Sections[t] = Sections[s] <=> t = s
  BY <1>1, SectionFacts
<1>4. SizeIn(Sections[s]) = SumFunctionOnSet(f, T)
  BY DEF SizeIn
<1>5. \A t : t \in T <=> t \in Present /\ t = s
  BY <1>1, <1>2, <1>3
<1> HIDE DEF f, T
<1>6. SizeAt(s) \in Nat /\ (s \notin Present => SizeAt(s) = 0)
  BY HeaderSizes
<1>7. CASE s \in Present
  <2>1. T = {} \cup {s} /\ IsFiniteSet({})
    BY <1>5, <1>7, FS_EmptySet
  <2>2. f[s] = SizeAt(s)
    BY <1>2, <1>7
  <2>3. SumFunctionOnSet(f, {} \cup {s}) = SumFunctionOnSet(f, {}) + f[s]
    BY <1>6, <2>1, <2>2, SumAdd
  <2> QED
    BY <1>4, <1>6, <2>1, <2>2, <2>3, SumEmpty
<1>8. CASE s \notin Present
  <2>1. T = {}
    BY <1>5, <1>8
  <2> QED
    BY <1>4, <1>6, <1>8, <2>1, SumEmpty
<1> QED
  BY <1>7, <1>8

LEMMA AddressIs ==
  ASSUME TypeOK, sht = Headers, NEW sym \in Symbols, sym.shndx \in Contents
  PROVE  /\ RuntimeAddress(sym) = Base(sym.shndx) + Unit(sym.shndx) * sym.value
         /\ Extent(sym) = sym.size * Unit(sym.shndx)
<1>1. SizeIn(".text") = CountOf(".text") /\ SizeIn(".rodata") = CountOf(".rodata") * DataSize
  BY SizeInIs, SectionFacts, HeaderSizes
<1>2. Extent(sym) = sym.size * Unit(sym.shndx)
  BY DEF Extent, Unit
<1>3. CASE sym.shndx = ".text"
  BY <1>2, <1>3 DEF RuntimeAddress, Base, Unit
<1>4. CASE sym.shndx = ".rodata"
  BY <1>1, <1>2, <1>4 DEF RuntimeAddress, Base, Unit
<1>5. CASE sym.shndx = ".data"
  BY <1>1, <1>2, <1>5 DEF RuntimeAddress, Base, Unit
<1> QED
  BY <1>3, <1>4, <1>5 DEF Contents

\* No section runs into the next one.
LEMMA BasesApart ==
  ASSUME TypeOK, NEW s \in 1 .. 3, NEW t \in 1 .. 3
  PROVE  /\ Base(Sections[s]) \in Nat /\ Unit(Sections[s]) \in Nat \ {0}
         /\ CountOf(Sections[s]) \in Nat
         /\ s < t => Base(Sections[s]) + Unit(Sections[s]) * CountOf(Sections[s])
                       <= Base(Sections[t])
<1> DEFINE a == CountOf(".text") * InstSize
           b == CountOf(".rodata") * DataSize
           c == CountOf(".rodata") * DataSize * DataSize
<1>1. /\ InstSize \in Nat \ {0} /\ DataSize \in Nat \ {0} /\ TextBase \in Nat
      /\ \A section : CountOf(section) \in Nat
  BY LinkAssumption, CountTypes DEF TextBase
<1>2. a \in Nat /\ b \in Nat /\ c \in Nat /\ b <= c
  <2>1. \A x \in Nat : x * DataSize \in Nat /\ x <= x * DataSize
    BY <1>1
  <2>2. \A x \in Nat : x * InstSize \in Nat
    BY <1>1
  <2> QED
    BY <1>1, <2>1, <2>2
<1>3. /\ InstSize * CountOf(".text") = a /\ DataSize * CountOf(".rodata") = b
  BY <1>1
<1> HIDE DEF a, b, c
<1>4. /\ Base(Sections[1]) = TextBase /\ Base(Sections[2]) = TextBase + a
      /\ Base(Sections[3]) = TextBase + a + c
      /\ Unit(Sections[1]) = InstSize /\ Unit(Sections[2]) = DataSize
      /\ Unit(Sections[3]) = DataSize
  BY SectionFacts DEF Base, Unit, a, c
<1>5. s < t => Base(Sections[s]) + Unit(Sections[s]) * CountOf(Sections[s]) <= Base(Sections[t])
  <2>1. Sections[1] = ".text" /\ Sections[2] = ".rodata"
    BY SectionFacts
  <2>2. (s = 1 \/ s = 2 \/ s = 3) /\ (t = 1 \/ t = 2 \/ t = 3)
    OBVIOUS
  <2>3. /\ s < t => (s = 1 /\ t = 2) \/ (s = 1 /\ t = 3) \/ (s = 2 /\ t = 3)
    BY <2>2
  <2>4. TextBase + a <= TextBase + a + c /\ TextBase + a + b <= TextBase + a + c
    BY <1>1, <1>2
  <2>5. TextBase + a <= TextBase + a
    BY <1>1, <1>2
  <2> QED
    BY <1>3, <1>4, <2>1, <2>3, <2>4, <2>5
<1>6. Base(Sections[s]) \in Nat /\ Unit(Sections[s]) \in Nat \ {0}
  <2>1. s = 1 \/ s = 2 \/ s = 3
    OBVIOUS
  <2> QED
    BY <1>1, <1>2, <1>4, <2>1
<1> QED
  BY <1>1, <1>5, <1>6

LEMMA TableEntry ==
  ASSUME ReadInv, MergeInv, pc \in {"relocate", "done"}, NEW d \in DOMAIN symt
  PROVE  /\ symt[d] \in Symbols /\ symt[d].size # 0
         /\ symt[d].value + symt[d].size <= CountOf(symt[d].shndx)
         /\ \E s \in 1 .. 3 : Sections[s] = symt[d].shndx
<1>1. TypeOK /\ Numbered(smap, symt)
  BY DEF ReadInv, MergeInv
<1>2. d \in 1 .. Len(symt)
  BY <1>1 DEF TypeOK
<1>3. PICK k \in DOMAIN smap : smap[k].dst = d
  BY <1>1, <1>2 DEF Numbered
<1> QED
  BY <1>3, EntryFacts

\* No symbol of dst begins in another.
LEMMA SymbolsApart ==
  ASSUME ReadInv, MergeInv, StackInv, pc \in {"relocate", "done"},
         NEW u \in DOMAIN symt, NEW v \in DOMAIN symt, u # v
  PROVE  ~(/\ RuntimeAddress(symt[u]) <= RuntimeAddress(symt[v])
           /\ RuntimeAddress(symt[v]) < RuntimeAddress(symt[u]) + Extent(symt[u]))
<1>1. TypeOK /\ sht = Headers /\ Stacked(symt)
  BY DEF ReadInv, MergeInv, StackInv
<1>2. PICK s \in 1 .. 3 : Sections[s] = symt[u].shndx
  BY TableEntry
<1>3. PICK t \in 1 .. 3 : Sections[t] = symt[v].shndx
  BY TableEntry
<1> DEFINE x == symt[u]
           y == symt[v]
           base(z) == Base(z.shndx)
           unit(z) == Unit(z.shndx)
           count(z) == CountOf(z.shndx)
<1>4. /\ x \in Symbols /\ y \in Symbols /\ x.size # 0 /\ y.size # 0
      /\ x.value + x.size <= count(x) /\ y.value + y.size <= count(y)
  BY TableEntry
<1>5. /\ x.value \in Nat /\ x.size \in Nat /\ y.value \in Nat /\ y.size \in Nat
      /\ x.shndx \in Contents /\ y.shndx \in Contents
  BY <1>2, <1>3, <1>4, SectionFacts DEF Symbols
<1>6. /\ RuntimeAddress(x) = base(x) + unit(x) * x.value /\ Extent(x) = x.size * unit(x)
      /\ RuntimeAddress(y) = base(y) + unit(y) * y.value /\ Extent(y) = y.size * unit(y)
  BY <1>1, <1>4, <1>5, AddressIs
<1>7. /\ base(x) \in Nat /\ unit(x) \in Nat \ {0} /\ count(x) \in Nat
      /\ base(y) \in Nat /\ unit(y) \in Nat \ {0} /\ count(y) \in Nat
      /\ s < t => base(x) + unit(x) * count(x) <= base(y)
      /\ t < s => base(y) + unit(y) * count(y) <= base(x)
  BY <1>1, <1>2, <1>3, BasesApart
<1>8. s = t => base(x) = base(y) /\ unit(x) = unit(y) /\ x.shndx = y.shndx
  BY <1>2, <1>3
<1>9. u \in Int /\ v \in Int
  BY <1>1 DEF TypeOK
<1>10. x.shndx = y.shndx => /\ u < v => x.value + x.size <= y.value
                            /\ v < u => y.value + y.size <= x.value
  BY <1>1, <1>9 DEF Stacked
<1> HIDE DEF x, y, base, unit, count
<1>11. /\ unit(x) * x.value + x.size * unit(x) <= unit(x) * count(x)
       /\ unit(x) * x.value \in Nat /\ x.size * unit(x) \in Nat /\ unit(x) * count(x) \in Nat
       /\ x.size * unit(x) # 0
  BY <1>4, <1>5, <1>7, Scaled
<1>12. /\ unit(y) * y.value + y.size * unit(y) <= unit(y) * count(y)
       /\ unit(y) * y.value \in Nat /\ y.size * unit(y) \in Nat /\ unit(y) * count(y) \in Nat
       /\ y.size * unit(y) # 0
  BY <1>4, <1>5, <1>7, Scaled
<1>13. s = t /\ u < v => unit(x) * x.value + x.size * unit(x) <= unit(x) * y.value
  BY <1>5, <1>7, <1>8, <1>10, Scaled
<1>14. s = t /\ v < u => unit(y) * y.value + y.size * unit(y) <= unit(y) * x.value
  BY <1>5, <1>7, <1>8, <1>10, Scaled
<1> DEFINE a == unit(x) * x.value
           b == x.size * unit(x)
           c == unit(x) * count(x)
           d == unit(y) * y.value
           e == y.size * unit(y)
           f == unit(y) * count(y)
<1>15. /\ a \in Nat /\ b \in Nat /\ c \in Nat /\ d \in Nat /\ e \in Nat /\ f \in Nat
       /\ b # 0 /\ e # 0 /\ a + b <= c /\ d + e <= f
  BY <1>11, <1>12
<1>16. /\ RuntimeAddress(x) = base(x) + a /\ Extent(x) = b
       /\ RuntimeAddress(y) = base(y) + d /\ Extent(y) = e
  BY <1>6
<1>17. /\ s < t => base(x) + c <= base(y)
       /\ t < s => base(y) + f <= base(x)
  BY <1>7
<1>18. s = t => base(x) = base(y) /\ (u < v => a + b <= d) /\ (v < u => d + e <= a)
  BY <1>8, <1>13, <1>14
<1> HIDE DEF a, b, c, d, e, f
<1>19. ~(base(x) + a <= base(y) + d /\ base(y) + d < base(x) + a + b)
  <2>1. base(x) \in Nat /\ base(y) \in Nat
    BY <1>7
  <2>2. CASE s < t
    BY <1>15, <1>17, <2>1, <2>2
  <2>3. CASE t < s
    BY <1>15, <1>17, <2>1, <2>3
  <2>4. CASE s = t /\ u < v
    BY <1>15, <1>18, <2>1, <2>4
  <2>5. CASE s = t /\ v < u
    BY <1>15, <1>18, <2>1, <2>5
  <2> QED
    BY <1>9, <2>2, <2>3, <2>4, <2>5
<1>20. ~(RuntimeAddress(x) <= RuntimeAddress(y) /\ RuntimeAddress(y) < RuntimeAddress(x) + Extent(x))
  BY <1>16, <1>19
<1> QED
  BY <1>20 DEF x, y

\* Whatever the sections hold, and whatever an instruction takes (get_sym_runtime_address),
\* no symbol of dst begins within the addresses of another: the sections are placed in
\* the order of their sizes in the headers, of which that of .rodata is too large.
THEOREM AddressesApartHolds == Spec => []AddressesApart
<1>1. ReadInv /\ MergeInv /\ StackInv => AddressesApart
  BY SymbolsApart DEF AddressesApart
<1> QED
  BY <1>1, StackInvHolds, PTL

-----------------------------------------------------------------------------
(* The targets of the patches                                              *)

\* A patch is for the symbol chosen for the name of its relocation.
Aims(p) ==
  \E k \in Entries : /\ smap[k].dst = p.target
                     /\ Sym(smap[k].src).name = ReferencedName(p.rel)
                     /\ Sym(smap[k].src).bind = "GLOBAL"

Sound(p) == Hits(p.rel, p.line) /\ Aims(p)

PatchInv ==
  /\ pc \in {"symbols", "headers", "merge"} => patches = {}
  /\ \A p \in patches : Sound(p)

LEMMA SameSound ==
  ASSUME UNCHANGED <<srcs, smap, sht, symt, lines>>
  PROVE  \A p : Sound(p)' <=> Sound(p)
<1>1. /\ \A section : CountOf(section)' = CountOf(section)
      /\ \A r : Rel(r)' = Rel(r) /\ SectionOf(r)' = SectionOf(r)
      /\ \A id : Sym(id)' = Sym(id)
  BY SameCounts, SameRelocations, SameSymbols DEF SectionOf
<1>2. /\ \A r : Referencing(r)' = Referencing(r) /\ Behind(r)' = Behind(r)
      /\ \A section : Surplus(section)' = Surplus(section)
  <2>1. \A r : Referencing(r)' = Referencing(r)
    BY <1>1 DEF Referencing, Covers
  <2>2. \A id : Chosen(id)' <=> Chosen(id)
    BY DEF Chosen, Entries
  <2>3. \A r : Least(Referencing(r))' = Least(Referencing(r))
    BY <2>1 DEF Least
  <2>4. \A r : Behind(r)' = Behind(r)
    BY <1>1, <2>2, <2>3 DEF Behind
  <2>5. \A section : Surplus(section)' = Surplus(section)
    BY <1>1 DEF Surplus
  <2> QED
    BY <2>1, <2>4, <2>5
<1>3. \A r : Attributable(r)' <=> Attributable(r)
  BY <1>1, <1>2 DEF Attributable, Least
<1>4. \A r, n : Hits(r, n)' <=> Hits(r, n)
  BY <1>1, <1>2, <1>3 DEF Hits, OwnLine
<1>5. \A p : Aims(p)' <=> Aims(p)
  BY <1>1 DEF Aims, Entries, ReferencedName
<1> QED
  BY <1>4, <1>5 DEF Sound

\* What relocation_processing writes.
LEMMA PatchIsSound ==
  ASSUME ReadInv, MergeInv, StackInv, pc = "relocate", NEW r \in RelocationIds,
         Referencing(r) # {}, Targets(r) # {},
         NEW id, id = <<r[1], Least(Referencing(r))>>, Chosen(id)
  PROVE  Sound(Patch(r, RowIn(r, id), smap[Least(Targets(r))].dst))
<1> DEFINE j == Least(Referencing(r))
           u == Least(Targets(r))
           row == RowIn(r, id)
           p == Patch(r, row, smap[u].dst)
<1>1. TypeOK /\ sht = Headers
  BY DEF ReadInv, MergeInv
<1>2. j \in Referencing(r) /\ id = <<r[1], j>>
  BY <1>1, FirstReferencing
<1>3. u \in Targets(r)
  <2>1. DOMAIN smap = 1 .. Len(smap) /\ Len(smap) \in Nat
    BY <1>1, MapSizes
  <2>2. DOMAIN smap \subseteq Nat
    BY <2>1
  <2>3. Targets(r) \in SUBSET Nat
    BY <2>2 DEF Targets, Entries
  <2> QED
    BY <2>3, LeastIn
<1>4. p.rel = r /\ p.line = HeaderOf(SectionOf(r)).offset + row /\ p.target = smap[u].dst
  BY DEF Patch
<1> HIDE DEF u, p, row
<1>5. Hits(r, HeaderOf(SectionOf(r)).offset + row)
  BY <1>2, PatchLands DEF row
<1>6. /\ u \in DOMAIN smap /\ symt[smap[u].dst].name = ReferencedName(r)
      /\ symt[smap[u].dst].bind = "GLOBAL"
  BY <1>3 DEF Targets, Entries
<1>7. /\ smap[u].dst \in DOMAIN symt
      /\ symt[smap[u].dst].name = SrcOf(smap, u).name
      /\ symt[smap[u].dst].bind = SrcOf(smap, u).bind
  BY <1>6, EntryFacts
<1>8. Aims(p)
  BY <1>4, <1>6, <1>7 DEF Aims, SrcOf, Entries
<1> QED
  BY <1>4, <1>5, <1>8 DEF Sound, p, u, row

LEMMA RelocateSounds ==
  ASSUME ReadInv, MergeInv, StackInv, PatchInv, NEW r \in RelocationIds, Relocate(r)
  PROVE  PatchInv'
<1> DEFINE id == <<r[1], Least(Referencing(r))>>
           patch == Patch(r, RowIn(r, id), smap[Least(Targets(r))].dst)
<1>1. /\ pc = "relocate" /\ Referencing(r) # {} /\ Targets(r) # {}
      /\ pc' \in {"relocate", "unmapped", "nottext", "astray"}
      /\ UNCHANGED <<srcs, smap, sht, symt, lines>>
  BY LaterSteps DEF Relocate, Relocating, Stop
<1>2. \/ patches' = patches
      \/ /\ patches' = patches \cup {patch}
         /\ Chosen(id)
  BY Zenon DEF Relocate, Stop
<1>3. Sound(patch) \/ patches' = patches
  BY <1>1, <1>2, PatchIsSound
<1> HIDE DEF patch, id
<1>4. \A p \in patches' : Sound(p)
  BY <1>2, <1>3 DEF PatchInv
<1>5. \A p \in patches' : Sound(p)'
  BY <1>1, <1>4, SameSound
<1> QED
  BY <1>1, <1>5 DEF PatchInv

LEMMA StepSounds ==
  ASSUME ReadInv, MergeInv, StackInv, PatchInv, [Next]_vars
  PROVE  PatchInv'
<1>1. ASSUME patches' = patches, pc \in {"symbols", "headers", "merge"} PROVE PatchInv'
  BY <1>1 DEF PatchInv
<1>2. ASSUME patches' = patches, pc' \notin {"symbols", "headers", "merge"},
             UNCHANGED <<srcs, smap, sht, symt, lines>>
      PROVE  PatchInv'
  BY <1>2, SameSound DEF PatchInv
<1>3. CASE UNCHANGED vars
  <2>1. patches' = patches /\ pc' = pc /\ UNCHANGED <<srcs, smap, sht, symt, lines>>
    BY <1>3 DEF vars
  <2> QED
    BY <1>1, <1>2, <2>1
<1>4. ASSUME NEW id \in SymbolIds, InsertSymbol(id) \/ ResolveSymbol(id) \/ PassWeak(id)
      PROVE  PatchInv'
  <2>1. pc = "symbols"
    BY <1>4 DEF InsertSymbol, ResolveSymbol, PassWeak, Processing
  <2>2. patches' = patches
    BY <1>4, Zenon DEF InsertSymbol, ResolveSymbol, PassWeak, Stop
  <2> QED
    BY <1>1, <2>1, <2>2
<1>5. CASE CleanUp
  <2>1. pc = "symbols" /\ patches' = patches
    BY <1>5, Zenon DEF CleanUp, Stop
  <2> QED
    BY <1>1, <2>1
<1>6. CASE compute_section_header
  <2>1. pc = "headers" /\ patches' = patches
    BY <1>6, Zenon DEF compute_section_header
  <2> QED
    BY <1>1, <2>1
<1>7. ASSUME NEW s \in DOMAIN Sections, NEW id \in SymbolIds, MergeSymbol(s, id) \/ PassUnmerged(s, id)
      PROVE  PatchInv'
  <2>1. pc = "merge"
    BY <1>7 DEF MergeSymbol, PassUnmerged, Merging
  <2>2. patches' = patches
    BY <1>7, Zenon DEF MergeSymbol, PassUnmerged, Stop
  <2> QED
    BY <1>1, <2>1, <2>2
<1>8. CASE WriteSymtab
  <2>1. pc = "merge" /\ patches' = patches
    BY <1>8, Zenon DEF WriteSymtab, Stop
  <2> QED
    BY <1>1, <2>1
<1>9. ASSUME NEW r \in RelocationIds, PassRelocation(r) PROVE PatchInv'
  <2>1. /\ pc' \in {"relocate", "unmapped"} /\ patches' = patches
        /\ UNCHANGED <<srcs, smap, sht, symt, lines>>
    BY <1>9, LaterSteps DEF PassRelocation, Stop
  <2> QED
    BY <1>2, <2>1
<1>10. CASE Finish
  <2>1. pc' = "done" /\ patches' = patches /\ UNCHANGED <<srcs, smap, sht, symt, lines>>
    BY <1>10 DEF Finish, Stop
  <2> QED
    BY <1>2, <2>1
<1> QED
  BY <1>3, <1>4, <1>5, <1>6, <1>7, <1>8, <1>9, <1>10, RelocateSounds DEF Next

LEMMA PatchInvIs == ASSUME PatchInv PROVE RelocationsLand
BY DEF PatchInv, Sound, Hits, OwnLine, Aims, RelocationsLand

THEOREM PatchInvHolds == Spec => []PatchInv
<1>1. Init => PatchInv
  BY DEF Init, PatchInv
<1>2. ReadInv /\ MergeInv /\ StackInv /\ PatchInv /\ [Next]_vars => PatchInv'
  BY StepSounds
<1> QED
  BY <1>1, <1>2, StackInvHolds, PTL DEF Spec

\* In whatever order the symbols of the files come: a relocation that stands in the
\* symbol it is attributed to patches the copy of its own line, as far on as the header
\* of .data points too far, for the symbol chosen for its name.  The one line too many
\* that the test of .data covers (staticlink.c:200) does no harm if and only if the
\* merge puts the symbol that begins there behind the one that ends there.
THEOREM RelocationsLandHolds == Spec => []RelocationsLand
<1>1. PatchInv => RelocationsLand
  BY PatchInvIs
<1> QED
  BY <1>1, PatchInvHolds, PTL
=============================================================================
