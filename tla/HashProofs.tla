----------------------------- MODULE HashProofs -----------------------------
(***************************************************************************)
(* Theorems about ExtHash, for every set of keys and values, every hash    *)
(* function, every size of the buckets and any number of splits.           *)
(***************************************************************************)
EXTENDS ExtHash, FunctionTheorems, FiniteSetTheorems, WellFoundedInduction,
        SequenceTheorems, TLAPS

-----------------------------------------------------------------------------
(* Natural numbers                                                         *)

\* A non-empty set of natural numbers has a least element.
LEMMA LeastNatural ==
  ASSUME NEW T \in SUBSET Nat, T # {}
  PROVE  \E x \in T : \A y \in T : x <= y
<1> DEFINE R == {p \in Nat \X Nat : p[1] < p[2]}
<1>1. IsWellFoundedOn(R, Nat)
  BY NatLessThanWellFounded DEF OpToRel
<1>2. PICK x \in T : \A y \in T : <<y, x>> \notin R
  <2> HIDE DEF R
  <2> QED
    BY <1>1, WFMin
<1>3. ASSUME NEW y \in T PROVE x <= y
  <2>1. <<y, x>> \notin R /\ x \in Nat /\ y \in Nat
    BY <1>2
  <2>2. ~(y < x)
    BY <2>1
  <2> QED
    BY <2>1, <2>2
<1> QED
  BY <1>3

\* Induction without a predicate as a parameter: a set of numbers that holds
\* 0 and the successor of each of its members holds every number.
LEMMA NaturalSet ==
  ASSUME NEW T, 0 \in T, \A n \in Nat : n \in T => n + 1 \in T
  PROVE  Nat \subseteq T
<1> SUFFICES ASSUME Nat \ T # {} PROVE FALSE
  OBVIOUS
<1>1. PICK x \in Nat \ T : \A y \in Nat \ T : x <= y
  BY LeastNatural
<1>2. x - 1 \in Nat /\ x - 1 \notin Nat \ T
  BY <1>1
<1>3. (x - 1) + 1 \in T
  BY <1>2
<1> QED
  BY <1>1, <1>3

-----------------------------------------------------------------------------
(* Division                                                                *)

LEMMA DivMod ==
  ASSUME NEW a \in Nat, NEW b \in Nat \ {0}
  PROVE  /\ a \div b \in Nat /\ a % b \in 0 .. b - 1
         /\ a = b * (a \div b) + (a % b)
OBVIOUS

LEMMA DivModUnique ==
  ASSUME NEW a \in Nat, NEW b \in Nat \ {0}, NEW q \in Nat, NEW r \in 0 .. b - 1,
         a = b * q + r
  PROVE  a \div b = q /\ a % b = r
OBVIOUS

LEMMA ModSmall ==
  ASSUME NEW b \in Nat \ {0}, NEW a \in 0 .. b - 1
  PROVE  a \in Nat /\ a % b = a
<1>1. a \in Nat /\ a = b * 0 + a
  OBVIOUS
<1> QED
  BY <1>1, DivModUnique

\* A remainder keeps the smaller remainders.
LEMMA ModOfMod ==
  ASSUME NEW i \in Nat, NEW a \in Nat \ {0}, NEW b \in Nat \ {0}
  PROVE  (i % (a * b)) % b = i % b
<1> DEFINE ab == a * b
           q == i \div ab
           r == i % ab
           p == r \div b
           s == r % b
<1>1. ab \in Nat \ {0}
  OBVIOUS
<1>2. i = (a * b) * q + r /\ q \in Nat /\ r \in Nat
  <2> HIDE DEF ab
  <2>1. i = ab * q + r /\ q \in Nat /\ r \in Nat
    BY <1>1, DivMod
  <2> QED
    BY <2>1 DEF ab
<1> HIDE DEF q, r
<1>3. r = b * p + s /\ p \in Nat /\ s \in 0 .. b - 1
  BY <1>2, DivMod
<1> HIDE DEF p, s
<1>4. i = b * (a * q + p) + s /\ a * q + p \in Nat
  <2>1. a * q \in Nat /\ b * (a * q) = (a * b) * q
    BY <1>2
  <2>2. b * (a * q + p) = b * (a * q) + b * p
    BY <1>3, <2>1
  <2> QED
    BY <1>2, <1>3, <2>1, <2>2
<1> DEFINE z == a * q + p
<1>5. i = b * z + s /\ z \in Nat
  BY <1>4
<1> HIDE DEF z
<1>6. i % b = s
  BY <1>3, <1>5, DivModUnique
<1> QED
  BY <1>6 DEF r, s

-----------------------------------------------------------------------------
(* Powers of two                                                           *)

\* 2^n counts the subsets of a set of n elements.
LEMMA PowerType ==
  ASSUME NEW n \in Nat
  PROVE  2 ^ n \in Nat \ {0}
<1> DEFINE S == 1 .. n
<1>1. IsFiniteSet(S) /\ Cardinality(S) = n
  BY FS_Interval
<1>2. IsFiniteSet(SUBSET S) /\ Cardinality(SUBSET S) = 2 ^ n
  BY <1>1, FS_SUBSET
<1>3. SUBSET S # {}
  OBVIOUS
<1> HIDE DEF S
<1> QED
  BY <1>2, <1>3, FS_CardinalityType, FS_EmptySet

LEMMA PowerStep ==
  ASSUME NEW n \in Nat
  PROVE  2 ^ (n + 1) = 2 * 2 ^ n
<1> DEFINE S == 1 .. n
           old == SUBSET S
           add == [T \in old |-> T \cup {n + 1}]
           new == {T \cup {n + 1} : T \in old}
<1>1. /\ IsFiniteSet(S) /\ Cardinality(S) = n
      /\ IsFiniteSet(1 .. n + 1) /\ Cardinality(1 .. n + 1) = n + 1
  BY FS_Interval
<1>2. /\ IsFiniteSet(old) /\ Cardinality(old) = 2 ^ n
      /\ Cardinality(SUBSET (1 .. n + 1)) = 2 ^ (n + 1)
  BY <1>1, FS_SUBSET
<1>3. n + 1 \notin S
  OBVIOUS
<1>4. ExistsBijection(old, new)
  <2> HIDE DEF S
  <2>1. add \in [old -> new]
    OBVIOUS
  <2>2. \A T, U \in old : add[T] = add[U] => T = U
    BY <1>3
  <2>3. \A V \in new : \E T \in old : add[T] = V
    OBVIOUS
  <2>4. add \in Bijection(old, new)
    <3> HIDE DEF add, old, new
    <3> QED
      BY <2>1, <2>2, <2>3, Fun_IsBij
  <2> QED
    BY <2>4 DEF ExistsBijection
<1>5. IsFiniteSet(new) /\ Cardinality(new) = 2 ^ n
  BY <1>2, <1>4, FS_Bijection
<1>6. SUBSET (1 .. n + 1) = old \cup new
  <2>1. 1 .. n + 1 = S \cup {n + 1}
    OBVIOUS
  <2>2. ASSUME NEW V \in SUBSET (S \cup {n + 1}), n + 1 \in V
        PROVE  V \in new
    <3>1. V \ {n + 1} \in old /\ V = (V \ {n + 1}) \cup {n + 1}
      BY <2>2
    <3> HIDE DEF old
    <3> QED
      BY <3>1
  <2> HIDE DEF S
  <2> QED
    BY <2>1, <2>2
<1>7. old \cap new = {}
  <2> HIDE DEF S
  <2> QED
    BY <1>3
<1> HIDE DEF old, new
<1>8. Cardinality(old \cup new) = 2 ^ n + 2 ^ n
  <2>1. Cardinality(old \cap new) = 0
    BY <1>7, FS_EmptySet
  <2>2. Cardinality(old \cup new)
          = Cardinality(old) + Cardinality(new) - Cardinality(old \cap new)
    BY <1>2, <1>5, FS_Union
  <2>3. 2 ^ n \in Nat
    BY PowerType
  <2> QED
    BY <1>2, <1>5, <2>1, <2>2, <2>3
<1>9. 2 ^ n \in Nat /\ 2 ^ (n + 1) = 2 ^ n + 2 ^ n
  BY <1>2, <1>6, <1>8, PowerType
<1> QED
  BY <1>9

LEMMA PowerSum ==
  ASSUME NEW m \in Nat, NEW n \in Nat
  PROVE  2 ^ (m + n) = 2 ^ m * 2 ^ n
<1> DEFINE T == {k \in Nat : 2 ^ (m + k) = 2 ^ m * 2 ^ k}
<1>1. 0 \in T
  <2>1. 2 ^ 0 = 1 /\ m + 0 = m /\ 2 ^ m \in Nat
    BY PowerType
  <2> QED
    BY <2>1
<1>2. ASSUME NEW k \in Nat, k \in T PROVE k + 1 \in T
  <2>1. m + (k + 1) = (m + k) + 1 /\ m + k \in Nat
    OBVIOUS
  <2>2. 2 ^ (m + (k + 1)) = 2 * 2 ^ (m + k) /\ 2 ^ (k + 1) = 2 * 2 ^ k
    BY <2>1, PowerStep
  <2>3. 2 ^ (m + k) = 2 ^ m * 2 ^ k /\ 2 ^ m \in Nat /\ 2 ^ k \in Nat
    BY <1>2, PowerType
  <2>4. \A x, y \in Nat : 2 * (x * y) = x * (2 * y)
    OBVIOUS
  <2>5. 2 ^ (m + (k + 1)) = 2 ^ m * 2 ^ (k + 1)
    BY <2>2, <2>3, <2>4
  <2> QED
    BY <2>5
<1> HIDE DEF T
<1>3. n \in T
  BY <1>1, <1>2, NaturalSet
<1> QED
  BY <1>3 DEF T


-----------------------------------------------------------------------------
(* Kept: a selection of the pairs of a bucket                              *)

\* The rank numbers the positions of a finite set from 1 upwards.
LEMMA RankBijection ==
  ASSUME NEW keep \in SUBSET Nat, IsFiniteSet(keep)
  PROVE  [i \in keep |-> Rank(keep, i)] \in Bijection(keep, 1 .. Cardinality(keep))
<1> DEFINE upTo(i) == {j \in keep : j <= i}
           rank == [i \in keep |-> Rank(keep, i)]
           ranks == 1 .. Cardinality(keep)
<1>1. ASSUME NEW i \in keep
      PROVE  /\ IsFiniteSet(upTo(i)) /\ Cardinality(upTo(i)) = rank[i]
             /\ rank[i] \in ranks
  <2>1. upTo(i) \in SUBSET keep /\ i \in upTo(i)
    OBVIOUS
  <2>2. /\ IsFiniteSet(upTo(i)) /\ Cardinality(upTo(i)) <= Cardinality(keep)
        /\ Cardinality(upTo(i)) \in Nat /\ Cardinality(keep) \in Nat
    BY <2>1, FS_Subset, FS_CardinalityType
  <2>3. Cardinality(upTo(i)) # 0
    BY <2>1, <2>2, FS_EmptySet
  <2> QED
    BY <2>2, <2>3 DEF Rank
<1>2. ASSUME NEW i \in keep, NEW k \in keep, i < k
      PROVE  rank[i] # rank[k]
  <2>1. upTo(i) \in SUBSET upTo(k) /\ k \in upTo(k) /\ k \notin upTo(i)
    <3>1. \A j \in keep : j <= i => j <= k
      BY <1>2
    <3>2. k <= k /\ ~(k <= i)
      BY <1>2
    <3> QED
      BY <3>1, <3>2, Zenon
  <2>2. Cardinality(upTo(i)) # Cardinality(upTo(k))
    BY <1>1, <2>1, FS_Subset
  <2> QED
    BY <1>1, <2>2
<1>3. rank \in Injection(keep, ranks)
  <2>1. rank \in [keep -> ranks]
    BY <1>1
  <2>2. \A i, k \in keep : rank[i] = rank[k] => i = k
    BY <1>2
  <2> HIDE DEF rank, ranks
  <2> QED
    BY <2>1, <2>2, Fun_IsInj
<1>4. IsFiniteSet(ranks) /\ Cardinality(ranks) = Cardinality(keep)
  BY FS_Interval, FS_CardinalityType
<1>5. rank \in Surjection(keep, ranks)
  <2> HIDE DEF rank, ranks
  <2> QED
    BY <1>3, <1>4, FS_Injection
<1> QED
  BY <1>3, <1>5 DEF Bijection

\* What is kept of a sequence: its length, and that the pair at a kept
\* position goes to the place of its rank.
LEMMA KeptProperties ==
  ASSUME NEW S, NEW data \in Seq(S), NEW keep \in SUBSET (DOMAIN data)
  PROVE  /\ IsFiniteSet(keep) /\ Cardinality(keep) \in Nat
         /\ Kept(data, keep) \in Seq(S)
         /\ Len(Kept(data, keep)) = Cardinality(keep)
         /\ Cardinality(keep) <= Len(data)
         /\ \A i \in keep : /\ Rank(keep, i) \in 1 .. Cardinality(keep)
                            /\ Kept(data, keep)[Rank(keep, i)] = data[i]
         /\ \A i, k \in keep : Rank(keep, i) = Rank(keep, k) => i = k
         /\ \A n \in 1 .. Cardinality(keep) : \E i \in keep : Rank(keep, i) = n
<1>1. /\ DOMAIN data = 1 .. Len(data) /\ Len(data) \in Nat
      /\ \A i \in DOMAIN data : data[i] \in S
  OBVIOUS
<1>2. /\ IsFiniteSet(1 .. Len(data)) /\ Cardinality(1 .. Len(data)) = Len(data)
  <2>1. \A n \in Nat : IsFiniteSet(1 .. n) /\ Cardinality(1 .. n) = n
    BY FS_Interval
  <2> QED
    BY <1>1, <2>1
<1>3. /\ IsFiniteSet(keep) /\ Cardinality(keep) <= Len(data)
      /\ Cardinality(keep) \in Nat /\ keep \in SUBSET Nat
  BY <1>1, <1>2, FS_Subset, FS_CardinalityType
<1> DEFINE size == Cardinality(keep)
           rank == [i \in keep |-> Rank(keep, i)]
<1>4. rank \in Bijection(keep, 1 .. size)
  BY <1>3, RankBijection
<1>5. /\ \A i \in keep : Rank(keep, i) \in 1 .. size
      /\ \A i, k \in keep : Rank(keep, i) = Rank(keep, k) => i = k
      /\ \A n \in 1 .. size : \E i \in keep : Rank(keep, i) = n
  BY <1>4 DEF Bijection, Injection, Surjection, IsInjective
<1> DEFINE at(n) == CHOOSE i \in keep : Rank(keep, i) = n
<1>6. \A n \in 1 .. size : at(n) \in keep /\ Rank(keep, at(n)) = n
  BY <1>5
<1>7. \A i \in keep : at(Rank(keep, i)) = i
  BY <1>5, <1>6
<1>8. Kept(data, keep) = [n \in 1 .. size |-> data[at(n)]]
  BY DEF Kept
<1> HIDE DEF at, size
<1>9. \A n \in 1 .. size : data[at(n)] \in S
  BY <1>1, <1>6
<1>10. Kept(data, keep) \in Seq(S) /\ Len(Kept(data, keep)) = size
  BY <1>3, <1>8, <1>9 DEF size
<1> QED
  BY <1>3, <1>5, <1>7, <1>8, <1>10 DEF size

-----------------------------------------------------------------------------
(* Low bits and single bits of an index                                    *)

\* The low bits of the low bits.
LEMMA LowBits ==
  ASSUME NEW i \in Nat, NEW g \in Nat, NEW d \in Nat, d <= g
  PROVE  (i % 2 ^ g) % 2 ^ d = i % 2 ^ d
<1>1. g - d \in Nat /\ (g - d) + d = g
  OBVIOUS
<1> DEFINE high == 2 ^ (g - d)
           low == 2 ^ d
<1>2. 2 ^ g = high * low /\ high \in Nat \ {0} /\ low \in Nat \ {0}
  BY <1>1, PowerSum, PowerType
<1> HIDE DEF high, low
<1>3. (i % (high * low)) % low = i % low
  BY <1>2, ModOfMod
<1> QED
  BY <1>2, <1>3 DEF low

LEMMA PowerGrows ==
  ASSUME NEW g \in Nat, NEW d \in Nat, d <= g
  PROVE  2 ^ d <= 2 ^ g
<1>1. g - d \in Nat /\ (g - d) + d = g
  OBVIOUS
<1>2. 2 ^ g = 2 ^ (g - d) * 2 ^ d /\ 2 ^ (g - d) \in Nat \ {0} /\ 2 ^ d \in Nat
  BY <1>1, PowerSum, PowerType
<1>3. \A x \in Nat \ {0}, y \in Nat : y <= x * y
  OBVIOUS
<1> QED
  BY <1>2, <1>3

\* One more low bit.
LEMMA BitSplit ==
  ASSUME NEW i \in Nat, NEW d \in Nat
  PROVE  /\ Bit(i, d) \in {0, 1}
         /\ i % 2 ^ d \in 0 .. 2 ^ d - 1
         /\ i % 2 ^ (d + 1) = 2 ^ d * Bit(i, d) + (i % 2 ^ d)
<1> DEFINE m == 2 ^ d
           q == i \div m
           r == i % m
           p == q \div 2
           b == q % 2
<1>0. m \in Nat \ {0}
  BY PowerType
<1>1. m \in Nat \ {0} /\ 2 ^ (d + 1) = 2 * m
  BY <1>0, PowerStep
<1> HIDE DEF m
<1>2. i = m * q + r /\ q \in Nat /\ r \in 0 .. m - 1
  BY <1>0, DivMod
<1> HIDE DEF q, r
<1>3. q = 2 * p + b /\ p \in Nat /\ b \in {0, 1}
  BY <1>2
<1> HIDE DEF p, b
<1>4. i = (2 * m) * p + (m * b + r)
  <2>1. m * q = m * (2 * p) + m * b
    BY <1>1, <1>2, <1>3
  <2>2. m * (2 * p) = (2 * m) * p
    BY <1>1, <1>3
  <2> QED
    BY <1>1, <1>2, <1>3, <2>1, <2>2
<1>5. m * b + r \in 0 .. 2 * m - 1 /\ 2 * m \in Nat \ {0}
  BY <1>1, <1>2, <1>3
<1> DEFINE mm == 2 * m
           s == m * b + r
<1>6. i = mm * p + s /\ mm \in Nat \ {0} /\ s \in 0 .. mm - 1
  BY <1>4, <1>5
<1> HIDE DEF mm, s
<1>7. i % mm = s
  BY <1>3, <1>6, DivModUnique
<1> QED
  BY <1>1, <1>2, <1>3, <1>7 DEF m, mm, s, q, r, b, Bit

\* Indices agree on one more bit if they agree on the low bits and on it.
LEMMA BitsAgree ==
  ASSUME NEW i \in Nat, NEW j \in Nat, NEW d \in Nat
  PROVE  i % 2 ^ (d + 1) = j % 2 ^ (d + 1)
           <=> i % 2 ^ d = j % 2 ^ d /\ Bit(i, d) = Bit(j, d)
<1> DEFINE m == 2 ^ d
<1>1. /\ m \in Nat \ {0}
      /\ Bit(i, d) \in {0, 1} /\ i % m \in 0 .. m - 1
      /\ Bit(j, d) \in {0, 1} /\ j % m \in 0 .. m - 1
      /\ i % 2 ^ (d + 1) = m * Bit(i, d) + (i % m)
      /\ j % 2 ^ (d + 1) = m * Bit(j, d) + (j % m)
  BY PowerType, BitSplit
<1> HIDE DEF m
<1>2. \A x, y \in {0, 1} : \A u, v \in 0 .. m - 1 :
        m * x + u = m * y + v <=> u = v /\ x = y
  BY <1>1
<1> QED
  BY <1>1, <1>2 DEF m

\* A bit below the depth of the directory is that of the whole hash.
LEMMA BitOfIndex ==
  ASSUME NEW h \in Nat, NEW g \in Nat, NEW d \in Nat, d < g
  PROVE  h % 2 ^ g \in Nat /\ Bit(h % 2 ^ g, d) = Bit(h, d)
<1>1. h % 2 ^ g \in Nat
  BY PowerType, DivMod
<1>2. d + 1 \in Nat /\ d + 1 <= g /\ d <= g
  OBVIOUS
<1>3. (h % 2 ^ g) % 2 ^ (d + 1) = h % 2 ^ (d + 1)
  BY <1>2, LowBits
<1> QED
  BY <1>1, <1>3, BitsAgree

-----------------------------------------------------------------------------
(* The inductive invariant                                                 *)

Bucket == [localdepth : Nat \ {0}, data : Seq(Pair)]
Entries == 0 .. 2 ^ globaldepth - 1

TypeOK ==
  /\ bsize \in Nat \ {0}
  /\ globaldepth \in Nat \ {0}
  /\ buckets \in Seq(Bucket)
  /\ directory \in [Entries -> 1 .. Len(buckets)]
  /\ inserting \in Pair \cup {Idle}
  /\ returned \in Values \cup {Missing}
  /\ freed \in {<<>>} \cup [1 .. Len(buckets) -> Nat]

\* No bucket uses more bits than the directory has.
DepthsFit == \A b \in 1 .. Len(buckets) : buckets[b].localdepth <= globaldepth

\* Every bucket hangs on some entry.
Reached == \A b \in 1 .. Len(buckets) : \E i \in Entries : directory[i] = b

\* Every pair is in the bucket that a search for its key looks at.
Placed ==
  \A b \in 1 .. Len(buckets) : \A n \in DOMAIN buckets[b].data :
    BucketOf(buckets[b].data[n].key) = b

\* Nothing is under way once the table is freed.
FreedAtRest == ~Live => inserting = Idle

Inv == /\ TypeOK /\ DepthsFit /\ DirectoryAgrees /\ Reached
       /\ Placed /\ WithinCapacity /\ FreedOnce /\ FreedAtRest

LEMMA EntryOfKey ==
  ASSUME TypeOK, NEW key \in Keys
  PROVE  /\ Hash[key] \in Nat
         /\ Index(key, globaldepth) \in Entries
         /\ BucketOf(key) \in 1 .. Len(buckets)
<1>1. Hash[key] \in Nat /\ 2 ^ globaldepth \in Nat \ {0}
  BY HashAssumption, PowerType DEF TypeOK
<1>2. Index(key, globaldepth) \in Entries
  <2> DEFINE m == 2 ^ globaldepth
  <2>1. m \in Nat \ {0}
    BY <1>1
  <2> HIDE DEF m
  <2>2. Hash[key] % m \in 0 .. m - 1
    BY <1>1, <2>1, DivMod
  <2> QED
    BY <2>2 DEF Index, Entries, m
<1> QED
  BY <1>1, <1>2 DEF BucketOf, TypeOK

LEMMA BucketTypes ==
  ASSUME TypeOK, NEW b \in 1 .. Len(buckets)
  PROVE  /\ buckets[b] \in Bucket /\ buckets[b].localdepth \in Nat \ {0}
         /\ buckets[b].data \in Seq(Pair) /\ Len(buckets[b].data) \in Nat
         /\ DOMAIN buckets[b].data = 1 .. Len(buckets[b].data)
         /\ \A n \in DOMAIN buckets[b].data :
              /\ buckets[b].data[n] \in Pair
              /\ buckets[b].data[n].key \in Keys
<1>1. buckets[b] \in Bucket
  BY DEF TypeOK
<1>2. buckets[b].localdepth \in Nat \ {0} /\ buckets[b].data \in Seq(Pair)
  BY <1>1 DEF Bucket
<1>3. \A n \in DOMAIN buckets[b].data : buckets[b].data[n] \in Pair
  BY <1>2
<1> QED
  BY <1>1, <1>2, <1>3 DEF Pair

LEMMA InsertedKey ==
  ASSUME TypeOK, inserting # Idle
  PROVE  inserting \in Pair /\ inserting.key \in Keys
BY DEF TypeOK, Pair

-----------------------------------------------------------------------------
(* Splitting a bucket                                                      *)

Moving(b) == {i \in DOMAIN buckets[b].data :
                Bit(Hash[buckets[b].data[i].key], buckets[b].localdepth) = 1}
Staying(b) == DOMAIN buckets[b].data \ Moving(b)

Depth(b) == buckets[b].localdepth
New == Len(buckets) + 1

\* The bucket of the entry of the directory that entry i is doubled from.
From(i) == directory[i % 2 ^ globaldepth]

\* The two buckets after a split of b, and the directory: an entry follows the
\* entry of its low bits, but those of b with the next bit set go to the new
\* bucket, whether the directory was doubled or not.
LEMMA SplitShape ==
  ASSUME TypeOK, DepthsFit, NEW b \in 1 .. Len(buckets), SplitBucket(b)
  PROVE  /\ Depth(b) \in Nat /\ Depth(b) + 1 <= globaldepth'
         /\ globaldepth' \in Nat \ {0} /\ globaldepth <= globaldepth'
         /\ buckets' \in Seq(Bucket) /\ New \in Nat /\ Len(buckets') = New
         /\ \A c \in 1 .. Len(buckets) : c # b => buckets'[c] = buckets[c]
         /\ buckets'[b] = [localdepth |-> Depth(b) + 1,
                           data |-> Kept(buckets[b].data, Staying(b))]
         /\ buckets'[New] = [localdepth |-> Depth(b) + 1,
                             data |-> Kept(buckets[b].data, Moving(b))]
         /\ directory' \in [Entries' -> 1 .. New]
         /\ \A i \in Entries' :
              /\ i \in Nat /\ i % 2 ^ globaldepth \in Entries
              /\ From(i) \in 1 .. Len(buckets)
              /\ directory'[i] = IF From(i) = b /\ Bit(i, Depth(b)) = 1
                                 THEN New ELSE From(i)
<1> DEFINE depth == buckets[b].localdepth
           new == Len(buckets) + 1
           data == buckets[b].data
           size == 2 ^ globaldepth
           old == [localdepth |-> depth + 1, data |-> Kept(data, Staying(b))]
           fresh == [localdepth |-> depth + 1, data |-> Kept(data, Moving(b))]
<1>1. /\ buckets[b] \in Bucket /\ depth \in Nat \ {0} /\ data \in Seq(Pair)
      /\ depth <= globaldepth /\ Len(buckets) \in Nat /\ new \in Nat
  BY BucketTypes DEF TypeOK, DepthsFit
<1>2. size \in Nat \ {0} /\ globaldepth \in Nat
  BY PowerType DEF TypeOK
<1>3. /\ globaldepth' = globaldepth + (IF NeedsDoubling(b) THEN 1 ELSE 0)
      /\ buckets' = Append([buckets EXCEPT ![b] = old], fresh)
      /\ directory' = [i \in DOMAIN Doubled(b) |->
                         IF Doubled(b)[i] = b /\ Bit(i, depth) = 1
                         THEN new ELSE Doubled(b)[i]]
  BY DEF SplitBucket, Moving, Staying
<1>4. /\ globaldepth' \in Nat \ {0} /\ globaldepth <= globaldepth'
      /\ depth < globaldepth'
      /\ 2 ^ globaldepth' = (IF NeedsDoubling(b) THEN 2 ELSE 1) * size
  <2>1. 2 ^ (globaldepth + 1) = 2 * size
    BY <1>2, PowerStep
  <2>2. CASE NeedsDoubling(b)
    BY <1>1, <1>2, <1>3, <2>1, <2>2
  <2>3. CASE ~NeedsDoubling(b)
    BY <1>1, <1>2, <1>3, <2>3 DEF NeedsDoubling
  <2> QED
    BY <2>2, <2>3
<1>5. old \in Bucket /\ fresh \in Bucket
  BY <1>1, KeptProperties DEF Bucket, Moving, Staying
<1>6. /\ buckets' \in Seq(Bucket) /\ Len(buckets') = new
      /\ \A c \in 1 .. Len(buckets) : c # b => buckets'[c] = buckets[c]
      /\ buckets'[b] = old /\ buckets'[new] = fresh
  <2> HIDE DEF old, fresh
  <2> QED
    BY <1>1, <1>3, <1>5 DEF TypeOK
\* Entry i of the doubled directory.
<1>7. /\ DOMAIN Doubled(b) = Entries'
      /\ \A i \in Entries' : /\ i \in Nat /\ i % size \in Entries
                             /\ Doubled(b)[i] = directory[i % size]
  <2> DEFINE m == size
  <2>0. m \in Nat \ {0}
    BY <1>2
  <2> HIDE DEF m
  <2>1. \A i \in Nat : i % m \in 0 .. m - 1
    BY <2>0, DivMod
  <2>2. CASE NeedsDoubling(b)
    <3>1. 2 ^ globaldepth' = 2 * m
      BY <1>4, <2>2 DEF m
    <3>2. Doubled(b) = [i \in 0 .. 2 * m - 1 |-> directory[i % m]]
      BY <2>2 DEF Doubled, Origin, DirectorySize, m
    <3>3. \A i \in 0 .. 2 * m - 1 : i \in Nat
      BY <2>0
    <3> QED
      BY <2>1, <3>1, <3>2, <3>3 DEF Entries, m
  <2>3. CASE ~NeedsDoubling(b)
    <3>1. 2 ^ globaldepth' = m
      BY <1>2, <1>4, <2>3 DEF m
    <3>2. Doubled(b) = [i \in 0 .. 1 * m - 1 |-> directory[i]]
      BY <2>3 DEF Doubled, DirectorySize, m
    <3>3. 1 * m = m /\ \A i \in 0 .. m - 1 : i \in Nat /\ i % m = i
      BY <2>0, ModSmall
    <3> QED
      BY <2>1, <3>1, <3>2, <3>3 DEF Entries, m
  <2> QED
    BY <2>2, <2>3
<1>8. \A i \in Entries' : From(i) \in 1 .. Len(buckets) /\ Doubled(b)[i] = From(i)
  BY <1>7 DEF TypeOK, From
<1> DEFINE moved(i) == From(i) = b /\ Bit(i, depth) = 1
<1>9. directory' = [i \in Entries' |-> IF moved(i) THEN new ELSE From(i)]
  BY <1>3, <1>7, <1>8
<1>10. directory' \in [Entries' -> 1 .. new]
  <2>1. \A i \in Entries' : From(i) \in 1 .. new
    BY <1>1, <1>8
  <2>2. new \in 1 .. new
    BY <1>1
  <2> HIDE DEF new, moved
  <2> QED
    BY <1>9, <2>1, <2>2
<1>11. \A i \in Entries' : directory'[i] = IF moved(i) THEN new ELSE From(i)
  BY <1>9
<1> QED
  BY <1>1, <1>4, <1>6, <1>7, <1>8, <1>10, <1>11 DEF Depth, New

\* Entries that are doubled from entries of one bucket agree on its low bits.
LEMMA DoubledAgrees ==
  ASSUME TypeOK, DepthsFit, DirectoryAgrees, NEW i \in Nat, NEW j \in Nat,
         i % 2 ^ globaldepth \in Entries, j % 2 ^ globaldepth \in Entries,
         NEW c \in 1 .. Len(buckets), From(i) = c
  PROVE  From(j) = c <=> i % 2 ^ Depth(c) = j % 2 ^ Depth(c)
<1>1. Depth(c) \in Nat /\ Depth(c) <= globaldepth /\ globaldepth \in Nat
  BY BucketTypes DEF DepthsFit, TypeOK, Depth
<1>2. /\ (i % 2 ^ globaldepth) % 2 ^ Depth(c) = i % 2 ^ Depth(c)
      /\ (j % 2 ^ globaldepth) % 2 ^ Depth(c) = j % 2 ^ Depth(c)
  BY <1>1, LowBits
<1> DEFINE k == i % 2 ^ globaldepth
           l == j % 2 ^ globaldepth
<1>3. k \in DOMAIN directory /\ l \in DOMAIN directory /\ directory[k] = c
  BY DEF TypeOK, From
<1>4. directory[k] = directory[l]
        <=> k % 2 ^ Depth(directory[k]) = l % 2 ^ Depth(directory[k])
  <2> HIDE DEF k, l
  <2> QED
    BY <1>3 DEF DirectoryAgrees, Depth
<1> QED
  BY <1>2, <1>3, <1>4 DEF From

LEMMA SplitAgrees ==
  ASSUME TypeOK, DepthsFit, DirectoryAgrees,
         NEW b \in 1 .. Len(buckets), SplitBucket(b)
  PROVE  DirectoryAgrees'
<1> DEFINE depth == Depth(b)
<1>0. New \in Nat /\ \A c \in 1 .. Len(buckets) : c # New
  BY DEF TypeOK, New
<1> SUFFICES ASSUME NEW i \in Entries', NEW j \in Entries'
             PROVE  directory'[i] = directory'[j]
                      <=> i % 2 ^ buckets'[directory'[i]].localdepth
                            = j % 2 ^ buckets'[directory'[i]].localdepth
  <2>1. DOMAIN directory' = Entries'
    BY SplitShape
  <2> QED
    BY <2>1 DEF DirectoryAgrees
<1>1. /\ i \in Nat /\ j \in Nat /\ depth \in Nat
      /\ i % 2 ^ globaldepth \in Entries /\ j % 2 ^ globaldepth \in Entries
      /\ From(i) \in 1 .. Len(buckets) /\ From(j) \in 1 .. Len(buckets)
  BY SplitShape
<1>2. /\ directory'[i] = IF From(i) = b /\ Bit(i, depth) = 1 THEN New ELSE From(i)
      /\ directory'[j] = IF From(j) = b /\ Bit(j, depth) = 1 THEN New ELSE From(j)
  BY SplitShape
<1>3. /\ \A c \in 1 .. Len(buckets) : c # b => buckets'[c].localdepth = Depth(c)
      /\ buckets'[b].localdepth = depth + 1 /\ buckets'[New].localdepth = depth + 1
  <2>1. \A c \in 1 .. Len(buckets) : c # b => buckets'[c] = buckets[c]
    BY SplitShape
  <2>2. buckets'[b] = [localdepth |-> Depth(b) + 1,
                       data |-> Kept(buckets[b].data, Staying(b))]
    BY SplitShape
  <2>3. buckets'[New] = [localdepth |-> Depth(b) + 1,
                         data |-> Kept(buckets[b].data, Moving(b))]
    BY SplitShape
  <2> QED
    BY <2>1, <2>2, <2>3 DEF Depth
<1>4. From(j) = From(i)
        <=> i % 2 ^ Depth(From(i)) = j % 2 ^ Depth(From(i))
  BY <1>1, DoubledAgrees
<1>5. Bit(i, depth) \in {0, 1} /\ Bit(j, depth) \in {0, 1}
  BY <1>1, BitSplit
<1>6. i % 2 ^ (depth + 1) = j % 2 ^ (depth + 1)
        <=> i % 2 ^ depth = j % 2 ^ depth /\ Bit(i, depth) = Bit(j, depth)
  BY <1>1, BitsAgree
<1>7. CASE From(i) # b
  <2>1. directory'[i] = From(i) /\ buckets'[directory'[i]].localdepth = Depth(From(i))
    BY <1>1, <1>2, <1>3, <1>7
  <2>2. directory'[j] = From(i) <=> From(j) = From(i)
    BY <1>0, <1>1, <1>2, <1>7
  <2> QED
    BY <1>4, <2>1, <2>2
<1>8. CASE From(i) = b
  <2>1. buckets'[directory'[i]].localdepth = depth + 1
    BY <1>2, <1>3, <1>8
  <2>2. directory'[j] = directory'[i]
          <=> From(j) = b /\ Bit(i, depth) = Bit(j, depth)
    BY <1>0, <1>1, <1>2, <1>5, <1>8
  <2>3. From(j) = b <=> i % 2 ^ depth = j % 2 ^ depth
    BY <1>4, <1>8
  <2> QED
    BY <1>6, <2>1, <2>2, <2>3
<1> QED
  BY <1>7, <1>8

\* Both halves of the split bucket hang on an entry.
LEMMA SplitReached ==
  ASSUME TypeOK, DepthsFit, DirectoryAgrees, Reached,
         NEW b \in 1 .. Len(buckets), SplitBucket(b)
  PROVE  Reached'
<1> DEFINE depth == Depth(b)
           low == 2 ^ depth
<1>1. /\ depth \in Nat /\ globaldepth \in Nat /\ globaldepth' \in Nat
      /\ depth + 1 <= globaldepth' /\ globaldepth <= globaldepth'
      /\ Len(buckets) \in Nat /\ Len(buckets') = New /\ New = Len(buckets) + 1
  <2>1. globaldepth \in Nat /\ Len(buckets) \in Nat
    BY DEF TypeOK
  <2> QED
    BY <2>1, SplitShape DEF New
<1>2. /\ low \in Nat \ {0} /\ 2 ^ (depth + 1) = 2 * low
      /\ 2 * low <= 2 ^ globaldepth' /\ 2 ^ globaldepth' \in Nat
      /\ 2 ^ globaldepth <= 2 ^ globaldepth' /\ 2 ^ globaldepth \in Nat \ {0}
  <2>1. depth + 1 \in Nat
    BY <1>1
  <2> QED
    BY <1>1, <2>1, PowerType, PowerStep, PowerGrows
<1>3. PICK e \in Entries : directory[e] = b
  BY DEF Reached
\* The two entries of the low bits of e, without and with the next bit.
<1> DEFINE zero == e % low
           one == low + zero
<1>4. e \in Nat /\ zero \in 0 .. low - 1
  <2>1. e \in Nat
    BY DEF Entries
  <2> HIDE DEF low
  <2> QED
    BY <1>2, <2>1, DivMod
<1>5. /\ zero \in Entries' /\ one \in Entries'
      /\ zero \in Nat /\ one \in Nat
  <2> HIDE DEF low, zero
  <2> QED
    BY <1>2, <1>4 DEF Entries
<1>6. /\ zero % low = zero /\ Bit(zero, depth) = 0
      /\ one % low = zero /\ Bit(one, depth) = 1
  <2> HIDE DEF zero
  <2>1. zero = low * 0 + zero
    BY <1>2, <1>4
  <2>6. one = low * 1 + zero
    BY <1>2, <1>4
  <2> HIDE DEF low, one
  <2>5. 0 \in Nat /\ 1 \in Nat
    OBVIOUS
  <2>2. zero \div low = 0 /\ zero % low = zero
    BY <1>2, <1>4, <1>5, <2>1, <2>5, DivModUnique
  <2>3. one \div low = 1 /\ one % low = zero
    BY <1>2, <1>4, <1>5, <2>5, <2>6, DivModUnique
  <2>4. 0 % 2 = 0 /\ 1 % 2 = 1
    OBVIOUS
  <2> QED
    BY <2>2, <2>3, <2>4, Zenon DEF Bit, low
<1>7. \A i \in Entries' :
        /\ i % 2 ^ globaldepth \in Entries
        /\ directory'[i] = IF From(i) = b /\ Bit(i, depth) = 1
                           THEN New ELSE From(i)
  BY SplitShape
<1>8. \A i \in Entries : i % 2 ^ globaldepth = i /\ i \in Entries'
  <2> DEFINE m == 2 ^ globaldepth
  <2>1. m \in Nat \ {0} /\ m <= 2 ^ globaldepth' /\ 2 ^ globaldepth' \in Nat
    BY <1>2
  <2> HIDE DEF m
  <2>2. \A i \in 0 .. m - 1 : i % m = i /\ i \in 0 .. 2 ^ globaldepth' - 1
    BY <2>1, ModSmall
  <2> QED
    BY <2>2 DEF Entries, m
<1>9. ASSUME NEW i \in Nat, i \in Entries', i % low = zero
      PROVE  From(i) = b
  <2>1. From(e) = b /\ e % 2 ^ globaldepth \in Entries
    BY <1>3, <1>8 DEF From
  <2>2. i % 2 ^ globaldepth \in Entries
    BY <1>7, <1>9
  <2>3. From(i) = b <=> e % low = i % low
    BY <1>4, <2>1, <2>2, DoubledAgrees
  <2> QED
    BY <1>9, <2>3
<1>10. directory'[zero] = b /\ directory'[one] = New
  <2>1. From(zero) = b /\ From(one) = b
    BY <1>5, <1>6, <1>9
  <2> HIDE DEF zero, one
  <2> QED
    BY <1>5, <1>6, <1>7, <2>1
<1>11. ASSUME NEW c \in 1 .. Len(buckets), c # b
       PROVE  \E i \in Entries' : directory'[i] = c
  <2>1. PICK i \in Entries : directory[i] = c
    BY DEF Reached
  <2>2. i \in Entries' /\ From(i) = c
    BY <1>8, <2>1 DEF From
  <2>3. directory'[i] = c
    BY <1>7, <1>11, <2>2
  <2> QED
    BY <2>2, <2>3
<1>12. ASSUME NEW c \in 1 .. New PROVE \E i \in Entries' : directory'[i] = c
  <2> HIDE DEF zero, one
  <2>1. c \in 1 .. Len(buckets) \/ c = New
    BY <1>1
  <2> QED
    BY <1>5, <1>10, <1>11, <2>1
<1> QED
  BY <1>1, <1>12 DEF Reached

\* A search after the split looks at the half that the next bit of the hash
\* selects, and where it looked before for keys of other buckets.
LEMMA SplitBucketOf ==
  ASSUME TypeOK, DepthsFit, NEW b \in 1 .. Len(buckets), SplitBucket(b),
         NEW key \in Keys
  PROVE  BucketOf(key)' = IF BucketOf(key) = b /\ Bit(Hash[key], Depth(b)) = 1
                          THEN New ELSE BucketOf(key)
<1> DEFINE h == Hash[key]
           i == h % 2 ^ globaldepth'
<1>1. /\ h \in Nat /\ globaldepth \in Nat /\ globaldepth' \in Nat
      /\ globaldepth <= globaldepth' /\ Depth(b) \in Nat /\ Depth(b) < globaldepth'
  <2>1. h \in Nat /\ globaldepth \in Nat
    BY EntryOfKey DEF TypeOK
  <2>2. /\ globaldepth' \in Nat /\ Depth(b) \in Nat /\ Depth(b) + 1 <= globaldepth'
        /\ globaldepth <= globaldepth'
    BY SplitShape
  <2> QED
    BY <2>1, <2>2
<1>2. i \in Entries'
  <2> DEFINE m == 2 ^ globaldepth'
  <2>1. m \in Nat \ {0}
    BY <1>1, PowerType
  <2> HIDE DEF m
  <2>2. h % m \in 0 .. m - 1
    BY <1>1, <2>1, DivMod
  <2> QED
    BY <2>2, Zenon DEF Entries, m
<1>3. i % 2 ^ globaldepth = h % 2 ^ globaldepth /\ Bit(i, Depth(b)) = Bit(h, Depth(b))
  <2>1. i % 2 ^ globaldepth = h % 2 ^ globaldepth
    BY <1>1, LowBits, Zenon
  <2>2. Bit(i, Depth(b)) = Bit(h, Depth(b))
    <3> DEFINE g == globaldepth'
               d == Depth(b)
               n == Hash[key]
    <3>1. n \in Nat /\ g \in Nat /\ d \in Nat /\ d < g
      BY <1>1
    <3> HIDE DEF g, d, n
    <3>2. Bit(n % 2 ^ g, d) = Bit(n, d)
      BY <3>1, BitOfIndex
    <3> QED
      BY <3>2, Zenon DEF n, g, d
  <2> QED
    BY <2>1, <2>2, Zenon
<1>4. From(i) = BucketOf(key)
  BY <1>3 DEF From, BucketOf, Index
<1>5. BucketOf(key)' = directory'[i]
  BY DEF BucketOf, Index
<1> HIDE DEF i
<1>6. directory'[i] = IF From(i) = b /\ Bit(i, Depth(b)) = 1 THEN New ELSE From(i)
  BY <1>2, SplitShape
<1> QED
  BY <1>3, <1>4, <1>5, <1>6

\* What the split leaves of the pairs of b in its two halves.
LEMMA SplitData ==
  ASSUME TypeOK, NEW b \in 1 .. Len(buckets), NEW keep \in SUBSET DOMAIN buckets[b].data,
         NEW n \in DOMAIN Kept(buckets[b].data, keep)
  PROVE  \E i \in keep : /\ Rank(keep, i) = n
                         /\ Kept(buckets[b].data, keep)[n] = buckets[b].data[i]
<1>1. buckets[b].data \in Seq(Pair)
  BY BucketTypes
<1>2. DOMAIN Kept(buckets[b].data, keep) = 1 .. Cardinality(keep)
  BY DEF Kept
<1> QED
  BY <1>1, <1>2, KeptProperties

LEMMA SplitPlaced ==
  ASSUME TypeOK, DepthsFit, Placed, NEW b \in 1 .. Len(buckets), SplitBucket(b)
  PROVE  Placed'
<1> DEFINE data == buckets[b].data
           after == [key \in Keys |-> BucketOf(key)']
<1>0. \A key \in Keys :
        after[key] = IF BucketOf(key) = b /\ Bit(Hash[key], Depth(b)) = 1
                     THEN New ELSE BucketOf(key)
  BY SplitBucketOf
<1>1. /\ buckets'[b].data = Kept(data, Staying(b))
      /\ buckets'[New].data = Kept(data, Moving(b))
      /\ \A c \in 1 .. Len(buckets) : c # b => buckets'[c] = buckets[c]
      /\ New = Len(buckets) + 1 /\ Len(buckets') = New /\ Len(buckets) \in Nat
  <2>1. buckets'[b] = [localdepth |-> Depth(b) + 1, data |-> Kept(data, Staying(b))]
    BY SplitShape
  <2>2. buckets'[New] = [localdepth |-> Depth(b) + 1, data |-> Kept(data, Moving(b))]
    BY SplitShape
  <2>3. /\ \A c \in 1 .. Len(buckets) : c # b => buckets'[c] = buckets[c]
        /\ Len(buckets') = New
    BY SplitShape
  <2> QED
    BY <2>1, <2>2, <2>3 DEF New, TypeOK
<1>2. \A c \in 1 .. Len(buckets) : \A n \in DOMAIN buckets[c].data :
        buckets[c].data[n].key \in Keys
  BY BucketTypes
<1>3. \A i \in DOMAIN data : /\ BucketOf(data[i].key) = b /\ data[i].key \in Keys
                             /\ after[data[i].key] = IF i \in Moving(b)
                                                     THEN New ELSE b
  <2>1. \A i \in DOMAIN data : BucketOf(data[i].key) = b /\ data[i].key \in Keys
    BY <1>2 DEF Placed
  <2>2. \A i \in DOMAIN data :
          i \in Moving(b) <=> Bit(Hash[data[i].key], Depth(b)) = 1
    BY DEF Moving, Depth
  <2> HIDE DEF data, after
  <2> QED
    BY <1>0, <2>1, <2>2
<1>4. ASSUME NEW c \in 1 .. New, NEW n \in DOMAIN buckets'[c].data
      PROVE  /\ buckets'[c].data[n].key \in Keys
             /\ after[buckets'[c].data[n].key] = c
  <2>0. Staying(b) \in SUBSET DOMAIN data /\ Moving(b) \in SUBSET DOMAIN data
    BY DEF Staying, Moving
  <2>1. CASE c = b
    <3>1. n \in DOMAIN Kept(data, Staying(b))
      BY <1>1, <1>4, <2>1
    <3>2. PICK i \in Staying(b) : Kept(data, Staying(b))[n] = data[i]
      BY <2>0, <3>1, SplitData
    <3>3. buckets'[c].data[n] = data[i]
      BY <1>1, <2>1, <3>2
    <3>4. i \in DOMAIN data /\ i \notin Moving(b)
      BY DEF Staying
    <3> HIDE DEF data, after
    <3> QED
      BY <1>3, <2>1, <3>3, <3>4
  <2>2. CASE c = New
    <3>1. n \in DOMAIN Kept(data, Moving(b))
      BY <1>1, <1>4, <2>2
    <3>2. PICK i \in Moving(b) : Kept(data, Moving(b))[n] = data[i]
      BY <2>0, <3>1, SplitData
    <3>3. buckets'[c].data[n] = data[i]
      BY <1>1, <2>2, <3>2
    <3> HIDE DEF data, after
    <3> QED
      BY <1>3, <2>0, <2>2, <3>3
  <2>3. CASE c # b /\ c # New
    <3>1. c \in 1 .. Len(buckets) /\ buckets'[c] = buckets[c] /\ c # New
      BY <1>1, <2>3
    <3>2. BucketOf(buckets[c].data[n].key) = c /\ buckets[c].data[n].key \in Keys
      BY <1>2, <1>4, <3>1 DEF Placed
    <3> HIDE DEF after
    <3> QED
      BY <1>0, <2>3, <3>1, <3>2
  <2> QED
    BY <2>1, <2>2, <2>3
<1>5. \A key \in Keys : after[key] = directory'[Index(key, globaldepth')]
  BY DEF BucketOf
<1> HIDE DEF after
<1> QED
  BY <1>1, <1>4, <1>5 DEF Placed, BucketOf

\* A split keeps the types, the depths and the room in the buckets.
LEMMA SplitTypes ==
  ASSUME TypeOK, DepthsFit, WithinCapacity, NEW b \in 1 .. Len(buckets),
         SplitBucket(b), Live, UNCHANGED <<bsize, inserting, returned, freed>>
  PROVE  TypeOK' /\ DepthsFit' /\ WithinCapacity'
<1> DEFINE data == buckets[b].data
<1>1. /\ buckets' \in Seq(Bucket) /\ New \in Nat /\ Len(buckets') = New
      /\ Depth(b) \in Nat /\ Depth(b) + 1 <= globaldepth'
      /\ globaldepth' \in Nat \ {0} /\ globaldepth <= globaldepth'
      /\ directory' \in [Entries' -> 1 .. New]
  BY SplitShape
<1>2. \A c \in 1 .. Len(buckets) : c # b => buckets'[c] = buckets[c]
  BY SplitShape
<1>3. buckets'[b] = [localdepth |-> Depth(b) + 1, data |-> Kept(data, Staying(b))]
  BY SplitShape
<1>4. buckets'[New] = [localdepth |-> Depth(b) + 1, data |-> Kept(data, Moving(b))]
  BY SplitShape
<1>5. /\ Len(Kept(data, Staying(b))) <= Len(data) /\ Len(Kept(data, Staying(b))) \in Nat
      /\ Len(Kept(data, Moving(b))) <= Len(data) /\ Len(Kept(data, Moving(b))) \in Nat
      /\ Len(data) \in Nat
  <2>1. Staying(b) \in SUBSET DOMAIN data /\ Moving(b) \in SUBSET DOMAIN data
    BY DEF Staying, Moving
  <2>2. data \in Seq(Pair) /\ Len(data) \in Nat
    BY BucketTypes
  <2> HIDE DEF data
  <2> QED
    BY <2>1, <2>2, KeptProperties
<1>6. TypeOK'
  BY <1>1 DEF TypeOK, Live
<1>7. \A c \in 1 .. New : c \in 1 .. Len(buckets) \/ c = New
  BY DEF New, TypeOK
<1>8. DepthsFit'
  <2>1. ASSUME NEW c \in 1 .. New PROVE buckets'[c].localdepth <= globaldepth'
    <3>1. CASE c = b \/ c = New
      BY <1>1, <1>3, <1>4, <3>1
    <3>2. CASE c # b /\ c # New
      <4>1. c \in 1 .. Len(buckets) /\ buckets'[c] = buckets[c]
        BY <1>2, <1>7, <3>2
      <4>2. /\ buckets[c].localdepth \in Nat /\ buckets[c].localdepth <= globaldepth
            /\ globaldepth \in Nat
        BY <4>1, BucketTypes DEF DepthsFit, TypeOK
      <4> QED
        BY <1>1, <4>1, <4>2
    <3> QED
      BY <3>1, <3>2
  <2> QED
    BY <1>1, <2>1 DEF DepthsFit
<1>9. WithinCapacity'
  <2>0. /\ \A c \in 1 .. Len(buckets) : Len(buckets[c].data) <= bsize
        /\ bsize' = bsize /\ bsize \in Nat
    BY DEF WithinCapacity, TypeOK
  <2>1. ASSUME NEW c \in 1 .. New PROVE Len(buckets'[c].data) <= bsize'
    <3>1. CASE c = b \/ c = New
      <4>1. Len(buckets'[c].data) \in Nat /\ Len(buckets'[c].data) <= Len(data)
        BY <1>3, <1>4, <1>5, <3>1
      <4> QED
        BY <1>5, <2>0, <4>1
    <3>2. CASE c # b /\ c # New
      <4>1. c \in 1 .. Len(buckets) /\ buckets'[c] = buckets[c]
        BY <1>2, <1>7, <3>2
      <4> QED
        BY <2>0, <4>1
    <3> QED
      BY <3>1, <3>2
  <2>2. DOMAIN buckets' = 1 .. New
    BY <1>1
  <2> QED
    BY <2>1, <2>2 DEF WithinCapacity
<1> QED
  BY <1>6, <1>8, <1>9

-----------------------------------------------------------------------------
(* Changing the pairs of one bucket                                        *)

\* New data for one bucket, all of it pairs that a search finds there.
NewData(b, data) ==
  /\ data \in Seq(Pair) /\ Len(data) <= bsize
  /\ \A n \in DOMAIN data : BucketOf(data[n].key) = b
  /\ buckets' = [buckets EXCEPT ![b].data = data]
  /\ UNCHANGED <<bsize, globaldepth, directory, returned, freed>>
  /\ inserting' \in Pair \cup {Idle}

LEMMA DataStep ==
  ASSUME Inv, Live, NEW b \in 1 .. Len(buckets), NEW data, NewData(b, data)
  PROVE  /\ Inv'
         /\ Len(buckets') = Len(buckets) /\ buckets'[b].data = data
         /\ \A c \in 1 .. Len(buckets) : c # b => buckets'[c] = buckets[c]
<1> USE DEF NewData
<1>1. TypeOK /\ Len(buckets) \in Nat
  BY DEF Inv, TypeOK
<1>2. [buckets[b] EXCEPT !.data = data] \in Bucket
  BY <1>1, BucketTypes DEF Bucket
<1>3. /\ buckets' \in Seq(Bucket) /\ Len(buckets') = Len(buckets)
      /\ buckets'[b] = [buckets[b] EXCEPT !.data = data]
      /\ \A c \in 1 .. Len(buckets) : c # b => buckets'[c] = buckets[c]
  <2> DEFINE e == [buckets[b] EXCEPT !.data = data]
  <2>1. buckets \in Seq(Bucket) /\ e \in Bucket
    BY <1>1, <1>2 DEF TypeOK
  <2>2. buckets' = [buckets EXCEPT ![b] = e]
    OBVIOUS
  <2> HIDE DEF e
  <2> DEFINE after == [buckets EXCEPT ![b] = e]
  <2>3. /\ after \in Seq(Bucket) /\ Len(after) = Len(buckets)
        /\ \A c \in 1 .. Len(buckets) : after[c] = IF c = b THEN e ELSE buckets[c]
    BY <2>1, ExceptSeq
  <2> HIDE DEF after
  <2>4. buckets' = after
    BY <2>2, Zenon DEF after
  <2> QED
    BY <2>3, <2>4 DEF e
<1>4. buckets'[b].data = data /\ buckets'[b].localdepth = buckets[b].localdepth
  BY <1>1, <1>3, BucketTypes DEF Bucket
<1>5. \A c \in 1 .. Len(buckets) : buckets'[c].localdepth = buckets[c].localdepth
  BY <1>3, <1>4
<1>6. TypeOK'
  BY <1>1, <1>3 DEF TypeOK, Entries, Live
<1>7. DepthsFit' /\ Reached'
  BY <1>3, <1>5 DEF Inv, DepthsFit, Reached, Entries
<1>8. DirectoryAgrees'
  BY <1>1, <1>5 DEF Inv, DirectoryAgrees, TypeOK
<1>9. Placed'
  <2>1. \A key : BucketOf(key)' = BucketOf(key)
    BY DEF BucketOf, Index
  <2>2. ASSUME NEW c \in 1 .. Len(buckets), NEW n \in DOMAIN buckets'[c].data
        PROVE  directory[Index(buckets'[c].data[n].key, globaldepth)] = c
    <3>1. CASE c = b
      BY <1>4, <2>2, <3>1 DEF BucketOf
    <3>2. CASE c # b
      BY <1>3, <2>2, <3>2 DEF Inv, Placed, BucketOf
    <3> QED
      BY <3>1, <3>2
  <2> QED
    BY <1>3, <2>2 DEF Placed, BucketOf
<1>10. WithinCapacity'
  <2>1. DOMAIN buckets' = 1 .. Len(buckets) /\ DOMAIN buckets = 1 .. Len(buckets)
    BY <1>1, <1>3 DEF TypeOK
  <2> QED
    BY <1>3, <1>4, <2>1 DEF Inv, WithinCapacity
<1>11. FreedOnce' /\ FreedAtRest'
  BY DEF FreedOnce, FreedAtRest, Live
<1> QED
  BY <1>3, <1>4, <1>6, <1>7, <1>8, <1>9, <1>10, <1>11 DEF Inv

-----------------------------------------------------------------------------
(* The invariant is inductive                                              *)

LEMMA InitInv == Init => Inv
<1> SUFFICES ASSUME Init PROVE Inv
  OBVIOUS
<1>1. 2 ^ globaldepth = 2 /\ globaldepth = 1
  <2>1. 2 ^ 0 = 1 /\ 2 ^ (0 + 1) = 2 * 2 ^ 0
    BY PowerStep
  <2> QED
    BY <2>1 DEF Init
<1>2. Entries = 0 .. 1
  BY <1>1 DEF Entries
<1>3. buckets = <<[localdepth |-> 1, data |-> <<>>], [localdepth |-> 1, data |-> <<>>]>>
  BY DEF Init
<1>4. /\ Len(buckets) = 2 /\ DOMAIN buckets = 1 .. 2
      /\ \A b \in 1 .. 2 : buckets[b] = [localdepth |-> 1, data |-> <<>>]
  BY <1>3
<1>5. TypeOK
  <2>1. [localdepth |-> 1, data |-> <<>>] \in Bucket
    BY DEF Bucket
  <2>2. buckets \in Seq(Bucket)
    BY <1>3, <2>1
  <2>3. directory \in [0 .. 1 -> 1 .. 2]
    BY DEF Init
  <2> QED
    BY <1>1, <1>2, <1>4, <2>2, <2>3, HashAssumption DEF Init, TypeOK
<1>6. DepthsFit
  BY <1>1, <1>4 DEF DepthsFit
<1>7. DirectoryAgrees
  <2>1. 2 ^ 1 = 2
    BY <1>1
  <2>2. DOMAIN directory = 0 .. 1 /\ \A i \in 0 .. 1 : directory[i] = i + 1
    BY DEF Init
  <2>3. \A i \in 0 .. 1 : buckets[directory[i]].localdepth = 1 /\ i % 2 = i
    BY <1>4, <2>2
  <2>4. \A i \in 0 .. 1 : 2 ^ buckets[directory[i]].localdepth = 2
    BY <2>1, <2>3
  <2>5. \A i, j \in 0 .. 1 : directory[i] = directory[j] <=> i % 2 = j % 2
    BY <2>2, <2>3
  <2> QED
    BY <2>2, <2>4, <2>5 DEF DirectoryAgrees
<1>8. Reached
  <2>1. \A b \in 1 .. 2 : b - 1 \in 0 .. 1 /\ directory[b - 1] = b
    BY DEF Init
  <2> QED
    BY <1>2, <1>4, <2>1 DEF Reached
<1>9. Placed /\ WithinCapacity
  <2>1. \A b \in 1 .. 2 : DOMAIN buckets[b].data = {} /\ Len(buckets[b].data) = 0
    BY <1>4
  <2>2. bsize \in Nat
    BY HashAssumption DEF Init
  <2> QED
    BY <1>4, <2>1, <2>2 DEF Placed, WithinCapacity
<1>10. FreedOnce /\ FreedAtRest
  BY DEF Init, FreedOnce, FreedAtRest, Live
<1> QED
  BY <1>5, <1>6, <1>7, <1>8, <1>9, <1>10 DEF Inv

\* A step that leaves the table alone and does not free it.
LEMMA FrameStep ==
  ASSUME Inv, UNCHANGED <<bsize, globaldepth, directory, buckets, freed>>,
         inserting' \in Pair \cup {Idle}, returned' \in Values \cup {Missing},
         Live \/ inserting' = inserting
  PROVE  Inv'
<1>1. TypeOK' /\ DepthsFit'
  BY DEF Inv, TypeOK, DepthsFit, Entries
<1>2. DirectoryAgrees' /\ Reached' /\ WithinCapacity'
  BY DEF Inv, DirectoryAgrees, Reached, WithinCapacity, Entries
<1>3. Placed'
  BY DEF Inv, Placed, BucketOf, Index
<1>4. FreedOnce' /\ FreedAtRest'
  BY DEF Inv, FreedOnce, FreedAtRest, Live
<1> QED
  BY <1>1, <1>2, <1>3, <1>4 DEF Inv

LEMMA InsertSplitsInv ==
  ASSUME Inv, InsertSplits
  PROVE  Inv'
<1> DEFINE b == BucketOf(inserting.key)
<1>1. /\ TypeOK /\ DepthsFit /\ DirectoryAgrees /\ Reached /\ Placed /\ WithinCapacity
      /\ FreedAtRest
  BY DEF Inv
<1>2. /\ inserting # Idle /\ SplitBucket(b)
      /\ UNCHANGED <<bsize, inserting, returned, freed>>
  BY DEF InsertSplits
<1>3. b \in 1 .. Len(buckets)
  BY <1>1, <1>2, InsertedKey, EntryOfKey
<1>4. Live
  BY <1>1, <1>2 DEF FreedAtRest
<1>5. FreedOnce' /\ FreedAtRest'
  BY <1>2, <1>4 DEF FreedOnce, FreedAtRest, Live
<1> HIDE DEF b
<1>6. TypeOK' /\ DepthsFit' /\ WithinCapacity'
  BY <1>1, <1>2, <1>3, <1>4, SplitTypes
<1>7. DirectoryAgrees'
  BY <1>1, <1>2, <1>3, SplitAgrees
<1>8. Reached'
  BY <1>1, <1>2, <1>3, SplitReached
<1>9. Placed'
  BY <1>1, <1>2, <1>3, SplitPlaced
<1> QED
  BY <1>5, <1>6, <1>7, <1>8, <1>9 DEF Inv

\* The new pair goes to the end of its bucket, which has room for it.
LEMMA AppendStep ==
  ASSUME Inv, InsertAppends
  PROVE  LET b == BucketOf(inserting.key)
             data == Append(buckets[b].data, inserting)
         IN /\ Inv' /\ inserting \in Pair
            /\ b \in 1 .. Len(buckets)
            /\ Len(buckets') = Len(buckets) /\ buckets'[b].data = data
            /\ \A c \in 1 .. Len(buckets) : c # b => buckets'[c] = buckets[c]
<1> DEFINE b == BucketOf(inserting.key)
           data == Append(buckets[b].data, inserting)
<1>1. TypeOK /\ Placed /\ FreedAtRest /\ bsize \in Nat
  BY DEF Inv, TypeOK
<1>2. /\ inserting # Idle /\ ~IsFull(b)
      /\ buckets' = [buckets EXCEPT ![b].data = Append(@, inserting)]
      /\ inserting' = Idle
      /\ UNCHANGED <<bsize, globaldepth, directory, returned, freed>>
  BY DEF InsertAppends
<1>3. inserting \in Pair /\ b \in 1 .. Len(buckets)
  BY <1>1, <1>2, InsertedKey, EntryOfKey
<1>4. Live
  BY <1>1, <1>2 DEF FreedAtRest
<1> HIDE DEF b
<1>5. buckets[b].data \in Seq(Pair) /\ Len(buckets[b].data) \in Nat
  BY <1>1, <1>3, BucketTypes
<1>6. /\ data \in Seq(Pair) /\ Len(data) = Len(buckets[b].data) + 1
      /\ \A n \in DOMAIN data : n \in DOMAIN buckets[b].data \/ data[n] = inserting
      /\ \A n \in DOMAIN buckets[b].data : data[n] = buckets[b].data[n]
  BY <1>3, <1>5
<1>7. Len(data) <= bsize
  BY <1>1, <1>2, <1>5, <1>6 DEF IsFull
<1>8. \A n \in DOMAIN data : BucketOf(data[n].key) = b
  BY <1>1, <1>3, <1>6 DEF Placed, b
<1>9. buckets' = [buckets EXCEPT ![b].data = data]
  BY <1>2
<1> HIDE DEF data
<1>10. /\ Inv' /\ Len(buckets') = Len(buckets) /\ buckets'[b].data = data
       /\ \A c \in 1 .. Len(buckets) : c # b => buckets'[c] = buckets[c]
  BY <1>2, <1>3, <1>4, <1>6, <1>7, <1>8, <1>9, DataStep DEF NewData
<1> QED
  BY <1>3, <1>10 DEF b, data

\* The first pair of a key.
LEMMA FirstPosition ==
  ASSUME Inv, NEW key \in Keys, Positions(key) # {}
  PROVE  /\ Min(Positions(key)) \in Positions(key)
         /\ Min(Positions(key)) \in 1 .. Len(Data(key))
         /\ Data(key)[Min(Positions(key))] \in Pair
         /\ Data(key)[Min(Positions(key))].key = key
<1>1. BucketOf(key) \in 1 .. Len(buckets)
  BY EntryOfKey DEF Inv
<1>2. /\ Data(key) \in Seq(Pair) /\ Len(Data(key)) \in Nat
      /\ DOMAIN Data(key) = 1 .. Len(Data(key))
  BY <1>1, BucketTypes DEF Inv, Data
<1>3. Positions(key) \in SUBSET Nat
  BY <1>2 DEF Positions
<1>4. \E x \in Positions(key) : \A y \in Positions(key) : x <= y
  BY <1>3, LeastNatural
<1>5. Min(Positions(key)) \in Positions(key)
  BY <1>4 DEF Min
<1>6. \A i \in Positions(key) : i \in DOMAIN Data(key) /\ Data(key)[i].key = key
  BY DEF Positions
<1> QED
  BY <1>2, <1>5, <1>6

LEMMA GetInv ==
  ASSUME Inv, NEW key \in Keys, hashtable_get(key)
  PROVE  Inv'
<1>1. /\ Live /\ UNCHANGED <<bsize, globaldepth, directory, buckets, inserting, freed>>
      /\ returned' = IF Positions(key) = {} THEN Missing
                     ELSE Data(key)[Min(Positions(key))].val
  BY DEF hashtable_get, Callable
<1>2. returned' \in Values \cup {Missing}
  BY <1>1, FirstPosition DEF Pair
<1>3. inserting' \in Pair \cup {Idle}
  BY <1>1 DEF Inv, TypeOK
<1> QED
  BY <1>1, <1>2, <1>3, FrameStep

\* The deleted pair gives its place to the last one of its bucket.
LEMMA DeleteStep ==
  ASSUME Inv, NEW key \in Keys, hashtable_delete(key)
  PROVE  LET b == BucketOf(key)
             first == Min(Positions(key))
             last == Len(buckets[b].data)
         IN /\ Inv'
            /\ b \in 1 .. Len(buckets) /\ first \in 1 .. last /\ last \in Nat
            /\ Len(buckets') = Len(buckets) /\ Len(buckets'[b].data) = last - 1
            /\ \A n \in 1 .. last - 1 :
                 buckets'[b].data[n] = buckets[b].data[IF n = first THEN last ELSE n]
            /\ \A c \in 1 .. Len(buckets) : c # b => buckets'[c] = buckets[c]
<1> DEFINE b == BucketOf(key)
           old == buckets[b].data
           first == Min(Positions(key))
           last == Len(old)
           moved == [old EXCEPT ![first] = old[last]]
           data == SubSeq(moved, 1, last - 1)
<1>1. TypeOK /\ Placed /\ WithinCapacity /\ bsize \in Nat
  BY DEF Inv, TypeOK
<1>2. /\ Live /\ inserting = Idle /\ Positions(key) # {}
      /\ buckets' = [buckets EXCEPT ![b].data = data]
      /\ UNCHANGED <<bsize, globaldepth, directory, inserting, returned, freed>>
  BY DEF hashtable_delete, Callable, Data
<1>3. b \in 1 .. Len(buckets)
  BY <1>1, EntryOfKey
<1>4. first \in 1 .. last
  BY <1>2, FirstPosition DEF Data
<1> HIDE DEF b, first
<1>5. /\ old \in Seq(Pair) /\ last \in Nat /\ DOMAIN old = 1 .. last
      /\ last <= bsize
  <2>1. DOMAIN buckets = 1 .. Len(buckets)
    BY <1>1 DEF TypeOK
  <2> QED
    BY <1>1, <1>3, <2>1, BucketTypes DEF WithinCapacity
<1> HIDE DEF old
<1>6. /\ moved \in Seq(Pair) /\ Len(moved) = last
      /\ \A n \in 1 .. last : moved[n] = IF n = first THEN old[last] ELSE old[n]
  BY <1>4, <1>5
<1> HIDE DEF last, moved
<1>7. /\ data \in Seq(Pair) /\ Len(data) = last - 1 /\ last - 1 \in Nat
      /\ \A n \in 1 .. last - 1 : data[n] = moved[n]
  <2>1. /\ last \in Nat /\ last - 1 \in Nat /\ last - 1 \in Int
        /\ \A n \in 1 .. last - 1 : n \in 1 .. last /\ 1 + n - 1 = n
    BY <1>4, <1>5 DEF last
  <2>2. \A n \in 1 .. last - 1 : moved[n] \in Pair
    BY <1>6, <2>1
  <2>3. /\ data \in Seq(Pair)
        /\ Len(data) = IF 1 <= last - 1 THEN (last - 1) - 1 + 1 ELSE 0
        /\ \A n \in 1 .. (last - 1) - 1 + 1 : data[n] = moved[1 + n - 1]
    BY <2>1, <2>2, SubSeqProperties
  <2> QED
    BY <2>1, <2>3
<1> HIDE DEF data
<1>8. \A n \in 1 .. last - 1 :
        /\ data[n] = old[IF n = first THEN last ELSE n]
        /\ (IF n = first THEN last ELSE n) \in 1 .. last
  BY <1>4, <1>5, <1>6, <1>7 DEF last
<1>9. \A n \in DOMAIN data : BucketOf(data[n].key) = b
  <2>1. \A n \in 1 .. last : BucketOf(old[n].key) = b
    BY <1>1, <1>3, <1>5 DEF Placed, old, last
  <2>2. DOMAIN data = 1 .. last - 1
    BY <1>7
  <2> QED
    BY <1>8, <2>1, <2>2
<1>10. Len(data) <= bsize
  BY <1>1, <1>5, <1>7 DEF last
<1>11. inserting' \in Pair \cup {Idle}
  BY <1>2
<1>12. /\ Inv' /\ Len(buckets') = Len(buckets) /\ buckets'[b].data = data
       /\ \A c \in 1 .. Len(buckets) : c # b => buckets'[c] = buckets[c]
  <2>1. Live /\ buckets' = [buckets EXCEPT ![b].data = data]
    BY <1>2, Zenon
  <2>2. UNCHANGED <<bsize, globaldepth, directory, returned, freed>>
    BY <1>2, Zenon
  <2>3. data \in Seq(Pair)
    BY <1>7, Zenon
  <2>4. NewData(b, data)
    BY <1>9, <1>10, <1>11, <2>1, <2>2, <2>3, Zenon DEF NewData
  <2> QED
    BY <1>3, <2>1, <2>4, DataStep, Zenon
<1> QED
  BY <1>3, <1>4, <1>5, <1>7, <1>8, <1>12 DEF b, old, first, last

\* hashtable_free meets each bucket at the first entry that points to it.
LEMMA FreeInv ==
  ASSUME Inv, hashtable_free
  PROVE  Inv'
<1>1. TypeOK /\ Reached /\ Len(buckets) \in Nat /\ DOMAIN buckets = 1 .. Len(buckets)
  BY DEF Inv, TypeOK
<1>2. /\ inserting = Idle
      /\ UNCHANGED <<bsize, globaldepth, directory, buckets, inserting, returned>>
      /\ freed' = [b \in DOMAIN buckets |->
                    Cardinality({i \in DOMAIN directory :
                                   directory[i] = b /\ FirstEntry(i)})]
  BY DEF hashtable_free, Callable
<1>3. ASSUME NEW b \in 1 .. Len(buckets) PROVE freed'[b] = 1
  <2> DEFINE T == {i \in Entries : directory[i] = b}
             firsts == {i \in DOMAIN directory : directory[i] = b /\ FirstEntry(i)}
  <2>1. T # {}
    BY <1>1 DEF Reached
  <2>2. T \in SUBSET Nat
    BY DEF Entries
  <2>3. PICK x \in T : \A y \in T : x <= y
    BY <2>1, <2>2, LeastNatural
  <2>4. DOMAIN directory = Entries /\ Entries \subseteq Nat
    BY <1>1 DEF TypeOK, Entries
  <2>5. \A i \in Entries, j \in Nat : j <= i => j \in Entries
    <3> DEFINE top == 2 ^ globaldepth - 1
    <3>1. top \in Int
      BY <1>1, PowerType DEF TypeOK
    <3> HIDE DEF top
    <3>2. \A i \in 0 .. top, j \in Nat : j <= i => j \in 0 .. top
      BY <3>1
    <3> QED
      BY <3>2 DEF top, Entries
  <2>6. FirstEntry(x)
    <3> SUFFICES ASSUME NEW j \in 0 .. x - 1, directory[j] = directory[x] PROVE FALSE
      BY DEF FirstEntry
    <3>1. x \in Nat /\ x \in Entries /\ directory[x] = b
      BY <2>2, <2>3
    <3>2. j \in Nat /\ j <= x /\ ~(x <= j)
      BY <3>1
    <3>3. j \in T
      BY <2>5, <3>1, <3>2
    <3> QED
      BY <2>3, <3>2, <3>3
  <2>7. ASSUME NEW i \in firsts PROVE i = x
    <3>1. i \in T /\ i \in Nat /\ x \in Nat /\ x <= i /\ FirstEntry(i)
      BY <2>2, <2>3, <2>4
    <3>2. directory[x] = directory[i]
      BY <2>3, <3>1
    <3>3. x \notin 0 .. i - 1
      BY <3>1, <3>2 DEF FirstEntry
    <3> QED
      BY <3>1, <3>3
  <2>8. x \in firsts
    BY <2>3, <2>4, <2>6
  <2>9. firsts = {x}
    <3> HIDE DEF firsts
    <3> QED
      BY <2>7, <2>8
  <2>10. Cardinality(firsts) = 1
    BY <2>9, FS_Singleton
  <2>11. freed'[b] = Cardinality(firsts)
    BY <1>1, <1>2
  <2> QED
    BY <2>10, <2>11
<1>4. FreedOnce' /\ FreedAtRest'
  BY <1>1, <1>2, <1>3 DEF FreedOnce, FreedAtRest
<1>5. TypeOK' /\ DepthsFit'
  <2>1. freed' \in [1 .. Len(buckets) -> Nat]
    <3>1. freed' = [b \in 1 .. Len(buckets) |-> freed'[b]]
      BY <1>1, <1>2
    <3> QED
      BY <1>3, <3>1
  <2> QED
    BY <1>2, <2>1 DEF Inv, TypeOK, DepthsFit, Entries
<1>6. DirectoryAgrees' /\ Reached' /\ WithinCapacity'
  BY <1>2 DEF Inv, DirectoryAgrees, Reached, WithinCapacity, Entries
<1>7. Placed'
  BY <1>2 DEF Inv, Placed, BucketOf, Index
<1> QED
  BY <1>4, <1>5, <1>6, <1>7 DEF Inv

LEMMA NextInv ==
  ASSUME Inv, [Next]_vars
  PROVE  Inv'
<1>1. ASSUME NEW key \in Keys, NEW val \in Values, BeginInsert(key, val)
      PROVE  Inv'
  <2>1. /\ Live /\ inserting' = [key |-> key, val |-> val]
        /\ UNCHANGED <<bsize, globaldepth, directory, buckets, returned, freed>>
    BY <1>1 DEF BeginInsert
  <2>2. inserting' \in Pair /\ returned' \in Values \cup {Missing}
    BY <2>1 DEF Pair, Inv, TypeOK
  <2> QED
    BY <2>1, <2>2, FrameStep
<1>2. CASE InsertAppends
  BY <1>2, AppendStep
<1>3. CASE UNCHANGED vars
  <2>1. UNCHANGED <<bsize, globaldepth, directory, buckets, inserting, returned, freed>>
    BY <1>3 DEF vars
  <2>2. inserting' \in Pair \cup {Idle} /\ returned' \in Values \cup {Missing}
    BY <2>1 DEF Inv, TypeOK
  <2> QED
    BY <2>1, <2>2, FrameStep
<1>4. ASSUME NEW key \in Keys, hashtable_delete(key) PROVE Inv'
  BY <1>4, DeleteStep
<1> QED
  BY <1>1, <1>2, <1>3, <1>4, InsertSplitsInv, GetInv, FreeInv DEF Next

THEOREM InvHolds == Spec => []Inv
<1>1. Init => Inv
  BY InitInv
<1>2. Inv /\ [Next]_vars => Inv'
  BY NextInv
<1> QED
  BY <1>1, <1>2, PTL DEF Spec

THEOREM TypeCorrect == Spec => []TypeOK
<1>1. Inv => TypeOK
  BY DEF Inv
<1> QED
  BY <1>1, InvHolds, PTL

\* Splits and doublings leave no stale entry in the directory: two entries lead
\* to one bucket exactly if they agree on the bits of its local depth.
THEOREM DirectoryAgreesHolds == Spec => []DirectoryAgrees
<1>1. Inv => DirectoryAgrees
  BY DEF Inv
<1> QED
  BY <1>1, InvHolds, PTL

\* Every pair, however often its bucket was split since it came, is in the
\* bucket that the directory gives for the hash of its key, the only one a get
\* or a delete of that key looks at.
THEOREM PairsPlaced ==
  Spec => [](\A b \in 1 .. Len(buckets) : \A n \in DOMAIN buckets[b].data :
               directory[Index(buckets[b].data[n].key, globaldepth)] = b)
<1>1. Inv => \A b \in 1 .. Len(buckets) : \A n \in DOMAIN buckets[b].data :
               directory[Index(buckets[b].data[n].key, globaldepth)] = b
  BY DEF Inv, Placed, BucketOf
<1> QED
  BY <1>1, InvHolds, PTL

\* No insert and no split writes past the array of a bucket.
THEOREM WithinCapacityHolds == Spec => []WithinCapacity
<1>1. Inv => WithinCapacity
  BY DEF Inv
<1> QED
  BY <1>1, InvHolds, PTL

\* hashtable_free frees every bucket once, whichever entries share it.
THEOREM FreedOnceHolds == Spec => []FreedOnce
<1>1. Inv => FreedOnce
  BY DEF Inv
<1> QED
  BY <1>1, InvHolds, PTL

-----------------------------------------------------------------------------
(* The table is a bag of pairs                                             *)

\* Where a pair is in a sequence of buckets.
Cells(bs, pair) ==
  {p \in Nat \X Nat : /\ p[1] \in 1 .. Len(bs)
                      /\ p[2] \in 1 .. Len(bs[p[1]].data)
                      /\ bs[p[1]].data[p[2]] = pair}

Wanted(q) == [key |-> q[1], val |-> q[2]]

\* The bag of ImplementsBag.
Count == [q \in Keys \X Values |->
            Cardinality({p \in AllPairs :
              buckets[p[1]].data[p[2]] = [key |-> q[1], val |-> q[2]]})]

CountsCells ==
  /\ Count = [q \in Keys \X Values |-> Cardinality(Cells(buckets, Wanted(q)))]
  /\ \A q \in Keys \X Values : /\ IsFiniteSet(Cells(buckets, Wanted(q)))
                               /\ Wanted(q) \in Pair

LEMMA CountsCellsHolds == Inv => CountsCells
<1> SUFFICES ASSUME Inv PROVE CountsCells
  OBVIOUS
<1>1. /\ TypeOK /\ Len(buckets) \in Nat /\ bsize \in Nat
      /\ \A b \in 1 .. Len(buckets) : Len(buckets[b].data) \in Nat
      /\ \A b \in 1 .. Len(buckets) : Len(buckets[b].data) <= bsize
  <2>1. DOMAIN buckets = 1 .. Len(buckets)
    BY DEF Inv, TypeOK
  <2>2. TypeOK /\ Len(buckets) \in Nat /\ bsize \in Nat
    BY DEF Inv, TypeOK
  <2>3. \A b \in 1 .. Len(buckets) : Len(buckets[b].data) \in Nat
    BY <2>2, BucketTypes
  <2>4. \A b \in 1 .. Len(buckets) : Len(buckets[b].data) <= bsize
    BY <2>1 DEF Inv, WithinCapacity
  <2> QED
    BY <2>2, <2>3, <2>4
<1> DEFINE places == (1 .. Len(buckets)) \X (1 .. bsize)
<1>2. IsFiniteSet(places)
  <2>1. IsFiniteSet(1 .. Len(buckets)) /\ IsFiniteSet(1 .. bsize)
    BY <1>1, FS_Interval
  <2> QED
    BY <2>1, FS_Product
<1>3. ASSUME NEW q \in Keys \X Values
      PROVE  /\ Cells(buckets, Wanted(q))
                  = {p \in AllPairs :
                       buckets[p[1]].data[p[2]] = [key |-> q[1], val |-> q[2]]}
             /\ IsFiniteSet(Cells(buckets, Wanted(q))) /\ Wanted(q) \in Pair
  <2>1. \A b \in 1 .. Len(buckets) : \A n \in Nat :
          n \in 1 .. Len(buckets[b].data)
            <=> n \in 1 .. bsize /\ n <= Len(buckets[b].data)
    BY <1>1
  <2>2. 1 .. Len(buckets) \subseteq Nat /\ 1 .. bsize \subseteq Nat
    OBVIOUS
  <2>3. ASSUME NEW p
        PROVE  p \in Cells(buckets, Wanted(q))
                 <=> p \in {r \in AllPairs : buckets[r[1]].data[r[2]] = Wanted(q)}
    BY <2>1, <2>2 DEF Cells, AllPairs
  <2>4. Cells(buckets, Wanted(q))
          = {r \in AllPairs : buckets[r[1]].data[r[2]] = Wanted(q)}
    BY <2>3
  <2>5. Cells(buckets, Wanted(q)) \in SUBSET places
    BY <2>4 DEF AllPairs
  <2>6. IsFiniteSet(Cells(buckets, Wanted(q)))
    BY <1>2, <2>5, FS_Subset
  <2>7. Wanted(q) \in Pair
    BY DEF Wanted, Pair
  <2> QED
    BY <2>4, <2>6, <2>7 DEF Wanted
<1> QED
  BY <1>3 DEF CountsCells, Count

\* One pair is there d times more often, every other as often as before.
LEMMA CountStep ==
  ASSUME CountsCells, CountsCells', NEW q \in Keys \X Values, NEW d \in Int,
         \A r \in Keys \X Values :
           Cardinality(Cells(buckets', Wanted(r)))
             = Cardinality(Cells(buckets, Wanted(r))) + (IF r = q THEN d ELSE 0)
  PROVE  Count' = [Count EXCEPT ![q] = @ + d]
<1>1. \A r \in Keys \X Values : Cardinality(Cells(buckets, Wanted(r))) \in Nat
  BY FS_CardinalityType DEF CountsCells
<1>2. Count' = [r \in Keys \X Values |-> Cardinality(Cells(buckets', Wanted(r)))]
  BY DEF CountsCells, Wanted
<1>3. Count = [r \in Keys \X Values |-> Cardinality(Cells(buckets, Wanted(r)))]
  BY DEF CountsCells
<1> DEFINE old == [r \in Keys \X Values |-> Cardinality(Cells(buckets, Wanted(r)))]
           new == [r \in Keys \X Values |-> Cardinality(Cells(buckets', Wanted(r)))]
<1>4. \A r \in Keys \X Values : old[r] \in Nat /\ new[r] = old[r] + (IF r = q THEN d ELSE 0)
  BY <1>1
<1>5. /\ DOMAIN old = Keys \X Values /\ DOMAIN new = Keys \X Values
      /\ new = [r \in DOMAIN new |-> new[r]]
  OBVIOUS
<1> HIDE DEF old, new
<1>6. new = [old EXCEPT ![q] = @ + d]
  BY <1>4, <1>5
<1> QED
  BY <1>2, <1>3, <1>6 DEF old, new

LEMMA CountSame ==
  ASSUME CountsCells, CountsCells',
         \A r \in Keys \X Values :
           Cardinality(Cells(buckets', Wanted(r))) = Cardinality(Cells(buckets, Wanted(r)))
  PROVE  Count' = Count
<1>1. Count' = [r \in Keys \X Values |-> Cardinality(Cells(buckets', Wanted(r)))]
  BY DEF CountsCells, Wanted
<1> QED
  BY <1>1 DEF CountsCells

\* A cell, by its bucket and its position.
LEMMA CellOf ==
  ASSUME NEW bs, NEW pair, NEW b \in Nat, NEW n \in Nat
  PROVE  <<b, n>> \in Cells(bs, pair)
           <=> /\ b \in 1 .. Len(bs) /\ n \in 1 .. Len(bs[b].data)
               /\ bs[b].data[n] = pair
BY DEF Cells

LEMMA CellShape ==
  ASSUME NEW bs, NEW pair, NEW p \in Cells(bs, pair)
  PROVE  /\ p = <<p[1], p[2]>> /\ p[1] \in Nat /\ p[2] \in Nat
         /\ p[1] \in 1 .. Len(bs) /\ p[2] \in 1 .. Len(bs[p[1]].data)
         /\ bs[p[1]].data[p[2]] = pair
BY DEF Cells

\* The pair that an insert appends gets one cell.
LEMMA AppendCounts ==
  ASSUME Inv, CountsCells, CountsCells', InsertAppends
  PROVE  Count' = [Count EXCEPT ![<<inserting.key, inserting.val>>] = @ + 1]
<1> DEFINE b == BucketOf(inserting.key)
           old == buckets[b].data
           last == Len(old) + 1
           data == Append(old, inserting)
<1>1. /\ inserting \in Pair /\ b \in 1 .. Len(buckets)
      /\ Len(buckets') = Len(buckets) /\ buckets'[b].data = data
      /\ \A c \in 1 .. Len(buckets) : c # b => buckets'[c] = buckets[c]
  BY AppendStep
<1> HIDE DEF b
<1>2. old \in Seq(Pair) /\ Len(old) \in Nat /\ Len(buckets) \in Nat
  BY <1>1, BucketTypes DEF Inv, TypeOK
<1>3. /\ Len(data) = last /\ data[last] = inserting /\ last \in Nat
      /\ \A n \in 1 .. Len(old) : data[n] = old[n]
      /\ \A n \in Nat : n \in 1 .. last <=> n \in 1 .. Len(old) \/ n = last
      /\ last \notin 1 .. Len(old) /\ b \in Nat
  <2>1. \A n \in 1 .. Len(old) : data[n] = old[n]
    BY <1>1, <1>2
  <2> QED
    BY <1>1, <1>2, <2>1
<1> HIDE DEF data, last
<1>4. ASSUME NEW pair
      PROVE  Cells(buckets', pair)
               = Cells(buckets, pair) \cup (IF pair = inserting THEN {<<b, last>>} ELSE {})
  <2> DEFINE new == Cells(buckets, pair)
                      \cup (IF pair = inserting THEN {<<b, last>>} ELSE {})
  <2>1. ASSUME NEW c \in Nat, NEW n \in Nat
        PROVE  <<c, n>> \in Cells(buckets', pair) <=> <<c, n>> \in new
    <3>1. CASE c = b
      BY <1>1, <1>3, <3>1, CellOf
    <3>2. CASE c # b
      <4>1. <<c, n>> # <<b, last>>
        BY <3>2
      <4>2. <<c, n>> \in Cells(buckets', pair)
              <=> /\ c \in 1 .. Len(buckets') /\ n \in 1 .. Len(buckets'[c].data)
                  /\ buckets'[c].data[n] = pair
        BY DEF Cells
      <4>3. <<c, n>> \in Cells(buckets, pair)
              <=> /\ c \in 1 .. Len(buckets) /\ n \in 1 .. Len(buckets[c].data)
                  /\ buckets[c].data[n] = pair
        BY DEF Cells
      <4>4. Len(buckets') = Len(buckets)
            /\ (c \in 1 .. Len(buckets) => buckets'[c] = buckets[c])
        BY <1>1, <3>2
      <4>5. <<c, n>> \in Cells(buckets', pair) <=> <<c, n>> \in Cells(buckets, pair)
        BY <4>2, <4>3, <4>4
      <4> QED
        BY <4>1, <4>5
    <3> QED
      BY <3>1, <3>2
  <2>2. \A p \in new \cup Cells(buckets', pair) :
          \E c \in Nat, n \in Nat : p = <<c, n>>
    <3>1. \A p \in Nat \X Nat : \E c \in Nat, n \in Nat : p = <<c, n>>
      OBVIOUS
    <3>2. new \cup Cells(buckets', pair) \subseteq Nat \X Nat
      BY <1>3 DEF Cells
    <3> HIDE DEF new
    <3> QED
      BY <3>1, <3>2
  <2> HIDE DEF new
  <2>3. Cells(buckets', pair) = new
    BY <2>1, <2>2
  <2> QED
    BY <2>3 DEF new
<1>5. PICK key \in Keys, val \in Values : inserting = [key |-> key, val |-> val]
  BY <1>1 DEF Pair
<1> DEFINE q == <<key, val>>
<1>6. \A r \in Keys \X Values : Wanted(r) = inserting <=> r = q
  BY <1>5 DEF Wanted
<1>7. ASSUME NEW r \in Keys \X Values
      PROVE  Cardinality(Cells(buckets', Wanted(r)))
               = Cardinality(Cells(buckets, Wanted(r))) + (IF r = q THEN 1 ELSE 0)
  <2>1. /\ IsFiniteSet(Cells(buckets, Wanted(r)))
        /\ Cardinality(Cells(buckets, Wanted(r))) \in Nat
    BY FS_CardinalityType DEF CountsCells
  <2>2. <<b, last>> \notin Cells(buckets, Wanted(r))
    BY <1>3, CellOf
  <2>3. CASE r = q
    <3>1. Cells(buckets', Wanted(r)) = Cells(buckets, Wanted(r)) \cup {<<b, last>>}
      BY <1>4, <1>6, <2>3
    <3> QED
      BY <2>1, <2>2, <2>3, <3>1, FS_AddElement
  <2>4. CASE r # q
    <3>1. Cells(buckets', Wanted(r)) = Cells(buckets, Wanted(r)) \cup {}
      BY <1>4, <1>6, <2>4
    <3> QED
      BY <2>1, <2>4, <3>1
  <2> QED
    BY <2>3, <2>4
<1>8. q \in Keys \X Values
  OBVIOUS
<1> HIDE DEF q
<1>9. Count' = [Count EXCEPT ![q] = @ + 1]
  BY <1>7, <1>8, CountStep
<1> QED
  BY <1>5, <1>9 DEF q

\* A delete takes one cell of one pair away: the last cell of the bucket takes
\* the place of the one that is left.
LEMMA DeleteCounts ==
  ASSUME Inv, CountsCells, CountsCells', NEW key \in Keys, hashtable_delete(key)
  PROVE  \E val \in Values :
           /\ Count[<<key, val>>] > 0
           /\ Count' = [Count EXCEPT ![<<key, val>>] = @ - 1]
<1> DEFINE b == BucketOf(key)
           old == buckets[b].data
           first == Min(Positions(key))
           last == Len(old)
           gone == <<b, first>>
<1>1. /\ b \in 1 .. Len(buckets) /\ first \in 1 .. last /\ last \in Nat
      /\ Len(buckets') = Len(buckets) /\ Len(buckets'[b].data) = last - 1
      /\ \A n \in 1 .. last - 1 :
           buckets'[b].data[n] = old[IF n = first THEN last ELSE n]
      /\ \A c \in 1 .. Len(buckets) : c # b => buckets'[c] = buckets[c]
  BY DeleteStep
<1>2. old[first] \in Pair /\ old[first].key = key
  <2>1. Positions(key) # {}
    BY DEF hashtable_delete
  <2> QED
    BY <2>1, FirstPosition DEF Data
<1> HIDE DEF b, first
<1>3. PICK val \in Values : old[first] = [key |-> key, val |-> val]
  BY <1>2 DEF Pair
<1> DEFINE q == <<key, val>>
<1>4. \A r \in Keys \X Values : Wanted(r) = old[first] <=> r = q
  BY <1>3 DEF Wanted
<1>5. /\ Len(buckets) \in Nat /\ b \in Nat /\ first \in Nat
      /\ \A n \in Nat : n \in 1 .. last <=> n \in 1 .. last - 1 \/ n = last
      /\ last \notin 1 .. last - 1
  <2>1. Len(buckets) \in Nat
    BY DEF Inv, TypeOK
  <2> QED
    BY <1>1, <2>1
<1>6. ASSUME NEW pair
      PROVE  ExistsBijection(Cells(buckets, pair) \ {gone}, Cells(buckets', pair))
  <2> DEFINE S == Cells(buckets, pair) \ {gone}
             T == Cells(buckets', pair)
             f == [p \in S |-> IF p = <<b, last>> THEN gone ELSE p]
  <2>1. ASSUME NEW p \in S
        PROVE  f[p] \in T
    <3>1. /\ p = <<p[1], p[2]>> /\ p[1] \in Nat /\ p[2] \in Nat
          /\ p[1] \in 1 .. Len(buckets) /\ p[2] \in 1 .. Len(buckets[p[1]].data)
          /\ buckets[p[1]].data[p[2]] = pair /\ p # gone
      BY CellShape
    <3>2. CASE p[1] # b
      <4>1. f[p] = p
        BY <3>2
      <4>2. <<p[1], p[2]>> \in T
        BY <1>1, <3>1, <3>2, CellOf
      <4> QED
        BY <3>1, <4>1, <4>2
    <3>3. CASE p[1] = b /\ p[2] # last
      <4>1. f[p] = p
        BY <3>3
      <4>2. p[2] \in 1 .. last - 1 /\ p[2] # first
        BY <1>5, <3>1, <3>3
      <4>3. buckets'[b].data[p[2]] = pair
        BY <1>1, <3>1, <3>3, <4>2
      <4>4. <<p[1], p[2]>> \in T
        BY <1>1, <3>1, <3>3, <4>2, <4>3, CellOf
      <4> QED
        BY <3>1, <4>1, <4>4
    <3>4. CASE p[1] = b /\ p[2] = last
      <4>1. f[p] = gone /\ first # last
        BY <3>1, <3>4
      <4>2. first \in 1 .. last - 1
        BY <1>1, <1>5, <4>1
      <4>3. buckets'[b].data[first] = pair
        BY <1>1, <3>1, <3>4, <4>2
      <4>4. gone \in T
        BY <1>1, <1>5, <4>2, <4>3, CellOf
      <4> QED
        BY <4>1, <4>4
    <3> QED
      BY <3>2, <3>3, <3>4
  <2>2. \A p, r \in S : f[p] = f[r] => p = r
    OBVIOUS
  <2>3. ASSUME NEW t \in T
        PROVE  \E p \in S : f[p] = t
    <3>1. /\ t = <<t[1], t[2]>> /\ t[1] \in Nat /\ t[2] \in Nat
          /\ t[1] \in 1 .. Len(buckets') /\ t[2] \in 1 .. Len(buckets'[t[1]].data)
          /\ buckets'[t[1]].data[t[2]] = pair
      BY CellShape
    <3>2. CASE t[1] # b
      <4>1. <<t[1], t[2]>> \in Cells(buckets, pair)
        BY <1>1, <3>1, <3>2, CellOf
      <4>2. t \in S /\ t # <<b, last>>
        BY <3>1, <3>2, <4>1
      <4> QED
        BY <4>2
    <3>3. CASE t[1] = b /\ t[2] # first
      <4>1. t[2] \in 1 .. last - 1 /\ t[2] \in 1 .. last /\ t[2] # last
        BY <1>1, <1>5, <3>1, <3>3
      <4>2. old[t[2]] = pair
        BY <1>1, <3>1, <3>3, <4>1
      <4>3. <<t[1], t[2]>> \in Cells(buckets, pair)
        BY <1>1, <3>1, <3>3, <4>1, <4>2, CellOf
      <4>4. t \in S /\ t # <<b, last>>
        BY <3>1, <3>3, <4>1, <4>3
      <4> QED
        BY <4>4
    <3>4. CASE t[1] = b /\ t[2] = first
      <4>1. first \in 1 .. last - 1 /\ first # last /\ last \in 1 .. last
        BY <1>1, <1>5, <3>1, <3>4
      <4>2. old[last] = pair
        BY <1>1, <3>1, <3>4, <4>1
      <4>3. <<b, last>> \in Cells(buckets, pair)
        BY <1>1, <1>5, <4>1, <4>2, CellOf
      <4>4. <<b, last>> \in S /\ t = gone
        BY <3>1, <3>4, <4>1, <4>3
      <4> HIDE DEF S, gone
      <4>5. f[<<b, last>>] = t
        BY <4>4
      <4> QED
        BY <4>4, <4>5
    <3> QED
      BY <3>2, <3>3, <3>4
  <2>4. f \in Bijection(S, T)
    <3>1. f \in [S -> T]
      BY <2>1
    <3> HIDE DEF f, S, T
    <3> QED
      BY <2>2, <2>3, <3>1, Fun_IsBij
  <2> QED
    BY <2>4 DEF ExistsBijection
<1>7. ASSUME NEW r \in Keys \X Values
      PROVE  /\ Cardinality(Cells(buckets', Wanted(r)))
                  = Cardinality(Cells(buckets, Wanted(r))) + (IF r = q THEN -1 ELSE 0)
             /\ r = q => Cardinality(Cells(buckets, Wanted(r))) > 0
  <2> DEFINE S == Cells(buckets, Wanted(r))
  <2>1. IsFiniteSet(S) /\ Cardinality(S) \in Nat
    BY FS_CardinalityType DEF CountsCells
  <2>2. gone \in S <=> r = q
    <3>0. b \in Nat /\ first \in Nat
      BY <1>5
    <3>1. gone \in S <=> /\ b \in 1 .. Len(buckets) /\ first \in 1 .. Len(buckets[b].data)
                         /\ buckets[b].data[first] = Wanted(r)
      BY <3>0 DEF Cells
    <3> QED
      BY <1>1, <1>4, <3>1
  <2>3. /\ IsFiniteSet(S \ {gone})
        /\ Cardinality(S \ {gone}) = IF gone \in S THEN Cardinality(S) - 1
                                     ELSE Cardinality(S)
    BY <2>1, FS_RemoveElement
  <2>4. Cardinality(Cells(buckets', Wanted(r))) = Cardinality(S \ {gone})
    BY <1>6, <2>3, FS_Bijection
  <2>5. r = q => Cardinality(S) # 0
    BY <2>1, <2>2, FS_EmptySet
  <2> QED
    BY <2>1, <2>2, <2>3, <2>4, <2>5
<1>8. q \in Keys \X Values
  OBVIOUS
<1> HIDE DEF q
<1>9. Count' = [Count EXCEPT ![q] = @ + (-1)]
  BY <1>7, <1>8, CountStep
<1>10. Count[q] = Cardinality(Cells(buckets, Wanted(q)))
  BY <1>8 DEF CountsCells
<1>11. Count[q] > 0 /\ Count[q] \in Nat
  <2>1. IsFiniteSet(Cells(buckets, Wanted(q)))
    BY <1>8 DEF CountsCells
  <2> QED
    BY <1>7, <1>8, <1>10, <2>1, FS_CardinalityType
<1>12. Count' = [Count EXCEPT ![q] = @ - 1]
  BY <1>9, <1>11
<1> QED
  BY <1>11, <1>12 DEF q

\* A split moves every pair to one place, and leaves none behind.
LEMMA SplitCells ==
  ASSUME Inv, NEW b \in 1 .. Len(buckets), SplitBucket(b), NEW pair
  PROVE  ExistsBijection(Cells(buckets, pair), Cells(buckets', pair))
<1> DEFINE old == buckets[b].data
           stay == Staying(b)
           move == Moving(b)
<1>1. /\ TypeOK /\ DepthsFit /\ old \in Seq(Pair) /\ Len(old) \in Nat
      /\ DOMAIN old = 1 .. Len(old) /\ b \in Nat
  BY BucketTypes DEF Inv
<1>2. buckets'[b] = [localdepth |-> Depth(b) + 1, data |-> Kept(old, stay)]
  BY <1>1, SplitShape
<1>3. buckets'[New] = [localdepth |-> Depth(b) + 1, data |-> Kept(old, move)]
  BY <1>1, SplitShape
<1>4. /\ \A c \in 1 .. Len(buckets) : c # b => buckets'[c] = buckets[c]
      /\ Len(buckets') = New /\ New \in Nat
  BY <1>1, SplitShape
<1>5. /\ b # New /\ New \notin 1 .. Len(buckets) /\ b \in 1 .. New /\ New \in 1 .. New
      /\ \A c \in Nat : c \in 1 .. New <=> c \in 1 .. Len(buckets) \/ c = New
  BY <1>1 DEF New, TypeOK
<1>6. /\ stay \in SUBSET DOMAIN old /\ move \in SUBSET DOMAIN old
      /\ \A n \in DOMAIN old : n \in stay <=> n \notin move
  BY DEF Staying, Moving
<1> HIDE DEF old, stay, move
<1>7. /\ Len(Kept(old, stay)) = Cardinality(stay) /\ Cardinality(stay) \in Nat
      /\ \A i \in stay : /\ Rank(stay, i) \in 1 .. Cardinality(stay)
                         /\ Kept(old, stay)[Rank(stay, i)] = old[i]
      /\ \A i, k \in stay : Rank(stay, i) = Rank(stay, k) => i = k
      /\ \A n \in 1 .. Cardinality(stay) : \E i \in stay : Rank(stay, i) = n
  BY <1>1, <1>6, KeptProperties
<1>8. /\ Len(Kept(old, move)) = Cardinality(move) /\ Cardinality(move) \in Nat
      /\ \A i \in move : /\ Rank(move, i) \in 1 .. Cardinality(move)
                         /\ Kept(old, move)[Rank(move, i)] = old[i]
      /\ \A i, k \in move : Rank(move, i) = Rank(move, k) => i = k
      /\ \A n \in 1 .. Cardinality(move) : \E i \in move : Rank(move, i) = n
  BY <1>1, <1>6, KeptProperties
<1> DEFINE S == Cells(buckets, pair)
           T == Cells(buckets', pair)
           f == [p \in S |-> IF p[1] # b THEN p
                            ELSE IF p[2] \in move THEN <<New, Rank(move, p[2])>>
                            ELSE <<b, Rank(stay, p[2])>>]
<1>9. ASSUME NEW p \in S
      PROVE  /\ p = <<p[1], p[2]>> /\ p[1] \in Nat /\ p[2] \in Nat
             /\ p[1] \in 1 .. Len(buckets) /\ p[2] \in 1 .. Len(buckets[p[1]].data)
             /\ buckets[p[1]].data[p[2]] = pair
             /\ p[1] = b => /\ p[2] \in DOMAIN old /\ old[p[2]] = pair
                            /\ p[2] \in stay \/ p[2] \in move
  <2>1. /\ p = <<p[1], p[2]>> /\ p[1] \in Nat /\ p[2] \in Nat
        /\ p[1] \in 1 .. Len(buckets) /\ p[2] \in 1 .. Len(buckets[p[1]].data)
        /\ buckets[p[1]].data[p[2]] = pair
    BY CellShape
  <2>2. p[1] = b => p[2] \in DOMAIN old /\ old[p[2]] = pair
    BY <1>1, <2>1 DEF old
  <2> QED
    BY <1>6, <2>1, <2>2
<1>10. ASSUME NEW p \in S
       PROVE  f[p] \in T
  <2>1. CASE p[1] # b
    <3>1. <<p[1], p[2]>> \in T
      BY <1>4, <1>5, <1>9, <2>1, CellOf
    <3> QED
      BY <1>9, <2>1, <3>1
  <2>2. CASE p[1] = b /\ p[2] \in move
    <3>1. f[p] = <<New, Rank(move, p[2])>>
      BY <2>2
    <3>2. /\ Rank(move, p[2]) \in 1 .. Len(buckets'[New].data) /\ Rank(move, p[2]) \in Nat
          /\ buckets'[New].data[Rank(move, p[2])] = pair
      BY <1>3, <1>8, <1>9, <2>2
    <3>3. <<New, Rank(move, p[2])>> \in T
      BY <1>4, <1>5, <3>2, CellOf
    <3> QED
      BY <3>1, <3>3
  <2>3. CASE p[1] = b /\ p[2] \notin move
    <3>1. f[p] = <<b, Rank(stay, p[2])>> /\ p[2] \in stay
      BY <1>9, <2>3
    <3>2. /\ Rank(stay, p[2]) \in 1 .. Len(buckets'[b].data) /\ Rank(stay, p[2]) \in Nat
          /\ buckets'[b].data[Rank(stay, p[2])] = pair
      BY <1>2, <1>7, <1>9, <2>3, <3>1
    <3>3. <<b, Rank(stay, p[2])>> \in T
      BY <1>1, <1>4, <1>5, <3>2, CellOf
    <3> QED
      BY <3>1, <3>3
  <2> QED
    BY <2>1, <2>2, <2>3
<1>11. ASSUME NEW p \in S, NEW r \in S, f[p] = f[r]
       PROVE  p = r
  <2>1. p = <<p[1], p[2]>> /\ r = <<r[1], r[2]>>
    BY <1>9
  <2>2. p[1] # New /\ r[1] # New
    BY <1>5, <1>9
  <2>3. CASE p[1] # b
    BY <1>5, <1>11, <2>1, <2>2, <2>3
  <2>4. CASE p[1] = b /\ p[2] \in move
    <3>1. f[p] = <<New, Rank(move, p[2])>>
      BY <2>4
    <3>2. r[1] = b /\ r[2] \in move
      BY <1>5, <1>11, <2>1, <2>2, <3>1
    <3>3. Rank(move, p[2]) = Rank(move, r[2])
      BY <1>11, <3>1, <3>2
    <3>4. p[2] = r[2]
      BY <1>8, <2>4, <3>2, <3>3
    <3> QED
      BY <2>1, <2>4, <3>2, <3>4
  <2>5. CASE p[1] = b /\ p[2] \notin move
    <3>1. f[p] = <<b, Rank(stay, p[2])>> /\ p[2] \in stay
      BY <1>9, <2>5
    <3>2. r[1] = b /\ r[2] \notin move
      BY <1>5, <1>11, <2>1, <2>2, <3>1
    <3>3. Rank(stay, p[2]) = Rank(stay, r[2]) /\ r[2] \in stay
      BY <1>9, <1>11, <3>1, <3>2
    <3>4. p[2] = r[2]
      BY <1>7, <3>1, <3>3
    <3> QED
      BY <2>1, <2>5, <3>2, <3>4
  <2> QED
    BY <2>3, <2>4, <2>5
<1>12. ASSUME NEW t \in T
       PROVE  \E p \in S : f[p] = t
  <2>1. /\ t = <<t[1], t[2]>> /\ t[1] \in Nat /\ t[2] \in Nat
        /\ t[1] \in 1 .. Len(buckets') /\ t[2] \in 1 .. Len(buckets'[t[1]].data)
        /\ buckets'[t[1]].data[t[2]] = pair
    BY CellShape
  <2>2. CASE t[1] = New
    <3>1. t[2] \in 1 .. Cardinality(move) /\ Kept(old, move)[t[2]] = pair
      BY <1>3, <1>8, <2>1, <2>2
    <3>2. PICK i \in move : Rank(move, i) = t[2]
      BY <1>8, <3>1
    <3>3. i \in DOMAIN old /\ i \in Nat /\ old[i] = pair
      BY <1>1, <1>6, <1>8, <3>1, <3>2
    <3>4. <<b, i>> \in S
      BY <1>1, <3>3, CellOf DEF old
    <3> HIDE DEF S
    <3>5. f[<<b, i>>] = <<New, Rank(move, i)>>
      BY <3>2, <3>4
    <3> QED
      BY <2>1, <2>2, <3>2, <3>4, <3>5
  <2>3. CASE t[1] = b
    <3>1. t[2] \in 1 .. Cardinality(stay) /\ Kept(old, stay)[t[2]] = pair
      BY <1>2, <1>7, <2>1, <2>3
    <3>2. PICK i \in stay : Rank(stay, i) = t[2]
      BY <1>7, <3>1
    <3>3. i \in DOMAIN old /\ i \in Nat /\ old[i] = pair /\ i \notin move
      BY <1>1, <1>6, <1>7, <3>1, <3>2
    <3>4. <<b, i>> \in S
      BY <1>1, <3>3, CellOf DEF old
    <3> HIDE DEF S
    <3>5. f[<<b, i>>] = <<b, Rank(stay, i)>>
      BY <3>3, <3>4
    <3> QED
      BY <2>1, <2>3, <3>2, <3>4, <3>5
  <2>4. CASE t[1] # b /\ t[1] # New
    <3>1. t[1] \in 1 .. Len(buckets) /\ buckets'[t[1]] = buckets[t[1]]
      BY <1>4, <1>5, <2>1, <2>4
    <3>2. <<t[1], t[2]>> \in S
      BY <2>1, <3>1, CellOf
    <3> QED
      BY <2>1, <2>4, <3>2
  <2> QED
    BY <2>2, <2>3, <2>4
<1>13. f \in Bijection(S, T)
  <2>1. f \in [S -> T]
    BY <1>10
  <2> HIDE DEF f, S, T
  <2> QED
    BY <1>11, <1>12, <2>1, Fun_IsBij
<1> QED
  BY <1>13 DEF ExistsBijection

LEMMA SplitCounts ==
  ASSUME Inv, CountsCells, CountsCells', InsertSplits
  PROVE  Count' = Count
<1>1. SplitBucket(BucketOf(inserting.key)) /\ inserting # Idle
  BY DEF InsertSplits
<1>2. BucketOf(inserting.key) \in 1 .. Len(buckets)
  BY <1>1, InsertedKey, EntryOfKey DEF Inv
<1>3. ASSUME NEW r \in Keys \X Values
      PROVE  Cardinality(Cells(buckets', Wanted(r)))
               = Cardinality(Cells(buckets, Wanted(r)))
  <2>1. ExistsBijection(Cells(buckets, Wanted(r)), Cells(buckets', Wanted(r)))
    BY <1>1, <1>2, SplitCells
  <2>2. IsFiniteSet(Cells(buckets, Wanted(r)))
    BY DEF CountsCells
  <2> QED
    BY <2>1, <2>2, FS_Bijection
<1> QED
  BY <1>3, CountSame

\* A search finds a pair of its key exactly when the table holds one.
LEMMA GetFinds ==
  ASSUME Inv, CountsCells, NEW key \in Keys, hashtable_get(key)
  PROVE  returned' \in IF {v \in Values : Count[<<key, v>>] > 0} = {} THEN {Missing}
                       ELSE {v \in Values : Count[<<key, v>>] > 0}
<1> DEFINE b == BucketOf(key)
           held == {v \in Values : Count[<<key, v>>] > 0}
<1>1. returned' = IF Positions(key) = {} THEN Missing
                  ELSE Data(key)[Min(Positions(key))].val
  BY DEF hashtable_get
<1>2. b \in 1 .. Len(buckets) /\ Len(buckets) \in Nat /\ b \in Nat
  <2>1. b \in 1 .. Len(buckets) /\ Len(buckets) \in Nat
    BY EntryOfKey DEF Inv, TypeOK
  <2> QED
    BY <2>1
<1>3. ASSUME NEW v \in Values
      PROVE  v \in held <=> Cells(buckets, [key |-> key, val |-> v]) # {}
  <2>1. <<key, v>> \in Keys \X Values /\ Wanted(<<key, v>>) = [key |-> key, val |-> v]
    BY DEF Wanted
  <2> DEFINE C == Cells(buckets, [key |-> key, val |-> v])
  <2>2. Count[<<key, v>>] = Cardinality(C) /\ IsFiniteSet(C)
    BY <2>1 DEF CountsCells
  <2> HIDE DEF C
  <2>3. Cardinality(C) \in Nat /\ (Cardinality(C) = 0 <=> C = {})
    BY <2>2, FS_EmptySet, FS_CardinalityType
  <2> QED
    BY <2>2, <2>3 DEF C
<1>4. CASE Positions(key) = {}
  <2>1. ASSUME NEW v \in held PROVE FALSE
    <3>1. PICK p \in Cells(buckets, [key |-> key, val |-> v]) : TRUE
      BY <1>3
    <3>2. /\ p[1] \in 1 .. Len(buckets) /\ p[2] \in 1 .. Len(buckets[p[1]].data)
          /\ buckets[p[1]].data[p[2]] = [key |-> key, val |-> v]
      BY CellShape
    <3>3. p[2] \in DOMAIN buckets[p[1]].data /\ buckets[p[1]].data[p[2]].key = key
      BY <3>2, BucketTypes DEF Inv
    <3>4. BucketOf(key) = p[1]
      BY <3>2, <3>3 DEF Inv, Placed
    <3> QED
      BY <1>4, <3>3, <3>4 DEF Positions, Data
  <2>2. held = {}
    BY <2>1
  <2> HIDE DEF held
  <2>3. returned' = Missing
    BY <1>1, <1>4
  <2> QED
    BY <2>2, <2>3 DEF held
<1>5. CASE Positions(key) # {}
  <2> DEFINE n == Min(Positions(key))
  <2>1. /\ n \in 1 .. Len(buckets[b].data) /\ buckets[b].data[n] \in Pair
        /\ buckets[b].data[n].key = key
    BY <1>5, FirstPosition DEF Data
  <2> HIDE DEF n
  <2>2. PICK v \in Values : buckets[b].data[n] = [key |-> key, val |-> v]
    BY <2>1 DEF Pair
  <2>3. n \in Nat
    BY <1>2, <2>1, BucketTypes DEF Inv
  <2>4. <<b, n>> \in Cells(buckets, [key |-> key, val |-> v])
    BY <1>2, <2>1, <2>2, <2>3, CellOf
  <2>5. v \in held
    BY <1>3, <2>4
  <2>6. returned' = v
    BY <1>1, <1>5, <2>2 DEF n, Data
  <2> HIDE DEF held
  <2>7. returned' \in held /\ held # {}
    BY <2>5, <2>6
  <2> QED
    BY <2>7 DEF held
<1> QED
  BY <1>4, <1>5

\* Every operation is the one of the bag it stands for: an insert when its pair
\* is appended, however many splits came before.
LEMMA StepOfBag ==
  ASSUME Inv, CountsCells, Inv', CountsCells'
  PROVE  /\ \A key \in Keys :
              /\ hashtable_get(key) => Bag!Get(key)
              /\ hashtable_delete(key) => Bag!Delete(key)
              /\ \A val \in Values : BeginInsert(key, val) => UNCHANGED Bag!vars
         /\ InsertAppends => Bag!Insert(inserting.key, inserting.val)
         /\ InsertSplits \/ hashtable_free => UNCHANGED Bag!vars
<1>1. ASSUME UNCHANGED <<bsize, buckets, returned>>
      PROVE  UNCHANGED Bag!vars
  BY <1>1 DEF Bag!vars, AllPairs
<1>2. ASSUME NEW key \in Keys, NEW val \in Values, BeginInsert(key, val)
      PROVE  UNCHANGED Bag!vars
  BY <1>1, <1>2 DEF BeginInsert
<1>3. ASSUME InsertSplits
      PROVE  UNCHANGED Bag!vars
  <2>1. returned' = returned /\ Count' = Count
    BY <1>3, SplitCounts DEF InsertSplits
  <2> QED
    BY <2>1 DEF Bag!vars, Count
<1>4. ASSUME InsertAppends
      PROVE  Bag!Insert(inserting.key, inserting.val)
  <2>1. Count' = [Count EXCEPT ![<<inserting.key, inserting.val>>] = @ + 1]
    BY <1>4, AppendCounts
  <2>2. returned' = returned
    BY <1>4 DEF InsertAppends
  <2> QED
    BY <2>1, <2>2 DEF Bag!Insert, Count
<1>5. ASSUME NEW key \in Keys, hashtable_get(key)
      PROVE  Bag!Get(key)
  <2>1. UNCHANGED <<bsize, buckets>>
    BY <1>5 DEF hashtable_get
  <2>2. Count' = Count
    BY <2>1 DEF Count, AllPairs
  <2> QED
    BY <1>5, <2>2, GetFinds DEF Bag!Get, Bag!ValuesOf, Count
<1>6. ASSUME NEW key \in Keys, hashtable_delete(key)
      PROVE  Bag!Delete(key)
  <2>1. PICK val \in Values : /\ Count[<<key, val>>] > 0
                              /\ Count' = [Count EXCEPT ![<<key, val>>] = @ - 1]
    BY <1>6, DeleteCounts
  <2>2. returned' = returned
    BY <1>6 DEF hashtable_delete
  <2> QED
    BY <2>1, <2>2 DEF Bag!Delete, Bag!ValuesOf, Count
<1>7. ASSUME hashtable_free
      PROVE  UNCHANGED Bag!vars
  BY <1>1, <1>7 DEF hashtable_free
<1> QED
  BY <1>2, <1>3, <1>4, <1>5, <1>6, <1>7

LEMMA InitOfBag == Init => Bag!Init
<1> SUFFICES ASSUME Init PROVE Bag!Init
  OBVIOUS
<1>1. \A p \in AllPairs : FALSE
  <2>1. Len(buckets) = 2 /\ \A b \in 1 .. 2 : buckets[b].data = <<>>
    BY DEF Init
  <2>2. \A b \in 1 .. 2, n \in 1 .. bsize : ~(n <= Len(buckets[b].data))
    BY <2>1
  <2> QED
    BY <2>1, <2>2 DEF AllPairs
<1>2. \A q : {p \in AllPairs : buckets[p[1]].data[p[2]] = [key |-> q[1], val |-> q[2]]} = {}
  BY <1>1
<1>3. Count = [q \in Keys \X Values |-> 0]
  BY <1>2, FS_EmptySet DEF Count
<1> QED
  BY <1>3 DEF Init, Bag!Init, Bag!Pairs, Count

\* The table behaves as a bag of pairs, for every hash function and every
\* capacity: a get of a key returns the value of one of its pairs if there is
\* one, a delete takes one such pair away, an insert adds its pair, and splits,
\* doublings and the free change nothing of what can be found.
THEOREM ImplementsBagHolds == Spec => ImplementsBag
<1>1. Inv => CountsCells
  BY CountsCellsHolds
<1>2. Inv /\ CountsCells /\ Inv' /\ CountsCells'
      => [/\ \A key \in Keys :
               /\ hashtable_get(key) => Bag!Get(key)
               /\ hashtable_delete(key) => Bag!Delete(key)
               /\ \A val \in Values : BeginInsert(key, val) => UNCHANGED Bag!vars
          /\ InsertAppends => Bag!Insert(inserting.key, inserting.val)
          /\ InsertSplits \/ hashtable_free => UNCHANGED Bag!vars]_vars
  BY StepOfBag
<1> QED
  BY <1>1, <1>2, InvHolds, InitOfBag, PTL DEF Spec, ImplementsBag
=============================================================================
