------------------------------ MODULE ExtHash ------------------------------
(***************************************************************************)
(* The extendible hash table of src/src/algorithm/hashtable.c: a directory *)
(* of 2 ^ globaldepth pointers to buckets, doubled when a full bucket that *)
(* uses all the directory's bits has to be split.                          *)
(*                                                                         *)
(* An operator named Mut... is a faulty variant of the one that follows    *)
(* it; the mutation checks put it in that one's place, and the             *)
(* specification never uses it.                                            *)
(***************************************************************************)
EXTENDS Integers, Sequences, FiniteSets, FiniteSetsExt

CONSTANTS Keys, Values,
          Missing,      \* what a get that returns 0 stands for
          Hash,         \* hash_function, a function on Keys
          BucketSizes,  \* what hashtable_construct is given
          MaxDepth,     \* bound on the bits of the directory
          MaxPairs      \* bound on the pairs in the table

ASSUME HashAssumption ==
  /\ Hash \in [Keys -> Nat] /\ Missing \notin Values
  /\ BucketSizes \subseteq Nat \ {0} /\ MaxDepth \in Nat \ {0} /\ MaxPairs \in Nat

VARIABLES bsize,       \* pairs a bucket has room for
          globaldepth,
          directory,   \* [0 .. 2^globaldepth - 1 -> bucket], the pointers
          buckets,     \* the buckets in order of their creation:
                       \* [localdepth, data], counter is Len(data)
          inserting,   \* the pair of the insert in progress, or Idle
          returned,    \* what the last hashtable_get gave
          freed        \* how often hashtable_free freed each bucket, <<>>
                       \* while the table lives

vars == <<bsize, globaldepth, directory, buckets, inserting, returned, freed>>

Pair == [key : Keys, val : Values]
Idle == <<>>

Live == freed = <<>>

DirectorySize == 2 ^ globaldepth

Bit(n, depth) == (n \div 2 ^ depth) % 2

\* hash_function_index, for a directory of the given depth.
Index(key, depth) == Hash[key] % 2 ^ depth

BucketOf(key) == directory[Index(key, globaldepth)]

Data(key) == buckets[BucketOf(key)].data

Positions(key) == {i \in DOMAIN Data(key) : Data(key)[i].key = key}

IsFull(b) == Len(buckets[b].data) >= bsize

AllPairs == {p \in (1 .. Len(buckets)) \X (1 .. bsize) :
               p[2] <= Len(buckets[p[1]].data)}

\* As many pairs as a bucket holds agree with key on all MaxDepth bits: for a
\* key whose whole hash they have, the loop of hashtable_insert never ends.
Saturated(key) ==
  Cardinality({p \in AllPairs :
                 Index(buckets[p[1]].data[p[2]].key, MaxDepth)
                   = Index(key, MaxDepth)}) >= bsize

-----------------------------------------------------------------------------
\* hashtable_construct
Init == /\ bsize \in BucketSizes
        /\ globaldepth = 1
        /\ directory = [i \in 0 .. 1 |-> i + 1]
        /\ buckets = [b \in 1 .. 2 |-> [localdepth |-> 1, data |-> <<>>]]
        /\ inserting = Idle /\ returned = Missing /\ freed = <<>>

\* The call of hashtable_insert, up to its loop.
BeginInsert(key, val) ==
  /\ Live /\ inserting = Idle
  /\ Cardinality(AllPairs) < MaxPairs
  /\ inserting' = [key |-> key, val |-> val]
  /\ UNCHANGED <<bsize, globaldepth, directory, buckets, returned, freed>>

\* The bucket uses all bits of the directory.
NeedsDoubling(b) == buckets[b].localdepth = globaldepth

\* Where entry i of the directory comes from.
MutOrigin(i) == i \div 2

Origin(i) == i % DirectorySize

\* The directory after its doubling, if the split of b needs one.
Doubled(b) ==
  [i \in 0 .. (IF NeedsDoubling(b) THEN 2 ELSE 1) * DirectorySize - 1 |->
     directory[IF NeedsDoubling(b) THEN Origin(i) ELSE i]]

\* The pairs of data at the positions of keep, in the order of data.
Rank(keep, i) == Cardinality({j \in keep : j <= i})

Kept(data, keep) ==
  [n \in 1 .. Cardinality(keep) |->
     data[CHOOSE i \in keep : Rank(keep, i) = n]]

\* split_bucket: the pairs whose hash has the next bit go to a new bucket.
SplitBucket(b) ==
  LET depth  == buckets[b].localdepth
      new    == Len(buckets) + 1
      data   == buckets[b].data
      moving == {i \in DOMAIN data : Bit(Hash[data[i].key], depth) = 1}
  IN /\ globaldepth' = globaldepth + (IF NeedsDoubling(b) THEN 1 ELSE 0)
     /\ buckets' = Append(
          [buckets EXCEPT ![b] = [localdepth |-> depth + 1,
                                  data |-> Kept(data, DOMAIN data \ moving)]],
          [localdepth |-> depth + 1, data |-> Kept(data, moving)])
     /\ directory' = [i \in DOMAIN Doubled(b) |->
                        IF Doubled(b)[i] = b /\ Bit(i, depth) = 1
                        THEN new ELSE Doubled(b)[i]]

MutInsertNeverDoubles ==
  /\ inserting # Idle /\ IsFull(BucketOf(inserting.key))
  /\ buckets[BucketOf(inserting.key)].localdepth < globaldepth
  /\ SplitBucket(BucketOf(inserting.key))
  /\ UNCHANGED <<bsize, inserting, returned, freed>>

\* One turn of the loop of hashtable_insert, as long as the bound allows it: a
\* saturated insert is left in its loop.
InsertSplits ==
  /\ inserting # Idle /\ IsFull(BucketOf(inserting.key))
  /\ NeedsDoubling(BucketOf(inserting.key)) => globaldepth < MaxDepth
  /\ SplitBucket(BucketOf(inserting.key))
  /\ UNCHANGED <<bsize, inserting, returned, freed>>

MutInsertOverflows ==
  /\ inserting # Idle /\ Len(Data(inserting.key)) <= bsize
  /\ buckets' = [buckets EXCEPT ![BucketOf(inserting.key)].data =
                   Append(@, inserting)]
  /\ inserting' = Idle
  /\ UNCHANGED <<bsize, globaldepth, directory, returned, freed>>

InsertAppends ==
  /\ inserting # Idle /\ ~IsFull(BucketOf(inserting.key))
  /\ buckets' = [buckets EXCEPT ![BucketOf(inserting.key)].data =
                   Append(@, inserting)]
  /\ inserting' = Idle
  /\ UNCHANGED <<bsize, globaldepth, directory, returned, freed>>

Callable == Live /\ inserting = Idle

\* hashtable_get: the first pair of the key.
hashtable_get(key) ==
  /\ Callable
  /\ returned' = IF Positions(key) = {} THEN Missing
                 ELSE Data(key)[Min(Positions(key))].val
  /\ UNCHANGED <<bsize, globaldepth, directory, buckets, inserting, freed>>

MutDelete(key) ==
  /\ Callable /\ Positions(key) # {}
  /\ LET i == Min(Positions(key))
     IN buckets' = [buckets EXCEPT ![BucketOf(key)].data =
                      SubSeq(@, 1, i - 1)]
  /\ UNCHANGED <<bsize, globaldepth, directory, inserting, returned, freed>>

\* hashtable_delete: the last pair takes the place of the first of the key.
hashtable_delete(key) ==
  /\ Callable /\ Positions(key) # {}
  /\ LET data == Data(key)
         last == Len(data)
     IN buckets' = [buckets EXCEPT ![BucketOf(key)].data =
          SubSeq([data EXCEPT ![Min(Positions(key))] = data[last]], 1, last - 1)]
  /\ UNCHANGED <<bsize, globaldepth, directory, inserting, returned, freed>>

MutFirstEntry(i) == i = i

\* hashtable_free: a bucket goes with the first entry that points to it.
FirstEntry(i) == \A j \in 0 .. i - 1 : directory[j] # directory[i]

hashtable_free ==
  /\ Callable
  /\ freed' = [b \in DOMAIN buckets |->
                 Cardinality({i \in DOMAIN directory :
                                directory[i] = b /\ FirstEntry(i)})]
  /\ UNCHANGED <<bsize, globaldepth, directory, buckets, inserting, returned>>

Next ==
  \/ \E key \in Keys : \/ \E val \in Values : BeginInsert(key, val)
                       \/ hashtable_get(key)
                       \/ hashtable_delete(key)
  \/ InsertSplits
  \/ InsertAppends
  \/ hashtable_free

\* A call that has begun goes on to its return.
Spec == Init /\ [][Next]_vars /\ WF_vars(InsertSplits \/ InsertAppends)

-----------------------------------------------------------------------------
(* Properties                                                              *)

\* A bucket of local depth d hangs on the 2^(globaldepth - d) entries that
\* agree on the low d bits, and on no other: splits of other buckets and
\* doublings of the directory in between leave no stale entry.
DirectoryAgrees ==
  \A i, j \in DOMAIN directory :
    directory[i] = directory[j]
      <=> i % 2 ^ buckets[directory[i]].localdepth
            = j % 2 ^ buckets[directory[i]].localdepth

\* No bucket holds more pairs than its array data has room for.
WithinCapacity == \A b \in DOMAIN buckets : Len(buckets[b].data) <= bsize

\* hashtable_free frees every bucket exactly once, however many entries of
\* the directory share it.
FreedOnce == ~Live => \A b \in DOMAIN buckets : freed[b] = 1

Bag == INSTANCE PairBag WITH
         bag <- [q \in Keys \X Values |->
                   Cardinality({p \in AllPairs :
                     buckets[p[1]].data[p[2]] = [key |-> q[1], val |-> q[2]]})]

\* The table is a bag of pairs: a get of a key returns the value of one of its
\* pairs if it has any, a delete of a key takes one of its pairs away, and an
\* insert adds its own pair when it appends it; no split or doubling on the way,
\* and no free, adds, moves out of reach or loses a pair.
ImplementsBag ==
  /\ Bag!Init
  /\ [][/\ \A key \in Keys :
             /\ hashtable_get(key) => Bag!Get(key)
             /\ hashtable_delete(key) => Bag!Delete(key)
             /\ \A val \in Values : BeginInsert(key, val) => UNCHANGED Bag!vars
        /\ InsertAppends => Bag!Insert(inserting.key, inserting.val)
        /\ InsertSplits \/ hashtable_free => UNCHANGED Bag!vars]_vars

\* An insert returns, after as many splits as it takes, unless a bucketful of
\* pairs cannot be told apart from its key.
InsertReturns ==
  inserting # Idle /\ ~Saturated(inserting.key) ~> inserting = Idle
=============================================================================
