---------------------------- MODULE MesiProofs ----------------------------
(***************************************************************************)
(* Theorems about Mesi, for every number of processors, every set of       *)
(* values and every number of rounds.                                      *)
(***************************************************************************)
EXTENDS Mesi, FiniteSetTheorems, TLAPS

\* The loop of main runs only while its bound is not reached.
Running == pc \in {"op", "check"} => round < Rounds

-----------------------------------------------------------------------------
(* Type correctness                                                        *)

\* Every variable keeps the type the program gives it; what makes that
\* inductive for the loop counter is Running.
THEOREM TypeCorrect == Spec => [](TypeOK /\ Running)
<1> USE DEF TypeOK, Running
<1>1. Init => TypeOK /\ Running
  BY MesiAssumption DEF Init, States, Words
<1>2. ASSUME TypeOK, Running, [Next]_vars PROVE (TypeOK /\ Running)'
  <2>1. CASE UNCHANGED vars
    BY <1>2, <2>1 DEF vars
  <2>2. CASE Check
    <3>1. round \in 0 .. Rounds /\ round < Rounds /\ Rounds \in Nat
      BY <1>2, <2>2, MesiAssumption DEF Check
    <3>2. CASE CheckState
      BY <1>2, <2>2, <3>1, <3>2 DEF Check, lines
    <3>3. CASE ~CheckState
      BY <1>2, <2>2, <3>1, <3>3 DEF Check, lines
    <3> QED
      BY <3>2, <3>3
  <2>3. ASSUME NEW i \in Processors, Read(i) PROVE (TypeOK /\ Running)'
    <3>1. CASE ReadHit(i)
      BY <1>2, <2>3, <3>1 DEF Read, Operate, ReadHit, lines
    <3>2. ASSUME NEW j \in Processors, Supply(i, j)
          PROVE  (TypeOK /\ Running)'
      BY <1>2, <2>3, <3>2 DEF Read, Operate, Supply, States
    <3>3. CASE ReadMissFromMemory(i)
      BY <1>2, <2>3, <3>3 DEF Read, Operate, ReadMissFromMemory, States
    <3> QED
      BY <2>3, <3>1, <3>2, <3>3 DEF Read, ReadCacheline, ReadMissSupplied
  <2>4. ASSUME NEW i \in Processors, Write(i) PROVE (TypeOK /\ Running)'
    <3>1. PICK v \in Values : WriteCacheline(i, v)
      BY <2>4 DEF Write
    <3>2. ASSUME NEW gone, Own(i, v, gone)
          PROVE  /\ state' \in [Processors -> States]
                 /\ value' \in [Processors -> Words]
                 /\ readValue' \in Words
      BY <1>2, <3>2 DEF Own, States, Words
    <3>3. /\ \E gone : Own(i, v, gone)
          /\ mem' \in Words
      BY <1>2, <3>1 DEF WriteCacheline, WriteHitOwned, WriteHitShared,
         WriteMissOwnerElsewhere, WriteMissSharedElsewhere, WriteMissAlone
    <3> QED
      BY <1>2, <2>4, <3>2, <3>3 DEF Write, Operate
  <2>5. ASSUME NEW i \in Processors, Evict(i) PROVE (TypeOK /\ Running)'
    <3>1. CASE EvictModified(i)
      BY <1>2, <2>5, <3>1 DEF Evict, Operate, EvictModified, Drop, States, Words
    <3>2. CASE EvictExclusive(i)
      BY <1>2, <2>5, <3>2 DEF Evict, Operate, EvictExclusive, Drop, States, Words
    <3>3. CASE EvictShared(i)
      BY <1>2, <2>5, <3>3 DEF Evict, Operate, EvictShared, States, Words
    <3>4. CASE EvictInvalid(i)
      BY <1>2, <2>5, <3>4 DEF Evict, Operate, EvictInvalid, lines
    <3> QED
      BY <2>5, <3>1, <3>2, <3>3, <3>4 DEF Evict, EvictCacheline
  <2> QED
    BY <1>2, <2>1, <2>2, <2>3, <2>4, <2>5 DEF Next
<1> QED
  BY <1>1, <1>2, PTL DEF Spec

-----------------------------------------------------------------------------
(* Coherence                                                               *)

\* What a step does to the lines, case by case, whoever takes it: the proofs
\* below split on this rather than on the actions of main.
LineStep ==
  \/ UNCHANGED lines
  \/ \E i \in Processors :
       \/ ReadMissSupplied(i) \/ ReadMissFromMemory(i)
       \/ \E v \in Values : WriteCacheline(i, v)
       \/ EvictModified(i) \/ EvictExclusive(i) \/ EvictShared(i)

LEMMA StepIsLineStep == ASSUME [Next]_vars PROVE LineStep
BY DEF Next, vars, lines, LineStep, Check, Read, Write, Evict, ReadCacheline,
   EvictCacheline, ReadHit, EvictInvalid

\* The owner's copy is the only one, a shared copy is not alone, and every
\* clean copy is what memory holds: each step keeps the three together.  The
\* second needs the promotion of the last sharer, the third the write back
\* of a dirty copy that is read by another processor.
LEMMA CoherenceStep ==
  ASSUME TypeOK, Exclusion, CleanCopies, LineStep
  PROVE  Exclusion' /\ CleanCopies'
<1> USE DEF TypeOK, Exclusion, CleanCopies, NoOtherCopy, HasCopy, States
<1>1. CASE UNCHANGED lines
  BY <1>1 DEF lines
<1>2. ASSUME NEW i \in Processors, ReadMissSupplied(i)
      PROVE  Exclusion' /\ CleanCopies'
  <2>1. PICK j \in Processors : FirstHolder(i, j) /\ Supply(i, j)
    BY <1>2 DEF ReadMissSupplied
  <2>2. /\ i # j /\ state[i] = "INVALID" /\ state[j] # "INVALID"
        /\ \A k \in Processors \ {i, j} : state[k] \in {"SHARED", "INVALID"}
        /\ mem' = value[j]
    BY <1>2, <2>1 DEF ReadMissSupplied, FirstHolder, Supply
  <2>3. Exclusion'
    BY <2>1, <2>2 DEF Supply
  <2>4. CleanCopies'
    BY <2>1, <2>2 DEF Supply
  <2> QED
    BY <2>3, <2>4
<1>3. ASSUME NEW i \in Processors, ReadMissFromMemory(i)
      PROVE  Exclusion' /\ CleanCopies'
  BY <1>3 DEF ReadMissFromMemory
<1>4. ASSUME NEW i \in Processors, NEW v \in Values, WriteCacheline(i, v)
      PROVE  Exclusion' /\ CleanCopies'
  <2>1. /\ state'[i] = "MODIFIED"
        /\ \A k \in Processors \ {i} : state'[k] = "INVALID"
    <3>1. CASE WriteHitOwned(i, v)
      BY <3>1 DEF WriteHitOwned, Own
    <3>2. CASE WriteHitShared(i, v)
      BY <3>2 DEF WriteHitShared, Own
    <3>3. CASE WriteMissOwnerElsewhere(i, v)
      BY <3>3 DEF WriteMissOwnerElsewhere, FirstHolder, Own
    <3>4. CASE WriteMissSharedElsewhere(i, v)
      BY <3>4 DEF WriteMissSharedElsewhere, Own
    <3>5. CASE WriteMissAlone(i, v)
      BY <3>5 DEF WriteMissAlone, Own
    <3> QED
      BY <1>4, <3>1, <3>2, <3>3, <3>4, <3>5 DEF WriteCacheline
  <2> QED
    BY <2>1
<1>5. ASSUME NEW i \in Processors, EvictModified(i) \/ EvictExclusive(i)
      PROVE  Exclusion' /\ CleanCopies'
  <2>1. \A k \in Processors : state'[k] = "INVALID"
    BY <1>5 DEF EvictModified, EvictExclusive, Drop
  <2> QED
    BY <2>1
<1>6. ASSUME NEW i \in Processors, EvictShared(i)
      PROVE  Exclusion' /\ CleanCopies'
  <2> DEFINE left == Holders("SHARED") \ {i}
  <2>1. /\ \A k \in Processors : state[k] \in {"SHARED", "INVALID"}
        /\ \A k \in Processors : k \in left <=> k # i /\ state[k] = "SHARED"
    BY <1>6 DEF EvictShared, Holders
  <2>2. CASE \E k \in Processors : left = {k}
    BY <1>6, <2>1, <2>2 DEF EvictShared
  <2>3. CASE ~\E k \in Processors : left = {k}
    <3>1. state' = [k \in Processors |-> IF k = i THEN "INVALID" ELSE state[k]]
      BY <1>6, <2>3 DEF EvictShared
    <3>2. ASSUME NEW k \in Processors, state'[k] = "SHARED"
          PROVE  \E j \in Processors \ {k} : state'[j] = "SHARED"
      BY <2>1, <2>3, <3>1, <3>2 DEF Holders
    <3> QED
      BY <1>6, <2>1, <3>1, <3>2 DEF EvictShared
  <2> QED
    BY <2>2, <2>3
<1> QED
  BY <1>1, <1>2, <1>3, <1>4, <1>5, <1>6 DEF LineStep

\* After every operation an owner has the only copy and a shared copy has a
\* fellow (the table of check_state, mesi.c:53-59).
THEOREM ExclusionHolds == Spec => []Exclusion
<1>1. Init => Exclusion /\ CleanCopies
  BY DEF Init, Exclusion, CleanCopies
<1>2. TypeOK /\ Exclusion /\ CleanCopies /\ [Next]_vars
        => (Exclusion /\ CleanCopies)'
  BY CoherenceStep, StepIsLineStep
<1> QED
  BY <1>1, <1>2, TypeCorrect, PTL DEF Spec

\* Every clean copy is what memory holds.
THEOREM CleanCopiesHold == Spec => []CleanCopies
<1>1. Init => Exclusion /\ CleanCopies
  BY DEF Init, Exclusion, CleanCopies
<1>2. TypeOK /\ Exclusion /\ CleanCopies /\ [Next]_vars
        => (Exclusion /\ CleanCopies)'
  BY CoherenceStep, StepIsLineStep
<1> QED
  BY <1>1, <1>2, TypeCorrect, PTL DEF Spec

-----------------------------------------------------------------------------
(* The check of main                                                       *)

\* Exclusion is what check_state counts.
LEMMA ExclusionIsChecked == ASSUME TypeOK, Exclusion PROVE CheckState
<1> USE DEF TypeOK, Exclusion, NoOtherCopy, HasCopy, States, Holders, Count
<1>1. IsFiniteSet(Processors) /\ Cardinality(Processors) = N /\ N \in Nat
  BY FS_Interval, MesiAssumption DEF Processors
<1>2. ASSUME NEW i \in Processors, NEW s \in {"MODIFIED", "EXCLUSIVE"},
             state[i] = s
      PROVE  Count(s) = 1 /\ Count("INVALID") = N - 1
  <2>1. Holders(s) = {i} /\ Holders("INVALID") = Processors \ {i}
    BY <1>2
  <2> QED
    BY <1>1, <2>1, FS_Singleton, FS_RemoveElement
<1>3. ASSUME \A k \in Processors : state[k] \in {"SHARED", "INVALID"}
      PROVE  Count("INVALID") = N - Count("SHARED") /\ Count("SHARED") \in Nat
  <2>1. /\ Holders("INVALID") = Processors \ Holders("SHARED")
        /\ Holders("SHARED") \subseteq Processors
        /\ Processors \cap Holders("SHARED") = Holders("SHARED")
    BY <1>3
  <2>2. IsFiniteSet(Holders("SHARED"))
    BY <1>1, <2>1, FS_Subset
  <2>3. Cardinality(Holders("SHARED")) \in Nat
    BY <2>2, FS_CardinalityType
  <2>4. Cardinality(Processors \ Holders("SHARED"))
          = Cardinality(Processors) - Cardinality(Processors \cap Holders("SHARED"))
    BY <1>1, FS_Difference
  <2> HIDE DEF Holders
  <2> QED
    BY <1>1, <2>1, <2>3, <2>4
<1>4. ASSUME NEW i \in Processors, state[i] = "SHARED"
      PROVE  Count("SHARED") >= 2
  <2>1. PICK j \in Processors \ {i} : state[j] = "SHARED"
    BY <1>4
  <2>2. {i, j} \subseteq Holders("SHARED") /\ IsFiniteSet(Holders("SHARED"))
    BY <1>1, <1>4, <2>1, FS_Subset
  <2>3. IsFiniteSet({j}) /\ Cardinality({j}) = 1 /\ {j} \cup {i} = {i, j}
    BY FS_Singleton
  <2>4. Cardinality({i, j}) = 2
    <3>1. Cardinality({j} \cup {i}) = Cardinality({j}) + 1
      BY <2>1, <2>3, FS_AddElement
    <3> QED
      BY <2>3, <3>1
  <2> QED
    BY <2>2, <2>4, FS_Subset, FS_CardinalityType
<1>5. CASE \E i \in Processors : state[i] \in {"MODIFIED", "EXCLUSIVE"}
  BY <1>2, <1>5 DEF CheckState
<1>6. CASE \A i \in Processors : state[i] \in {"SHARED", "INVALID"}
  <2>1. CASE \E i \in Processors : state[i] = "SHARED"
    BY <1>3, <1>4, <1>6, <2>1 DEF CheckState
  <2>2. CASE \A i \in Processors : state[i] = "INVALID"
    <3>1. Holders("INVALID") = Processors
      BY <2>2
    <3> QED
      BY <1>1, <3>1 DEF CheckState
  <2> QED
    BY <1>6, <2>1, <2>2
<1> QED
  BY <1>5, <1>6

\* main never prints "failed", however many processors and rounds it has.
THEOREM NeverFailsHolds == Spec => []NeverFails
<1>1. Init => NeverFails
  BY DEF Init, NeverFails
<1>2. TypeOK /\ Exclusion /\ NeverFails /\ [Next]_vars => NeverFails'
  BY ExclusionIsChecked
  DEF NeverFails, Next, vars, Check, Read, Write, Evict, Operate
<1> QED
  BY <1>1, <1>2, TypeCorrect, ExclusionHolds, PTL DEF Spec

-----------------------------------------------------------------------------
(* The caches implement one memory word                                    *)

\* Every copy is current: a clean one because it is what memory holds, a
\* modified one because it is the only one.
LEMMA CopiesAreCurrent ==
  ASSUME TypeOK, Exclusion, CleanCopies, NEW i \in Processors, HasCopy(i)
  PROVE  value[i] = Current
BY DEF TypeOK, Exclusion, CleanCopies, HasCopy, NoOtherCopy, States, Current,
   Holders

\* Without a modified copy memory is current, with one that copy is: said of
\* the state after a step.
LEMMA NextCurrent ==
  /\ (\A k \in Processors : state'[k] # "MODIFIED") => Current' = mem'
  /\ \A i \in Processors :
       /\ state'[i] = "MODIFIED"
       /\ \A k \in Processors \ {i} : state'[k] # "MODIFIED"
       => Current' = value'[i]
BY DEF Current, Holders

\* A read is a load of the current word, a write a store of its value, and
\* the rest is invisible.
LEMMA StepRefines ==
  ASSUME TypeOK, Exclusion, CleanCopies, Exclusion', CleanCopies', TypeOK'
  PROVE  /\ \A i \in Processors :
              /\ ReadCacheline(i) => Memory!Load
              /\ \A v \in Values : WriteCacheline(i, v) => Memory!Store(v)
              /\ EvictCacheline(i) => UNCHANGED Memory!vars
         /\ Check => UNCHANGED Memory!vars
<1> USE DEF Memory!vars, Memory!Load, Memory!Store
<1>1. ASSUME UNCHANGED <<lines, readValue>> PROVE UNCHANGED Memory!vars
  BY <1>1 DEF lines, Current, Holders
<1>2. ASSUME NEW i \in Processors, ReadHit(i) PROVE Memory!Load
  BY <1>2, CopiesAreCurrent DEF ReadHit, lines, Current, Holders
<1>3. ASSUME NEW i \in Processors, ReadMissSupplied(i) PROVE Memory!Load
  <2>1. PICK j \in Processors : FirstHolder(i, j) /\ Supply(i, j)
    BY <1>3 DEF ReadMissSupplied
  <2>2. readValue' = Current
    BY <2>1, CopiesAreCurrent DEF FirstHolder, Supply
  <2>3. \A k \in Processors : state'[k] # "MODIFIED"
    BY <1>3, <2>1 DEF ReadMissSupplied, FirstHolder, Supply, TypeOK, Exclusion,
       NoOtherCopy, HasCopy, States
  <2>4. mem' = value[j]
    BY <2>1 DEF FirstHolder, Supply, TypeOK, CleanCopies, HasCopy, States
  <2> QED
    BY <2>1, <2>2, <2>3, <2>4, CopiesAreCurrent, NextCurrent DEF FirstHolder
<1>4. ASSUME NEW i \in Processors, ReadMissFromMemory(i) PROVE Memory!Load
  <2>1. /\ \A k \in Processors : state[k] # "MODIFIED"
        /\ \A k \in Processors : state'[k] # "MODIFIED"
    BY <1>4 DEF ReadMissFromMemory, NoOtherCopy, HasCopy, TypeOK, States
  <2>2. Current = mem
    BY <2>1 DEF Current, Holders
  <2> QED
    BY <1>4, <2>1, <2>2, NextCurrent DEF ReadMissFromMemory
<1>5. ASSUME NEW i \in Processors, NEW v \in Values, WriteCacheline(i, v)
      PROVE  Memory!Store(v)
  <2>1. /\ state'[i] = "MODIFIED" /\ value'[i] = v
        /\ readValue' = readValue
    BY <1>5 DEF WriteCacheline, WriteHitOwned, WriteHitShared,
       WriteMissOwnerElsewhere, WriteMissSharedElsewhere, WriteMissAlone, Own
  <2>2. \A k \in Processors \ {i} : state'[k] # "MODIFIED"
    BY <2>1 DEF Exclusion, NoOtherCopy, HasCopy
  <2> QED
    BY <2>1, <2>2, NextCurrent
<1>6. ASSUME NEW i \in Processors,
             EvictModified(i) \/ EvictExclusive(i) \/ EvictShared(i)
      PROVE  UNCHANGED Memory!vars
  <2>1. mem' = Current
    BY <1>6, CopiesAreCurrent
    DEF EvictModified, EvictExclusive, EvictShared, HasCopy, CleanCopies
  <2>2. \A k \in Processors : state'[k] # "MODIFIED"
    BY <1>6 DEF EvictModified, EvictExclusive, EvictShared, Drop, TypeOK,
       Exclusion, NoOtherCopy, HasCopy, States
  <2> QED
    BY <1>6, <2>1, <2>2, NextCurrent
    DEF EvictModified, EvictExclusive, EvictShared, Drop
<1> QED
  BY <1>1, <1>2, <1>3, <1>4, <1>5, <1>6
  DEF Check, ReadCacheline, EvictCacheline, EvictInvalid

\* The processors cannot tell the caches from one memory word: every read
\* returns the last write, whichever processor wrote it, and evictions and
\* checks are not seen.
THEOREM CachesImplementMemory == Spec => ImplementsMemory
<1>1. Init => Memory!Init
  BY DEF Init, Memory!Init, Current, Holders, Words
<1>2. /\ TypeOK /\ Exclusion /\ CleanCopies
      /\ (TypeOK /\ Exclusion /\ CleanCopies)'
      => [/\ \A i \in Processors :
               /\ ReadCacheline(i) => Memory!Load
               /\ \A v \in Values : WriteCacheline(i, v) => Memory!Store(v)
               /\ EvictCacheline(i) => UNCHANGED Memory!vars
          /\ Check => UNCHANGED Memory!vars]_vars
  BY StepRefines
<1> QED
  BY <1>1, <1>2, TypeCorrect, ExclusionHolds, CleanCopiesHold, PTL
  DEF Spec, ImplementsMemory

\* Memory changes only when an owner writes its copy back, and that owner
\* then is no owner any more.
THEOREM WriteBacksEndOwnership == Spec => WriteBackEndsOwnership
<1>1. TypeOK /\ [Next]_vars => [OwnershipEnds]_vars
  <2> SUFFICES ASSUME TypeOK, LineStep PROVE OwnershipEnds
    BY StepIsLineStep
  <2> USE DEF OwnershipEnds
  <2>1. ASSUME NEW i \in Processors, ReadMissSupplied(i) PROVE OwnershipEnds
    BY <2>1 DEF ReadMissSupplied, FirstHolder, Supply, TypeOK
  <2>2. ASSUME NEW i \in Processors, NEW v \in Values, WriteCacheline(i, v)
        PROVE  OwnershipEnds
    BY <2>2 DEF WriteCacheline, WriteHitOwned, WriteHitShared, FirstHolder,
       WriteMissOwnerElsewhere, WriteMissSharedElsewhere, WriteMissAlone, Own
  <2>3. ASSUME NEW i \in Processors, EvictModified(i) PROVE OwnershipEnds
    BY <2>3 DEF EvictModified, Drop, TypeOK
  <2> QED
    BY <2>1, <2>2, <2>3 DEF LineStep, lines, ReadMissFromMemory,
       EvictExclusive, EvictShared
<1> QED
  BY <1>1, TypeCorrect, PTL DEF Spec, WriteBackEndsOwnership
===========================================================================
