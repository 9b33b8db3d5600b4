------------------------------- MODULE Mesi -------------------------------
(***************************************************************************)
(* The MESI simulator of src/src/headware/cpu/mesi.c: NUM_PROCESSOR caches *)
(* of one line each over one memory word, driven by a loop of random       *)
(* operations that checks the global state after each of them.             *)
(*                                                                         *)
(* An operator named Mut... is a faulty variant of the one that follows    *)
(* it; the mutation checks put it in that one's place, and the             *)
(* specification never uses it.                                            *)
(***************************************************************************)
EXTENDS Integers, FiniteSets

CONSTANTS N,           \* NUM_PROCESSOR
          Rounds,      \* iterations of the loop in main
          Values,      \* what main may write: rand() % 1000
          InitialMem   \* the initialiser of mem_value

ASSUME MesiAssumption == /\ N \in Nat \ {0}
                         /\ Rounds \in Nat \ {0}

Processors == 0 .. N - 1

States == {"MODIFIED", "EXCLUSIVE", "SHARED", "INVALID"}

\* The value given to a line that is invalidated, and to every line by main.
Cleared == 0

Words == Values \cup {InitialMem, Cleared}

VARIABLES state,      \* cache[i].state
          value,      \* cache[i].value
          mem,        \* mem_value
          readValue,  \* main's read_value, uninitialised until the first read
          round,      \* main's loop counter
          pc          \* "op", "check", or how main ended: "pass", "failed"

lines == <<state, value, mem>>
vars  == <<state, value, mem, readValue, round, pc>>

-----------------------------------------------------------------------------
(* The global state.                                                       *)

HasCopy(i) == state[i] # "INVALID"

Holders(s) == {i \in Processors : state[i] = s}

Count(s) == Cardinality(Holders(s))

\* check_state: one M or one E and the rest I, or two or more S and the rest
\* I, or all I.
CheckState ==
  \/ Count("MODIFIED") = 1 /\ Count("INVALID") = N - 1
  \/ Count("EXCLUSIVE") = 1 /\ Count("INVALID") = N - 1
  \/ Count("SHARED") >= 2 /\ Count("INVALID") = N - Count("SHARED")
  \/ Count("INVALID") = N

\* The processor at which the scan j = 0, 1, ... of a miss of i stops: the
\* first other one with a copy.
FirstHolder(i, j) ==
  /\ j # i /\ HasCopy(j)
  /\ \A k \in Processors \ {i} : k < j => ~HasCopy(k)

NoOtherCopy(i) == \A j \in Processors \ {i} : ~HasCopy(j)

-----------------------------------------------------------------------------
(* read_cacheline                                                          *)

ReadHit(i) ==
  /\ HasCopy(i)
  /\ readValue' = value[i]
  /\ UNCHANGED lines

\* j supplies its copy, and writes it back first if it is dirty.
MutSupplyNoWriteBack(i, j) ==
  /\ state' = [state EXCEPT ![i] = "SHARED", ![j] = "SHARED"]
  /\ value' = [value EXCEPT ![i] = value[j]]
  /\ readValue' = value[j]
  /\ UNCHANGED mem

MutSupplyKeepingOwner(i, j) ==
  /\ mem' = IF state[j] = "MODIFIED" THEN value[j] ELSE mem
  /\ state' = [state EXCEPT ![i] = "SHARED"]
  /\ value' = [value EXCEPT ![i] = value[j]]
  /\ readValue' = value[j]

Supply(i, j) ==
  /\ mem' = IF state[j] = "MODIFIED" THEN value[j] ELSE mem
  /\ state' = [state EXCEPT ![i] = "SHARED", ![j] = "SHARED"]
  /\ value' = [value EXCEPT ![i] = value[j]]
  /\ readValue' = value[j]

ReadMissSupplied(i) ==
  /\ ~HasCopy(i)
  /\ \E j \in Processors : FirstHolder(i, j) /\ Supply(i, j)

ReadMissFromMemory(i) ==
  /\ ~HasCopy(i) /\ NoOtherCopy(i)
  /\ state' = [state EXCEPT ![i] = "EXCLUSIVE"]
  /\ value' = [value EXCEPT ![i] = mem]
  /\ readValue' = mem
  /\ UNCHANGED mem

ReadCacheline(i) == \/ ReadHit(i)
                    \/ ReadMissSupplied(i)
                    \/ ReadMissFromMemory(i)

-----------------------------------------------------------------------------
(* write_cacheline                                                         *)

\* i becomes the owner with value v; the copies of the others in gone are
\* invalidated.
Own(i, v, gone) ==
  /\ state' = [j \in Processors |-> IF j = i THEN "MODIFIED"
                                    ELSE IF j \in gone THEN "INVALID"
                                    ELSE state[j]]
  /\ value' = [j \in Processors |-> IF j = i THEN v
                                    ELSE IF j \in gone THEN Cleared
                                    ELSE value[j]]
  /\ UNCHANGED readValue

WriteHitOwned(i, v) ==
  /\ state[i] \in {"MODIFIED", "EXCLUSIVE"}
  /\ Own(i, v, {})
  /\ UNCHANGED mem

WriteHitShared(i, v) ==
  /\ state[i] = "SHARED"
  /\ Own(i, v, Processors \ {i})
  /\ UNCHANGED mem

\* A dirty copy is written back, a clean exclusive one is dropped.
WriteMissOwnerElsewhere(i, v) ==
  /\ ~HasCopy(i)
  /\ \E j \in Processors :
       /\ FirstHolder(i, j) /\ state[j] \in {"MODIFIED", "EXCLUSIVE"}
       /\ Own(i, v, {j})
       /\ mem' = IF state[j] = "MODIFIED" THEN value[j] ELSE mem

MutWriteMissInvalidatingOne(i, v) ==
  /\ ~HasCopy(i)
  /\ \E j \in Processors :
       /\ FirstHolder(i, j) /\ state[j] = "SHARED"
       /\ Own(i, v, {j})
  /\ UNCHANGED mem

WriteMissSharedElsewhere(i, v) ==
  /\ ~HasCopy(i)
  /\ \E j \in Processors :
       /\ FirstHolder(i, j) /\ state[j] = "SHARED"
       /\ Own(i, v, Processors \ {i})
  /\ UNCHANGED mem

WriteMissAlone(i, v) ==
  /\ ~HasCopy(i) /\ NoOtherCopy(i)
  /\ Own(i, v, {})
  /\ UNCHANGED mem

WriteCacheline(i, v) == \/ WriteHitOwned(i, v)
                        \/ WriteHitShared(i, v)
                        \/ WriteMissOwnerElsewhere(i, v)
                        \/ WriteMissSharedElsewhere(i, v)
                        \/ WriteMissAlone(i, v)

-----------------------------------------------------------------------------
(* evict_cacheline                                                         *)

Drop(i) ==
  /\ state' = [state EXCEPT ![i] = "INVALID"]
  /\ value' = [value EXCEPT ![i] = Cleared]
  /\ UNCHANGED readValue

MutEvictDirtyDropped(i) ==
  /\ state[i] = "MODIFIED"
  /\ Drop(i)
  /\ UNCHANGED mem

EvictModified(i) ==
  /\ state[i] = "MODIFIED"
  /\ Drop(i)
  /\ mem' = value[i]

EvictExclusive(i) ==
  /\ state[i] = "EXCLUSIVE"
  /\ Drop(i)
  /\ UNCHANGED mem

MutEvictSharedNoPromotion(i) ==
  /\ state[i] = "SHARED"
  /\ Drop(i)
  /\ UNCHANGED mem

\* A sharer that is left alone becomes exclusive.
EvictShared(i) ==
  /\ state[i] = "SHARED"
  /\ LET left == Holders("SHARED") \ {i}
     IN state' = [j \in Processors |->
                    IF j = i THEN "INVALID"
                    ELSE IF left = {j} THEN "EXCLUSIVE"
                    ELSE state[j]]
  /\ value' = [value EXCEPT ![i] = Cleared]
  /\ UNCHANGED <<mem, readValue>>

EvictInvalid(i) ==
  /\ ~HasCopy(i)
  /\ UNCHANGED <<lines, readValue>>

EvictCacheline(i) == \/ EvictModified(i)
                     \/ EvictExclusive(i)
                     \/ EvictShared(i)
                     \/ EvictInvalid(i)

-----------------------------------------------------------------------------
(* main                                                                    *)

Init == /\ state = [i \in Processors |-> "INVALID"]
        /\ value = [i \in Processors |-> Cleared]
        /\ mem = InitialMem
        /\ readValue \in Words
        /\ round = 0
        /\ pc = "op"

Operate == /\ pc = "op" /\ pc' = "check"
           /\ UNCHANGED round

Read(i)  == Operate /\ ReadCacheline(i)

Write(i) == Operate /\ \E v \in Values : WriteCacheline(i, v)

Evict(i) == Operate /\ EvictCacheline(i)

Check ==
  /\ pc = "check"
  /\ round' = IF CheckState THEN round + 1 ELSE round
  /\ pc' = IF ~CheckState THEN "failed"
           ELSE IF round + 1 = Rounds THEN "pass" ELSE "op"
  /\ UNCHANGED <<lines, readValue>>

Next == Check \/ \E i \in Processors : Read(i) \/ Write(i) \/ Evict(i)

Spec == Init /\ [][Next]_vars

-----------------------------------------------------------------------------
(* Properties                                                              *)

\* Every variable holds a value of its C type that the program gives it.
TypeOK == /\ state \in [Processors -> States]
          /\ value \in [Processors -> Words]
          /\ mem \in Words
          /\ readValue \in Words
          /\ round \in 0 .. Rounds
          /\ pc \in {"op", "check", "pass", "failed"}

\* The table in the comment of check_state, said without counting: an owner
\* has the only copy, and a shared copy has a fellow.  The three operations
\* preserve it together, though each changes several lines one by one.
Exclusion ==
  \A i \in Processors :
    /\ state[i] \in {"MODIFIED", "EXCLUSIVE"} => NoOtherCopy(i)
    /\ state[i] = "SHARED" => \E j \in Processors \ {i} : state[j] = "SHARED"

\* A clean copy is what memory holds, so that dropping one (evict of E or S,
\* write miss against E or S), which writes nothing back, loses nothing.
CleanCopies == \A i \in Processors :
                 state[i] \in {"EXCLUSIVE", "SHARED"} => value[i] = mem

\* main never prints "failed": its assertion check_state() holds after every
\* operation of every run.
NeverFails == pc # "failed"

\* Memory changes only by the write back of the owner's copy, and the owner
\* gives the ownership up in the same step (mesi.c comments "write back").
OwnershipEnds ==
  mem' # mem => \E i \in Processors : /\ state[i] = "MODIFIED"
                                      /\ mem' = value[i]
                                      /\ state'[i] # "MODIFIED"

WriteBackEndsOwnership == [][OwnershipEnds]_vars

\* What a load must return: the owner's copy, or memory when nobody owns.
Current == IF Holders("MODIFIED") = {} THEN mem
           ELSE value[CHOOSE i \in Processors : state[i] = "MODIFIED"]

Memory == INSTANCE CoherentMemory WITH word <- Current, returned <- readValue

\* The caches are invisible: a read of any processor returns the last write of
\* any of them and changes no later read, a write makes its value the one that
\* all of them read, and no eviction and no self check is seen by anyone.
ImplementsMemory ==
  /\ Memory!Init
  /\ [][/\ \A i \in Processors :
             /\ ReadCacheline(i) => Memory!Load
             /\ \A v \in Values : WriteCacheline(i, v) => Memory!Store(v)
             /\ EvictCacheline(i) => UNCHANGED Memory!vars
        /\ Check => UNCHANGED Memory!vars]_vars
=============================================================================
