---------------------------- MODULE SramProofs ----------------------------
(***************************************************************************)
(* Theorems about SramCache, for every geometry of the cache, every set of *)
(* tags and bytes, every width of the time of a line, and both builds.     *)
(***************************************************************************)
EXTENDS SramCache, FiniteSetTheorems, WellFoundedInduction, TLAPS

-----------------------------------------------------------------------------
(* The shape of an access                                                  *)

Touches(a) == \/ ReadHit(a) \/ ReadFill(a) \/ ReadReplace(a)
              \/ \E data \in Bytes :
                   WriteHit(a, data) \/ WriteFill(a, data) \/ WriteReplace(a, data)

\* A step is an access of some address, or a stutter.
LEMMA StepTouches ==
  ASSUME [Next]_vars
  PROVE  UNCHANGED vars \/ \E a \in Addresses : Touches(a)
BY DEF Next, sram_cache_read, sram_cache_write, Touches

LEMMA FieldTypes ==
  ASSUME NEW a \in Addresses
  PROVE  /\ a.ct \in Tags /\ a.ci \in SetIndices /\ a.co \in Offsets
         /\ Frame(a) \in Frames /\ Frame(a) = <<a.ct, a.ci>>
BY DEF Addresses, Frame, Frames

\* What a fill and a store make of a line.
LEMMA FilledType ==
  ASSUME TypeOK, NEW a \in Addresses, NEW w \in WayIndices,
         NEW memory \in [Frames -> Blocks], NEW state \in LineStates
  PROVE  /\ Filled(a, w, memory, state) \in LineTypes
         /\ Filled(a, w, memory, state).tag = a.ct
         /\ Filled(a, w, memory, state).state = state
         /\ ~Verification
            => Filled(a, w, memory, state).block = memory[Frame(a)]
<1>1. Lines(a)[w] \in LineTypes
  BY FieldTypes DEF TypeOK, Lines
<1>2. memory[Frame(a)] \in Blocks /\ Lines(a)[w].block \in Blocks
  BY <1>1, FieldTypes DEF LineTypes
<1>3. 0 \in Times
  BY SramAssumption DEF Times
<1> QED
  BY <1>2, <1>3, FieldTypes DEF Filled, LineTypes

LEMMA WithByteType ==
  ASSUME NEW line \in LineTypes, NEW a \in Addresses, NEW data \in Bytes
  PROVE  /\ WithByte(line, a, data) \in LineTypes
         /\ WithByte(line, a, data).tag = line.tag
         /\ WithByte(line, a, data).state = "DIRTY"
BY FieldTypes DEF WithByte, LineTypes, LineStates, Blocks

LEMMA WriteBackType ==
  ASSUME TypeOK, NEW a \in Addresses, NEW w \in WayIndices, WriteBack(a, w)
  PROVE  /\ pm' \in [Frames -> Blocks]
         /\ \A f \in Frames \ {Frame(a)} : pm'[f] = pm[f]
<1>1. Lines(a)[w].block \in Blocks
  BY FieldTypes DEF TypeOK, Lines, LineTypes
<1> QED
  BY <1>1, FieldTypes DEF WriteBack, TypeOK

LEMMA TickType == ASSUME NEW t \in Times PROVE Tick(t) \in Times
BY SramAssumption DEF Times, Tick

\* An access leaves its block in one line w of its set, and in no other; the
\* other lines only tick, and memory changes in the frame of the address only.
Leaves(a, w, line) ==
  /\ Visit(a, w, line)
  /\ line.tag = a.ct /\ line.state \in {"CLEAN", "DIRTY"}
  /\ \A v \in WayIndices \ {w} : ~Matches(a, v)
  /\ pm' \in [Frames -> Blocks]
  /\ \A f \in Frames \ {Frame(a)} : pm'[f] = pm[f]
  /\ ~Verification /\ line.state = "CLEAN" =>
       line.block = pm'[Frame(a)]

LEMMA AccessShape ==
  ASSUME TypeOK, NoTwins, CleanMatchesDram \/ Verification,
         NEW a \in Addresses, Touches(a)
  PROVE  \E w \in WayIndices : \E line \in LineTypes : Leaves(a, w, line)
<1> USE FieldTypes
<1>0. \A w \in WayIndices : Lines(a)[w] \in LineTypes
  BY DEF TypeOK, Lines
<1>1. ASSUME NEW w \in WayIndices, HitWay(a, w)
      PROVE  /\ \A v \in WayIndices \ {w} : ~Matches(a, v)
             /\ Lines(a)[w].tag = a.ct
             /\ Lines(a)[w].state \in {"CLEAN", "DIRTY"}
             /\ Lines(a)[w].state = "CLEAN" /\ ~Verification
                => Lines(a)[w].block = pm[Frame(a)]
  BY <1>0, <1>1
  DEF HitWay, Matches, NoTwins, IsFree, Lines, LineTypes, LineStates,
      CleanMatchesDram
<1>2. CASE ReadHit(a)
  <2>1. PICK w \in WayIndices : /\ HitWay(a, w) /\ Visit(a, w, Lines(a)[w])
                                /\ pm' = pm
    BY <1>2 DEF ReadHit
  <2> QED
    BY <1>0, <1>1, <2>1 DEF Leaves, TypeOK
<1>3. CASE ReadFill(a)
  <2>1. PICK w \in WayIndices :
          /\ ~Hits(a) /\ pm' = pm
          /\ Visit(a, w, Filled(a, w, pm, "CLEAN"))
    BY <1>3 DEF ReadFill
  <2> QED
    BY <2>1, FilledType DEF Leaves, TypeOK, Hits, LineStates
<1>4. CASE ReadReplace(a)
  <2>1. PICK w \in WayIndices :
          /\ ~Hits(a) /\ WriteBack(a, w)
          /\ Visit(a, w, Filled(a, w, pm', "CLEAN"))
    BY <1>4 DEF ReadReplace, Replaces
  <2> QED
    BY <2>1, FilledType, WriteBackType DEF Leaves, Hits, LineStates
<1>5. ASSUME NEW data \in Bytes, WriteHit(a, data)
      PROVE  \E w \in WayIndices : \E line \in LineTypes : Leaves(a, w, line)
  <2>1. PICK w \in WayIndices :
          /\ HitWay(a, w) /\ pm' = pm
          /\ Visit(a, w, WithByte(Lines(a)[w], a, data))
    BY <1>5 DEF WriteHit
  <2> QED
    BY <1>0, <1>1, <2>1, WithByteType DEF Leaves, TypeOK
<1>6. ASSUME NEW data \in Bytes, WriteFill(a, data)
      PROVE  \E w \in WayIndices : \E line \in LineTypes : Leaves(a, w, line)
  <2>1. PICK w \in WayIndices :
          /\ ~Hits(a) /\ pm' = pm
          /\ Visit(a, w, WithByte(Filled(a, w, pm, "DIRTY"), a, data))
    BY <1>6 DEF WriteFill
  <2> QED
    BY <2>1, FilledType, WithByteType DEF Leaves, TypeOK, Hits, LineStates
<1>7. ASSUME NEW data \in Bytes, WriteReplace(a, data)
      PROVE  \E w \in WayIndices : \E line \in LineTypes : Leaves(a, w, line)
  <2>1. PICK w \in WayIndices :
          /\ ~Hits(a) /\ WriteBack(a, w)
          /\ Visit(a, w, WithByte(Filled(a, w, pm', "DIRTY"), a, data))
    BY <1>7 DEF WriteReplace, Replaces
  <2> QED
    BY <2>1, FilledType, WithByteType, WriteBackType DEF Leaves, Hits, LineStates
<1> QED
  BY <1>2, <1>3, <1>4, <1>5, <1>6, <1>7 DEF Touches

-----------------------------------------------------------------------------
(* Types, twins and clean lines                                            *)

\* Without the bus of a normal build there is no memory to agree with.
CleanInv == Verification \/ CleanMatchesDram

Inv == TypeOK /\ NoTwins /\ CleanInv

LEMMA InitInv == ASSUME Init PROVE Inv
<1>1. ZeroBlock \in Blocks /\ 0 \in Times
  BY SramAssumption DEF ZeroBlock, Blocks, Times
<1>2. TypeOK
  <2>1. cache \in [SetIndices -> [WayIndices -> LineTypes]]
    BY <1>1, SramAssumption DEF Init, LineTypes, LineStates
  <2>2. counters \in [hit : Int, miss : Int, evict : Int, dirty : Int, flushed : Int]
    BY DEF Init
  <2>3. pm \in [Frames -> Blocks] /\ returned \in Bytes /\ wrapped \in BOOLEAN
    BY <1>1, SramAssumption DEF Init
  <2>4. newer \in [SetIndices -> SUBSET (WayIndices \X WayIndices)]
    BY DEF Init
  <2> QED
    BY <2>1, <2>2, <2>3, <2>4 DEF TypeOK
<1> QED
  BY <1>2 DEF Init, Inv, NoTwins, IsFree, CleanInv, CleanMatchesDram

\* The lines after an access: w holds line, the others only ticked.
LEMMA VisitedLines ==
  ASSUME TypeOK, NEW a \in Addresses, NEW w \in WayIndices,
         NEW line \in LineTypes, Visit(a, w, line)
  PROVE  /\ cache' \in [SetIndices -> [WayIndices -> LineTypes]]
         /\ cache'[a.ci][w].state = line.state
         /\ cache'[a.ci][w].tag = line.tag
         /\ cache'[a.ci][w].block = line.block
         /\ cache'[a.ci][w].time = 0
         /\ \A v \in WayIndices \ {w} :
              /\ cache'[a.ci][v].state = cache[a.ci][v].state
              /\ cache'[a.ci][v].tag = cache[a.ci][v].tag
              /\ cache'[a.ci][v].block = cache[a.ci][v].block
              /\ cache'[a.ci][v].time = Tick(cache[a.ci][v].time)
         /\ \A s \in SetIndices \ {a.ci} : cache'[s] = cache[s]
<1> DEFINE set == [v \in WayIndices |->
                     IF v = w THEN [line EXCEPT !.time = 0]
                     ELSE [Lines(a)[v] EXCEPT !.time = Tick(@)]]
<1>1. \A v \in WayIndices : Lines(a)[v] \in LineTypes
  BY FieldTypes DEF TypeOK, Lines
<1>2. 0 \in Times
  BY SramAssumption DEF Times
<1>3. \A v \in WayIndices : Tick(Lines(a)[v].time) \in Times
  BY <1>1, TickType DEF LineTypes
<1>4. set \in [WayIndices -> LineTypes]
  BY <1>1, <1>2, <1>3 DEF LineTypes
<1>5. cache' = [cache EXCEPT ![a.ci] = set]
  BY DEF Visit
<1>6. cache'[a.ci] = set
  BY <1>5, FieldTypes DEF TypeOK
<1>7. /\ set[w].state = line.state /\ set[w].tag = line.tag
      /\ set[w].block = line.block /\ set[w].time = 0
  BY DEF LineTypes
<1>8. \A v \in WayIndices \ {w} :
        /\ set[v].state = Lines(a)[v].state /\ set[v].tag = Lines(a)[v].tag
        /\ set[v].block = Lines(a)[v].block
        /\ set[v].time = Tick(Lines(a)[v].time)
  BY <1>1 DEF LineTypes
<1>9. cache' \in [SetIndices -> [WayIndices -> LineTypes]]
  BY <1>4, <1>5, FieldTypes DEF TypeOK
<1>10. \A s \in SetIndices \ {a.ci} : cache'[s] = cache[s]
  BY <1>5 DEF TypeOK
<1> HIDE DEF set
<1> QED
  BY <1>6, <1>7, <1>8, <1>9, <1>10 DEF Lines

LEMMA ReturnedType ==
  ASSUME TypeOK, NEW a \in Addresses, Touches(a)
  PROVE  returned' \in Bytes
<1> USE FieldTypes
<1>1. \A w \in WayIndices : Lines(a)[w].block \in Blocks
  BY DEF TypeOK, Lines, LineTypes
<1>2. CASE ReadHit(a)
  BY <1>1, <1>2 DEF ReadHit, Blocks
<1>3. CASE ReadFill(a)
  BY <1>3, FilledType DEF ReadFill, TypeOK, LineStates, LineTypes, Blocks
<1>4. CASE ReadReplace(a)
  <2>1. PICK w \in WayIndices :
          /\ WriteBack(a, w)
          /\ returned' = Filled(a, w, pm', "CLEAN").block[a.co]
    BY <1>4 DEF ReadReplace
  <2> QED
    BY <2>1, FilledType, WriteBackType DEF LineStates, LineTypes, Blocks
<1> QED
  BY <1>2, <1>3, <1>4
  DEF Touches, WriteHit, WriteFill, WriteReplace, TypeOK

LEMMA CountersType ==
  ASSUME TypeOK, NEW a \in Addresses, Touches(a)
  PROVE  counters' \in [hit : Int, miss : Int, evict : Int, dirty : Int, flushed : Int]
<1>1. ASSUME NEW h \in Int, NEW m \in Int, NEW e \in Int, NEW i \in Int,
             NEW f \in Int, Monitor(h, m, e, i, f)
      PROVE  counters' \in [hit : Int, miss : Int, evict : Int, dirty : Int, flushed : Int]
  <2>1. i * BlockBytes \in Int /\ f * BlockBytes \in Int
    BY SramAssumption
  <2> QED
    BY <1>1, <2>1 DEF Monitor, TypeOK
<1>2. \A w \in WayIndices : /\ One(Lines(a)[w].state = "DIRTY") \in Int
                            /\ One(Lines(a)[w].state = "CLEAN") \in Int
  BY DEF One
<1>3. CASE ReadHit(a) \/ ReadFill(a)
  BY <1>1, <1>3 DEF ReadHit, ReadFill
<1>4. CASE ReadReplace(a)
  <2>1. PICK w \in WayIndices :
          Monitor(0, 1, 1, -One(Lines(a)[w].state = "DIRTY"),
                  One(Lines(a)[w].state = "DIRTY"))
    BY <1>4 DEF ReadReplace
  <2>2. -One(Lines(a)[w].state = "DIRTY") \in Int
    BY <1>2
  <2> QED
    BY <1>1, <1>2, <2>1, <2>2
<1>5. ASSUME NEW data \in Bytes, WriteHit(a, data) \/ WriteFill(a, data)
      PROVE  counters' \in [hit : Int, miss : Int, evict : Int, dirty : Int, flushed : Int]
  BY <1>1, <1>2, <1>5 DEF WriteHit, WriteFill
<1>6. ASSUME NEW data \in Bytes, WriteReplace(a, data)
      PROVE  counters' \in [hit : Int, miss : Int, evict : Int, dirty : Int, flushed : Int]
  <2>1. PICK w \in WayIndices :
          Monitor(0, 1, 1, 1 - One(Lines(a)[w].state = "DIRTY"),
                  One(Lines(a)[w].state = "DIRTY"))
    BY <1>6 DEF WriteReplace
  <2>2. 1 - One(Lines(a)[w].state = "DIRTY") \in Int
    BY <1>2
  <2> QED
    BY <1>1, <1>2, <2>1, <2>2
<1> QED
  BY <1>3, <1>4, <1>5, <1>6 DEF Touches

\* One access keeps the types, leaves no twins, and keeps clean lines equal
\* to their frames: the frame it may overwrite is that of its own address,
\* whose only line it has just filled.
LEMMA AccessInv ==
  ASSUME Inv, NEW a \in Addresses, Touches(a)
  PROVE  Inv'
<1> USE DEF Inv, CleanInv
<1>1. PICK w \in WayIndices, line \in LineTypes : Leaves(a, w, line)
  BY AccessShape
<1>2. TypeOK'
  <2>1. /\ newer' \in [SetIndices -> SUBSET (WayIndices \X WayIndices)]
        /\ wrapped' \in BOOLEAN
    BY <1>1, FieldTypes DEF Leaves, Visit, TypeOK
  <2> QED
    BY <1>1, <2>1, VisitedLines, ReturnedType, CountersType DEF Leaves, TypeOK
<1>3. NoTwins'
  <2> SUFFICES ASSUME NEW s \in SetIndices, NEW u \in WayIndices,
                      NEW v \in WayIndices, u # v,
                      ~IsFree(s, u)', ~IsFree(s, v)'
               PROVE  cache'[s][u].tag # cache'[s][v].tag
    BY DEF NoTwins
  <2>1. CASE s # a.ci
    BY <1>1, <2>1, VisitedLines DEF Leaves, NoTwins, IsFree
  <2>2. CASE s = a.ci
    BY <1>1, <2>2, VisitedLines DEF Leaves, NoTwins, IsFree, Matches, Lines
  <2> QED
    BY <2>1, <2>2
<1>4. CleanInv'
  <2> SUFFICES ASSUME ~Verification, NEW s \in SetIndices, NEW v \in WayIndices,
                      cache'[s][v].state = "CLEAN"
               PROVE  cache'[s][v].block = pm'[<<cache'[s][v].tag, s>>]
    BY DEF CleanMatchesDram
  <2> DEFINE frame == <<cache[s][v].tag, s>>
  <2>1. frame \in Frames
    BY DEF TypeOK, LineTypes, Frames
  <2>2. CASE s = a.ci /\ v = w
    <3>1. /\ cache'[s][v].tag = a.ct /\ cache'[s][v].block = line.block
          /\ line.state = "CLEAN"
      BY <1>1, <2>2, VisitedLines DEF Leaves
    <3> QED
      BY <1>1, <2>2, <3>1, FieldTypes DEF Leaves
  <2>3. CASE ~(s = a.ci /\ v = w)
    <3>1. /\ cache'[s][v].state = cache[s][v].state
          /\ cache'[s][v].tag = cache[s][v].tag
          /\ cache'[s][v].block = cache[s][v].block
      BY <1>1, <2>3, VisitedLines DEF Leaves
    <3>2. cache[s][v].block = pm[frame]
      BY <3>1 DEF CleanMatchesDram
    <3>3. frame # Frame(a)
      BY <1>1, <2>3, <3>1, FieldTypes DEF Leaves, Matches, Lines
    <3>4. pm'[frame] = pm[frame]
      BY <1>1, <2>1, <3>3 DEF Leaves
    <3> QED
      BY <3>1, <3>2, <3>4
  <2> QED
    BY <2>2, <2>3
<1> QED
  BY <1>2, <1>3, <1>4

LEMMA InvHolds == Spec => []Inv
<1>1. ASSUME Inv, UNCHANGED vars PROVE Inv'
  BY <1>1 DEF vars, Inv, CleanInv, TypeOK, NoTwins, IsFree, CleanMatchesDram
<1>2. Inv /\ [Next]_vars => Inv'
  BY <1>1, StepTouches, AccessInv
<1> QED
  BY <1>2, InitInv, PTL DEF Spec

\* Every variable keeps the type the code gives it.
THEOREM TypeCorrect == Spec => []TypeOK
BY InvHolds, PTL DEF Inv

\* No block is ever in two lines.
THEOREM NoTwinsHolds == Spec => []NoTwins
BY InvHolds, PTL DEF Inv

\* In a build with a bus, a clean line always equals its frame of memory.
THEOREM CleanMatchesDramHolds ==
  ASSUME ~Verification
  PROVE  Spec => []CleanMatchesDram
<1>1. Inv => CleanMatchesDram
  BY DEF Inv, CleanInv
<1> QED
  BY <1>1, InvHolds, PTL

-----------------------------------------------------------------------------
(* Replacement                                                             *)

\* The line of a set that was used last has time 0, and until a time wraps
\* the times of the valid lines are ordered as their last uses are.
Recency ==
  \A s \in SetIndices :
    /\ \A w \in WayIndices :
         ~IsFree(s, w) => \E v \in WayIndices : cache[s][v].time = 0
    /\ ~wrapped => \A v \in WayIndices : cache[s][v].time >= 0
    /\ ~wrapped => \A v, w \in WayIndices :
         v # w /\ ~IsFree(s, v) /\ ~IsFree(s, w) =>
           /\ <<v, w>> \in newer[s] \/ <<w, v>> \in newer[s]
           /\ <<v, w>> \in newer[s] => cache[s][v].time < cache[s][w].time

LEMMA AccessRecency ==
  ASSUME Inv, Recency, NEW a \in Addresses, Touches(a)
  PROVE  Recency'
<1>1. PICK w \in WayIndices, line \in LineTypes : Leaves(a, w, line)
  BY AccessShape DEF Inv, CleanInv
<1>2. TypeOK /\ Visit(a, w, line)
  BY <1>1 DEF Inv, Leaves
<1>3. \A s \in SetIndices, v \in WayIndices : cache[s][v].time \in Times
  BY <1>2 DEF TypeOK, LineTypes
<1> SUFFICES ASSUME NEW s \in SetIndices
             PROVE
    /\ \A v \in WayIndices :
         ~IsFree(s, v)' => \E u \in WayIndices : cache'[s][u].time = 0
    /\ ~wrapped' => \A v \in WayIndices : cache'[s][v].time >= 0
    /\ ~wrapped' => \A u, v \in WayIndices :
         u # v /\ ~IsFree(s, u)' /\ ~IsFree(s, v)' =>
           /\ <<u, v>> \in newer'[s] \/ <<v, u>> \in newer'[s]
           /\ <<u, v>> \in newer'[s] => cache'[s][u].time < cache'[s][v].time
  BY DEF Recency
<1>4. CASE s # a.ci
  <2>1. cache'[s] = cache[s] /\ newer'[s] = newer[s] /\ (wrapped => wrapped')
    BY <1>2, <1>4, VisitedLines, FieldTypes DEF Visit, TypeOK
  <2> QED
    BY <2>1 DEF Recency, IsFree
<1>5. CASE s = a.ci
  <2>1. cache'[s][w].time = 0
    BY <1>2, <1>5, VisitedLines
  <2>2. ASSUME ~wrapped'
        PROVE  /\ ~wrapped
               /\ \A v \in WayIndices \ {w} :
                    /\ cache[s][v].time \in Nat
                    /\ cache'[s][v].time = cache[s][v].time + 1
    <3>1. ~wrapped /\ \A v \in WayIndices : cache[s][v].time # TimeMax
      BY <1>2, <1>5, <2>2 DEF Visit, Lines, TypeOK
    <3>2. \A v \in WayIndices : cache[s][v].time \in Nat
      BY <1>3, <3>1, SramAssumption DEF Recency, Times
    <3> QED
      BY <1>2, <1>5, <3>1, <3>2, VisitedLines DEF Tick
  <2>3. newer'[s] = {p \in newer[s] : p[1] # w /\ p[2] # w}
                      \cup {<<w, v>> : v \in WayIndices \ {w}}
    BY <1>2, <1>5, FieldTypes DEF Visit, TypeOK
  <2>4. ASSUME ~wrapped', NEW u \in WayIndices, NEW v \in WayIndices, u # v,
               ~IsFree(s, u)', ~IsFree(s, v)'
        PROVE  /\ <<u, v>> \in newer'[s] \/ <<v, u>> \in newer'[s]
               /\ <<u, v>> \in newer'[s] => cache'[s][u].time < cache'[s][v].time
    <3>1. CASE u = w
      BY <2>1, <2>2, <2>3, <2>4, <3>1
    <3>2. CASE v = w
      BY <2>1, <2>2, <2>3, <2>4, <3>2
    <3>3. CASE u # w /\ v # w
      <4>1. ~IsFree(s, u) /\ ~IsFree(s, v)
        BY <1>2, <1>5, <2>4, <3>3, VisitedLines DEF IsFree
      <4>2. /\ <<u, v>> \in newer'[s] <=> <<u, v>> \in newer[s]
            /\ <<v, u>> \in newer'[s] <=> <<v, u>> \in newer[s]
        BY <2>3, <3>3
      <4> QED
        BY <2>2, <2>4, <3>3, <4>1, <4>2 DEF Recency
    <3> QED
      BY <3>1, <3>2, <3>3
  <2> QED
    BY <2>1, <2>2, <2>4
<1> QED
  BY <1>4, <1>5

LEMMA RecencyHolds == Spec => []Recency
<1>1. Init => Recency
  BY DEF Init, Recency, IsFree
<1>2. Recency /\ UNCHANGED vars => Recency'
  BY DEF Recency, vars, IsFree
<1>3. Inv /\ Recency /\ [Next]_vars => Recency'
  BY <1>2, StepTouches, AccessRecency
<1> QED
  BY <1>1, <1>3, InvHolds, PTL DEF Spec

\* A non-empty set of natural numbers has a least element.
LEMMA LeastNatural ==
  ASSUME NEW T \in SUBSET Nat, T # {}
  PROVE  \E x \in T : \A y \in T : x <= y
<1> DEFINE R == {p \in Nat \X Nat : p[1] < p[2]}
<1>1. IsWellFoundedOn(R, Nat)
  BY NatLessThanWellFounded DEF OpToRel
<1>2. PICK x \in T : \A y \in T : <<y, x>> \notin R
  <2> HIDE DEF R
  <2> QED
    BY <1>1, WFMin
<1>3. ASSUME NEW y \in T PROVE x <= y
  <2>1. <<y, x>> \notin R /\ x \in Nat /\ y \in Nat
    BY <1>2
  <2>2. ~(y < x)
    BY <2>1
  <2> QED
    BY <2>1, <2>2
<1> QED
  BY <1>3

\* The victim of a full set is its least recently used line as long as no
\* time of the set overflows, whatever the number of ways.
THEOREM VictimIsLruUntilWrapHolds == Spec => []VictimIsLruUntilWrap
<1>1. TypeOK /\ Recency => VictimIsLruUntilWrap
  <2> SUFFICES ASSUME TypeOK, Recency, ~wrapped, NEW s \in SetIndices,
                      \A u \in WayIndices : cache[s][u].time < TimeMax,
                      NEW w \in WayIndices,
                      \A v \in WayIndices : ~IsFree(s, v), VictimWay(s, w),
                      NEW v \in WayIndices \ {w}
               PROVE  <<v, w>> \in newer[s]
    BY DEF VictimIsLruUntilWrap, LruVictim
  <2>1. \A u \in WayIndices : /\ cache[s][u].time \in Int
                              /\ Tick(cache[s][u].time) = cache[s][u].time + 1
    BY SramAssumption DEF TypeOK, LineTypes, Times, Tick
  <2>2. cache[s][v].time <= cache[s][w].time
    BY <2>1 DEF VictimWay
  <2>3. /\ <<v, w>> \in newer[s] \/ <<w, v>> \in newer[s]
        /\ <<w, v>> \in newer[s] => cache[s][w].time < cache[s][v].time
    BY DEF Recency
  <2> QED
    BY <2>1, <2>2, <2>3
<1> QED
  BY <1>1, InvHolds, RecencyHolds, PTL DEF Inv

\* assert(victim != NULL) never fails: a full set has a line of time 0, which
\* ticks to 1, and so a first line of the largest time above -1.
THEOREM VictimFoundHolds == Spec => []VictimFound
<1>1. TypeOK /\ Recency => VictimFound
  <2> SUFFICES ASSUME TypeOK, Recency, NEW s \in SetIndices,
                      \A w \in WayIndices : ~IsFree(s, w)
               PROVE  \E w \in WayIndices : VictimWay(s, w)
    BY DEF VictimFound
  <2> DEFINE time(v) == Tick(cache[s][v].time)
             gaps == {TimeMax - time(v) : v \in WayIndices}
  <2>1. \A v \in WayIndices : time(v) \in Int /\ time(v) <= TimeMax
    <3>1. \A v \in WayIndices : time(v) \in Times
      BY TickType DEF TypeOK, LineTypes
    <3> QED
      BY <3>1, SramAssumption DEF Times
  <2>2. PICK u \in WayIndices : time(u) = 1
    <3>1. 0 \in WayIndices
      BY SramAssumption DEF WayIndices
    <3> QED
      BY <3>1, SramAssumption DEF Recency, Tick
  <2> HIDE DEF time
  <2>3. gaps \in SUBSET Nat /\ TimeMax - time(u) \in gaps
    BY <2>1, SramAssumption
  <2>4. PICK m \in gaps : \A k \in gaps : m <= k
    <3> HIDE DEF gaps
    <3> QED
      BY <2>3, LeastNatural
  <2> DEFINE best == {v \in WayIndices : TimeMax - time(v) = m}
  <2>5. best \in SUBSET Nat /\ best # {}
    BY <2>4, SramAssumption DEF WayIndices
  <2>6. PICK w \in best : \A v \in best : w <= v
    <3> HIDE DEF best
    <3> QED
      BY <2>5, LeastNatural
  <2>7. \A v \in WayIndices : time(v) <= time(w)
    BY <2>1, <2>4, SramAssumption
  <2>8. \A v \in WayIndices : v < w => time(v) < time(w)
    <3>1. \A v \in WayIndices : time(v) = time(w) => v \in best
      BY <2>1
    <3>2. \A v \in WayIndices : v < w => time(v) # time(w)
      BY <2>5, <2>6, <3>1, SramAssumption DEF WayIndices
    <3> QED
      BY <2>1, <2>7, <3>2
  <2> QED
    BY <2>1, <2>2, <2>7, <2>8 DEF VictimWay, time
<1> QED
  BY <1>1, InvHolds, RecencyHolds, PTL DEF Inv

-----------------------------------------------------------------------------
(* The monitoring counters                                                 *)

LEMMA LinesInFinite ==
  ASSUME NEW states
  PROVE  IsFiniteSet(LinesIn(states)) /\ Cardinality(LinesIn(states)) \in Nat
<1>1. IsFiniteSet(SetIndices \X WayIndices)
  <2>1. IsFiniteSet(SetIndices) /\ IsFiniteSet(WayIndices)
    BY FS_Interval, SramAssumption DEF SetIndices, WayIndices
  <2> QED
    BY <2>1, FS_Product
<1>2. LinesIn(states) \in SUBSET (SetIndices \X WayIndices)
  BY DEF LinesIn
<1>3. IsFiniteSet(LinesIn(states))
  BY <1>1, <1>2, FS_Subset
<1> QED
  BY <1>3, FS_CardinalityType

\* An access moves one line, the one it leaves its block in, in or out of the
\* lines with one of the states.
LEMMA LinesInStep ==
  ASSUME TypeOK, NEW a \in Addresses, NEW w \in WayIndices,
         NEW line \in LineTypes, Visit(a, w, line), NEW states
  PROVE  Cardinality(LinesIn(states)') =
           Cardinality(LinesIn(states))
             - One(cache[a.ci][w].state \in states) + One(line.state \in states)
<1> DEFINE p == <<a.ci, w>>
           rest == LinesIn(states) \ {p}
<1>1. p \in SetIndices \X WayIndices
  BY FieldTypes
<1>2. LinesIn(states)' = IF line.state \in states THEN rest \cup {p} ELSE rest
  <2>1. \A q \in SetIndices \X WayIndices :
          cache'[q[1]][q[2]].state
            = IF q = p THEN line.state ELSE cache[q[1]][q[2]].state
    BY VisitedLines, FieldTypes
  <2> QED
    BY <1>1, <2>1 DEF LinesIn
<1>3. p \in LinesIn(states) <=> cache[a.ci][w].state \in states
  BY <1>1 DEF LinesIn
<1>4. /\ IsFiniteSet(rest) /\ Cardinality(rest) \in Nat
      /\ Cardinality(rest) = IF p \in LinesIn(states)
                             THEN Cardinality(LinesIn(states)) - 1
                             ELSE Cardinality(LinesIn(states))
  BY LinesInFinite, FS_RemoveElement, FS_CardinalityType
<1>5. p \notin rest
  OBVIOUS
<1> HIDE DEF p, rest
<1>6. Cardinality(rest \cup {p}) = Cardinality(rest) + 1
  BY <1>4, <1>5, FS_AddElement
<1> QED
  BY <1>2, <1>3, <1>4, <1>6, LinesInFinite DEF One

\* Counters that move by what the access does to its line still agree.
LEMMA CountersStep ==
  ASSUME Verification, TypeOK, CountersAgree,
         NEW a \in Addresses, NEW w \in WayIndices, NEW line \in LineTypes,
         Visit(a, w, line),
         NEW h \in Int, NEW m \in Int, NEW e \in Int, NEW i \in Int, NEW f \in Int,
         Monitor(h, m, e, i, f),
         i = One(line.state = "DIRTY") - One(cache[a.ci][w].state = "DIRTY"),
         m - e = One(line.state # "INVALID") - One(cache[a.ci][w].state # "INVALID"),
         f <= e
  PROVE  CountersAgree'
<1> DEFINE dirty == Cardinality(LinesIn({"DIRTY"}))
           valid == Cardinality(LinesIn({"CLEAN", "DIRTY"}))
<1>1. /\ dirty \in Nat /\ valid \in Nat
      /\ dirty' = dirty + i /\ valid' = valid + (m - e)
  <2>1. /\ line.state \in LineStates /\ cache[a.ci][w].state \in LineStates
        /\ i \in Int /\ m - e \in Int
    BY FieldTypes DEF TypeOK, LineTypes
  <2>2. /\ dirty \in Nat /\ valid \in Nat
        /\ dirty' = dirty - One(cache[a.ci][w].state \in {"DIRTY"})
                      + One(line.state \in {"DIRTY"})
        /\ valid' = valid - One(cache[a.ci][w].state \in {"CLEAN", "DIRTY"})
                      + One(line.state \in {"CLEAN", "DIRTY"})
    BY LinesInFinite, LinesInStep
  <2> HIDE DEF dirty, valid
  <2> QED
    BY <2>1, <2>2 DEF One, LineStates
<1> HIDE DEF dirty, valid
<1>2. /\ counters'.miss = counters.miss + m
      /\ counters'.evict = counters.evict + e
      /\ counters'.dirty = counters.dirty + i * BlockBytes
      /\ counters'.flushed = counters.flushed + f * BlockBytes
      /\ counters.miss \in Int /\ counters.evict \in Int
      /\ counters.dirty \in Int /\ counters.flushed \in Int
  BY DEF Monitor, TypeOK
<1>3. /\ counters.dirty = BlockBytes * dirty
      /\ counters.miss - counters.evict = valid
      /\ counters.flushed <= BlockBytes * counters.evict
  BY DEF CountersAgree, dirty, valid
<1>4. BlockBytes * (dirty + i) = BlockBytes * dirty + i * BlockBytes
  BY <1>1, SramAssumption
<1>5. counters.flushed + f * BlockBytes <= BlockBytes * (counters.evict + e)
  <2>1. f * BlockBytes <= e * BlockBytes
    BY SramAssumption
  <2>2. BlockBytes * (counters.evict + e) = BlockBytes * counters.evict + e * BlockBytes
    BY <1>2, SramAssumption
  <2>3. /\ f * BlockBytes \in Int /\ e * BlockBytes \in Int
        /\ BlockBytes * counters.evict \in Int
    BY <1>2, SramAssumption
  <2> QED
    BY <1>2, <1>3, <2>1, <2>2, <2>3
<1>6. /\ counters'.dirty = BlockBytes * dirty'
      /\ counters'.miss - counters'.evict = valid'
      /\ counters'.flushed <= BlockBytes * counters'.evict
  BY <1>1, <1>2, <1>3, <1>4, <1>5
<1> QED
  BY <1>6 DEF CountersAgree, dirty, valid

LEMMA AccessCounters ==
  ASSUME Verification, Inv, CountersAgree, NEW a \in Addresses, Touches(a)
  PROVE  CountersAgree'
<1> USE FieldTypes DEF One
<1>0. /\ TypeOK
      /\ \A w \in WayIndices : /\ Lines(a)[w] \in LineTypes
                               /\ Lines(a)[w] = cache[a.ci][w]
                               /\ Lines(a)[w].state \in LineStates
  BY DEF Inv, TypeOK, Lines, LineTypes
<1>1. \A w \in WayIndices : HitWay(a, w) => Lines(a)[w].state # "INVALID"
  BY DEF HitWay, Matches
<1>2. \A w \in WayIndices : FreeWay(a, w) => Lines(a)[w].state = "INVALID"
  BY DEF FreeWay, IsFree, Lines
<1>3. \A w \in WayIndices : Replaces(a, w) => Lines(a)[w].state # "INVALID"
  BY DEF Replaces, IsFree, Lines
<1>4. CASE ReadHit(a)
  <2>1. PICK w \in WayIndices : /\ Visit(a, w, Lines(a)[w])
                                /\ Monitor(1, 0, 0, 0, 0)
    BY <1>4 DEF ReadHit
  <2>2. /\ One(Lines(a)[w].state = "DIRTY") - One(cache[a.ci][w].state = "DIRTY") = 0
        /\ One(Lines(a)[w].state # "INVALID")
             - One(cache[a.ci][w].state # "INVALID") = 0
    BY <1>0
  <2> QED
    BY <1>0, <2>1, <2>2, CountersStep
<1>5. CASE ReadFill(a)
  <2>1. PICK w \in WayIndices : /\ FreeWay(a, w) /\ Monitor(0, 1, 0, 0, 0)
                                /\ Visit(a, w, Filled(a, w, pm, "CLEAN"))
    BY <1>5 DEF ReadFill
  <2>2. /\ Filled(a, w, pm, "CLEAN") \in LineTypes
        /\ Filled(a, w, pm, "CLEAN").state = "CLEAN"
    BY <1>0, FilledType DEF TypeOK, LineStates
  <2> QED
    BY <1>0, <1>2, <2>1, <2>2, CountersStep
<1>6. CASE ReadReplace(a)
  <2> DEFINE dirty(w) == One(Lines(a)[w].state = "DIRTY")
  <2>1. PICK w \in WayIndices : /\ Replaces(a, w) /\ WriteBack(a, w)
                                /\ Monitor(0, 1, 1, -dirty(w), dirty(w))
                                /\ Visit(a, w, Filled(a, w, pm', "CLEAN"))
    BY <1>6 DEF ReadReplace
  <2>2. /\ Filled(a, w, pm', "CLEAN") \in LineTypes
        /\ Filled(a, w, pm', "CLEAN").state = "CLEAN"
    BY <1>0, <2>1, FilledType, WriteBackType DEF LineStates
  <2> QED
    BY <1>0, <1>3, <2>1, <2>2, CountersStep
<1>7. ASSUME NEW data \in Bytes, WriteHit(a, data)
      PROVE  CountersAgree'
  <2>1. PICK w \in WayIndices :
          /\ HitWay(a, w) /\ Monitor(1, 0, 0, One(Lines(a)[w].state = "CLEAN"), 0)
          /\ Visit(a, w, WithByte(Lines(a)[w], a, data))
    BY <1>7 DEF WriteHit
  <2> QED
    BY <1>0, <1>1, <2>1, WithByteType, CountersStep DEF LineStates
<1>8. ASSUME NEW data \in Bytes, WriteFill(a, data)
      PROVE  CountersAgree'
  <2>1. PICK w \in WayIndices :
          /\ FreeWay(a, w) /\ Monitor(0, 1, 0, 1, 0)
          /\ Visit(a, w, WithByte(Filled(a, w, pm, "DIRTY"), a, data))
    BY <1>8 DEF WriteFill
  <2> DEFINE line == WithByte(Filled(a, w, pm, "DIRTY"), a, data)
  <2>2. line \in LineTypes /\ line.state = "DIRTY"
    BY <1>0, FilledType, WithByteType DEF TypeOK, LineStates
  <2>3. /\ One(line.state = "DIRTY") - One(cache[a.ci][w].state = "DIRTY") = 1
        /\ One(line.state # "INVALID") - One(cache[a.ci][w].state # "INVALID") = 1
    BY <1>0, <1>2, <2>1, <2>2
  <2> HIDE DEF line
  <2> QED
    BY <1>0, <2>1, <2>2, <2>3, CountersStep DEF line
<1>9. ASSUME NEW data \in Bytes, WriteReplace(a, data)
      PROVE  CountersAgree'
  <2> DEFINE dirty(w) == One(Lines(a)[w].state = "DIRTY")
  <2>1. PICK w \in WayIndices :
          /\ Replaces(a, w) /\ WriteBack(a, w)
          /\ Monitor(0, 1, 1, 1 - dirty(w), dirty(w))
          /\ Visit(a, w, WithByte(Filled(a, w, pm', "DIRTY"), a, data))
    BY <1>9 DEF WriteReplace
  <2>2. Filled(a, w, pm', "DIRTY") \in LineTypes
    BY <1>0, <2>1, FilledType, WriteBackType DEF LineStates
  <2> QED
    BY <1>0, <1>3, <2>1, <2>2, WithByteType, CountersStep
<1> QED
  BY <1>4, <1>5, <1>6, <1>7, <1>8, <1>9 DEF Touches

\* In a Verification build the counters say what is in the cache, whatever the
\* trace of accesses.
THEOREM CountersAgreeHolds == Spec => []CountersAgree
<1>1. Init => CountersAgree
  <2> SUFFICES ASSUME Init PROVE CountersAgree
    OBVIOUS
  <2>1. LinesIn({"DIRTY"}) = {} /\ LinesIn({"CLEAN", "DIRTY"}) = {}
    BY DEF Init, LinesIn
  <2>2. BlockBytes * Cardinality({}) = 0 /\ BlockBytes * 0 = 0 /\ Cardinality({}) = 0
    BY FS_EmptySet, SramAssumption
  <2>3. /\ counters.dirty = 0 /\ counters.miss - counters.evict = 0
        /\ counters.flushed = 0 /\ counters.evict = 0
    BY DEF Init
  <2> QED
    BY <2>1, <2>2, <2>3 DEF CountersAgree
<1>2. CountersAgree /\ UNCHANGED vars => CountersAgree'
  BY DEF CountersAgree, LinesIn, vars
<1>3. Inv /\ CountersAgree /\ [Next]_vars => CountersAgree'
  <2>1. ~Verification => CountersAgree'
    BY DEF CountersAgree
  <2> QED
    BY <1>2, <2>1, StepTouches, AccessCounters
<1> QED
  BY <1>1, <1>3, InvHolds, PTL DEF Spec

-----------------------------------------------------------------------------
(* What the cache promises to the CPU: but for the replacement of a dirty  *)
(* line, a build with a bus behaves as one array of bytes (ByteMemory).    *)


\* What the CPU sees at every address.
Seen == [a \in Addresses |-> Visible(a)]

\* Without twins, the byte the CPU sees is in the line that matches, whichever
\* the search finds first, or in memory.
SeenLocates ==
  \A a \in Addresses :
    /\ \A w \in WayIndices : Matches(a, w) => Seen[a] = Lines(a)[w].block[a.co]
    /\ ~Hits(a) => Seen[a] = pm[Frame(a)][a.co]

LEMMA SeenLocatesHolds == ASSUME Inv PROVE SeenLocates
<1> SUFFICES ASSUME NEW a \in Addresses
             PROVE  /\ \A w \in WayIndices :
                         Matches(a, w) => Visible(a) = Lines(a)[w].block[a.co]
                    /\ ~Hits(a) => Visible(a) = pm[Frame(a)][a.co]
  BY DEF SeenLocates, Seen
<1>1. ASSUME NEW w \in WayIndices, Matches(a, w)
      PROVE  Visible(a) = Lines(a)[w].block[a.co]
  <2>1. \A v \in WayIndices : Matches(a, v) => v = w
    BY <1>1, FieldTypes DEF Inv, NoTwins, IsFree, Matches, Lines
  <2>2. HitWay(a, w) /\ Hits(a)
    BY <1>1, <2>1, SramAssumption DEF HitWay, Hits, WayIndices
  <2>3. (CHOOSE v \in WayIndices : HitWay(a, v)) = w
    BY <2>1, <2>2 DEF HitWay
  <2> QED
    BY <2>2, <2>3 DEF Visible
<1> QED
  BY <1>1 DEF Visible

\* An address of the block of a: the same line and the same frame.
SameBlock(a, b) == b.ct = a.ct /\ b.ci = a.ci

\* An access that replaces no dirty line moves no byte of another block: a
\* line it discards was clean, and memory holds what the line held.
LEMMA OtherBlocksKept ==
  ASSUME ~Verification, Inv, SeenLocates, Inv', SeenLocates',
         NEW a \in Addresses, NEW w \in WayIndices, NEW line \in LineTypes,
         Leaves(a, w, line), pm' = pm,
         Lines(a)[w].state = "DIRTY" => Matches(a, w),
         NEW b \in Addresses, ~SameBlock(a, b)
  PROVE  Seen'[b] = Seen[b]
<1> USE FieldTypes
<1>0. TypeOK /\ Visit(a, w, line)
  BY DEF Inv, Leaves
<1>1. \A v \in WayIndices : Lines(b)[v] \in LineTypes
  BY <1>0 DEF TypeOK, Lines
<1>2. ASSUME NEW v \in WayIndices, b.ci # a.ci \/ v # w
      PROVE  /\ Matches(b, v)' <=> Matches(b, v)
             /\ Lines(b)'[v].block = Lines(b)[v].block
  BY <1>0, <1>2, VisitedLines DEF Matches, Lines
<1>3. CASE b.ci # a.ci
  BY <1>2, <1>3 DEF SeenLocates, Hits
<1>4. CASE b.ci = a.ci
  <2>1. b.ct # a.ct
    BY <1>4 DEF SameBlock
  <2>2. ~Matches(b, w)'
    BY <1>0, <1>4, <2>1, VisitedLines DEF Leaves, Matches, Lines
  <2>3. ASSUME NEW v \in WayIndices \ {w}, Matches(b, v)
        PROVE  Seen'[b] = Seen[b]
    BY <1>2, <2>3 DEF SeenLocates
  <2>4. CASE Matches(b, w)
    <3>1. Lines(b)[w].state = "CLEAN"
      BY <1>1, <1>4, <2>1, <2>4 DEF Matches, Lines, LineTypes, LineStates
    <3>2. Lines(b)[w].block = pm[Frame(b)]
      BY <2>4, <3>1 DEF Inv, CleanInv, CleanMatchesDram, Matches, Lines
    <3>3. \A v \in WayIndices \ {w} : ~Matches(b, v)
      BY <2>4 DEF Inv, NoTwins, IsFree, Matches, Lines
    <3>4. ~Hits(b)'
      BY <1>2, <2>2, <3>3 DEF Hits
    <3> QED
      BY <2>4, <3>2, <3>4 DEF SeenLocates
  <2>5. CASE ~Hits(b)
    BY <1>2, <2>2, <2>5 DEF SeenLocates, Hits
  <2> QED
    BY <2>3, <2>4, <2>5 DEF Hits
<1> QED
  BY <1>3, <1>4

\* After an access the block of its address is seen in the line it left.
LEMMA OwnBlockSeen ==
  ASSUME Inv, SeenLocates',
         NEW a \in Addresses, NEW w \in WayIndices, NEW line \in LineTypes,
         Leaves(a, w, line), NEW b \in Addresses, SameBlock(a, b)
  PROVE  Seen'[b] = line.block[b.co]
<1>1. /\ cache'[a.ci][w].state = line.state /\ cache'[a.ci][w].tag = line.tag
      /\ cache'[a.ci][w].block = line.block
  BY VisitedLines DEF Inv, Leaves
<1>2. Matches(b, w)' /\ Lines(b)'[w].block = line.block
  BY <1>1 DEF Matches, Lines, Leaves, SameBlock
<1> QED
  BY <1>2 DEF SeenLocates

\* The byte of the block of a that line w of the set of a holds already, or
\* that a fill of w brings in.
LEMMA FoundBlockSeen ==
  ASSUME SeenLocates, NEW a \in Addresses, NEW w \in WayIndices,
         Matches(a, w), NEW b \in Addresses, SameBlock(a, b)
  PROVE  Seen[b] = Lines(a)[w].block[b.co]
<1>1. Matches(b, w) /\ Lines(b) = Lines(a)
  BY DEF Matches, Lines, SameBlock
<1> QED
  BY <1>1 DEF SeenLocates

LEMMA MissedBlockSeen ==
  ASSUME SeenLocates, NEW a \in Addresses, ~Hits(a),
         NEW b \in Addresses, SameBlock(a, b)
  PROVE  Seen[b] = pm[Frame(a)][b.co]
<1>1. ~Hits(b) /\ Frame(b) = Frame(a)
  BY DEF Hits, Matches, Lines, SameBlock, Frame
<1> QED
  BY <1>1 DEF SeenLocates

LEMMA SeenType == ASSUME Inv PROVE Seen \in [Addresses -> Bytes]
<1> USE FieldTypes
<1>1. SeenLocates
  BY SeenLocatesHolds
<1>2. ASSUME NEW a \in Addresses PROVE Seen[a] \in Bytes
  <2>1. /\ \A w \in WayIndices : Lines(a)[w].block[a.co] \in Bytes
        /\ pm[Frame(a)][a.co] \in Bytes
    BY DEF Inv, TypeOK, Lines, LineTypes, Blocks
  <2> QED
    BY <1>1, <2>1 DEF SeenLocates, Hits
<1> QED
  BY <1>2 DEF Seen

\* A read that leaves in line the bytes the CPU saw before is a load.
LEMMA ReadIsLoad ==
  ASSUME ~Verification, Inv, SeenLocates, Inv', SeenLocates',
         NEW a \in Addresses, NEW w \in WayIndices, NEW line \in LineTypes,
         Leaves(a, w, line), pm' = pm,
         Lines(a)[w].state = "DIRTY" => Matches(a, w),
         \A b \in Addresses : SameBlock(a, b) => line.block[b.co] = Seen[b],
         returned' = line.block[a.co]
  PROVE  Promise!Load(a)
<1>1. \A b \in Addresses : Seen'[b] = Seen[b]
  BY OtherBlocksKept, OwnBlockSeen
<1>2. Seen' = Seen
  BY <1>1 DEF Seen
<1>3. returned' = Seen[a]
  BY DEF SameBlock
<1> QED
  BY <1>2, <1>3 DEF Promise!Load, Seen

\* A write that leaves in line the bytes the CPU saw before, but for the byte
\* it stores, is a store.
LEMMA WriteIsStore ==
  ASSUME ~Verification, Inv, SeenLocates, Inv', SeenLocates',
         NEW a \in Addresses, NEW w \in WayIndices, NEW old \in LineTypes,
         NEW data \in Bytes, Leaves(a, w, WithByte(old, a, data)), pm' = pm,
         Lines(a)[w].state = "DIRTY" => Matches(a, w),
         \A b \in Addresses : SameBlock(a, b) => old.block[b.co] = Seen[b],
         returned' = returned
  PROVE  Promise!Store(a, data)
<1>1. /\ WithByte(old, a, data) \in LineTypes
      /\ \A o \in Offsets : WithByte(old, a, data).block[o]
                            = IF o = a.co THEN data ELSE old.block[o]
  BY WithByteType, FieldTypes DEF WithByte, LineTypes, Blocks
<1>2. ASSUME NEW b \in Addresses
      PROVE  Seen'[b] = IF b = a THEN data ELSE Seen[b]
  <2>1. CASE ~SameBlock(a, b)
    BY <1>1, <2>1, OtherBlocksKept DEF SameBlock
  <2>2. CASE SameBlock(a, b)
    <3>1. b.co = a.co <=> b = a
      BY <2>2 DEF SameBlock, Addresses
    <3> QED
      BY <1>1, <2>2, <3>1, OwnBlockSeen, FieldTypes
  <2> QED
    BY <2>1, <2>2
<1>3. Seen' = [Seen EXCEPT ![a] = data]
  BY <1>2 DEF Seen
<1> QED
  BY <1>3 DEF Promise!Store, Seen

\* Line w holds no dirty block that the access of a would replace.
LEMMA NotDirtyReplaced ==
  ASSUME Inv, NEW a \in Addresses, NEW w \in WayIndices, NEW line \in LineTypes,
         Leaves(a, w, line), ~DirtyReplaced
  PROVE  Lines(a)[w].state = "DIRTY" => Matches(a, w)
<1>1. cache'[a.ci][w].tag = a.ct
  BY VisitedLines DEF Leaves, Inv
<1> QED
  BY <1>1, FieldTypes DEF DirtyReplaced, Matches, Lines

\* A read of a is a load of a, and a write at a a store at a, but for one that
\* replaces a dirty line.
LEMMA AccessKeepsPromise ==
  ASSUME ~Verification, Inv, SeenLocates, Inv', SeenLocates',
         NEW a \in Addresses, ~DirtyReplaced
  PROVE  /\ sram_cache_read(a) => Promise!Load(a)
         /\ \A data \in Bytes : sram_cache_write(a, data) => Promise!Store(a, data)
<1> USE FieldTypes
<1>0. \A w \in WayIndices : Lines(a)[w] \in LineTypes
  BY DEF Inv, TypeOK, Lines
<1>1. ASSUME NEW w \in WayIndices, HitWay(a, w)
      PROVE  /\ Matches(a, w) /\ Lines(a)[w].tag = a.ct
             /\ \A v \in WayIndices \ {w} : ~Matches(a, v)
             /\ Lines(a)[w].state \in {"CLEAN", "DIRTY"}
             /\ Lines(a)[w].state = "CLEAN" => Lines(a)[w].block = pm[Frame(a)]
             /\ \A b \in Addresses :
                  SameBlock(a, b) => Lines(a)[w].block[b.co] = Seen[b]
  <2>1. /\ Matches(a, w) /\ Lines(a)[w].tag = a.ct
        /\ Lines(a)[w].state \in {"CLEAN", "DIRTY"}
    BY <1>0, <1>1 DEF HitWay, Matches, LineTypes, LineStates
  <2>2. \A v \in WayIndices \ {w} : ~Matches(a, v)
    BY <2>1 DEF Inv, NoTwins, IsFree, Matches, Lines
  <2>3. Lines(a)[w].state = "CLEAN" => Lines(a)[w].block = pm[Frame(a)]
    BY <2>1 DEF Inv, CleanInv, CleanMatchesDram, Lines
  <2>4. \A b \in Addresses : SameBlock(a, b) => Lines(a)[w].block[b.co] = Seen[b]
    BY <2>1, FoundBlockSeen
  <2> QED
    BY <2>1, <2>2, <2>3, <2>4
\* The line that a miss leaves in line w, when nothing was written back.
<1>2. ASSUME NEW w \in WayIndices, NEW state \in {"CLEAN", "DIRTY"}, ~Hits(a),
             pm' = pm
      PROVE  /\ Filled(a, w, pm, state) \in LineTypes
             /\ Filled(a, w, pm, state).tag = a.ct
             /\ Filled(a, w, pm, state).state = state
             /\ Filled(a, w, pm, state).block = pm[Frame(a)]
             /\ \A v \in WayIndices : ~Matches(a, v)
             /\ \A b \in Addresses :
                  SameBlock(a, b) => Filled(a, w, pm, state).block[b.co] = Seen[b]
  BY <1>2, FilledType, MissedBlockSeen DEF Inv, TypeOK, LineStates, Hits
\* A clean victim leaves memory alone.
<1>3. ASSUME NEW w \in WayIndices, Replaces(a, w), WriteBack(a, w),
             NEW line \in LineTypes, Visit(a, w, line), line.tag = a.ct
      PROVE  ~Hits(a) /\ pm' = pm
  <2>1. cache'[a.ci][w].tag = a.ct
    BY <1>3, VisitedLines DEF Inv
  <2>2. ~Matches(a, w) /\ Lines(a)[w].state # "INVALID"
    BY <1>3 DEF Replaces, Hits, IsFree, Lines
  <2>3. Lines(a)[w].state # "DIRTY"
    BY <2>1, <2>2 DEF DirtyReplaced, Matches, Lines
  <2> QED
    BY <1>3, <2>3 DEF WriteBack, Replaces
<1>4. ASSUME ReadHit(a)
      PROVE  Promise!Load(a)
  <2>1. PICK w \in WayIndices :
          /\ HitWay(a, w) /\ Visit(a, w, Lines(a)[w]) /\ pm' = pm
          /\ returned' = Lines(a)[w].block[a.co]
    BY <1>4 DEF ReadHit
  <2>2. Leaves(a, w, Lines(a)[w])
    BY <1>1, <2>1 DEF Leaves, Inv, TypeOK
  <2> QED
    BY <1>0, <1>1, <2>1, <2>2, ReadIsLoad
<1>5. ASSUME ReadFill(a)
      PROVE  Promise!Load(a)
  <2>1. PICK w \in WayIndices :
          /\ ~Hits(a) /\ Visit(a, w, Filled(a, w, pm, "CLEAN")) /\ pm' = pm
          /\ returned' = Filled(a, w, pm, "CLEAN").block[a.co]
    BY <1>5 DEF ReadFill
  <2>2. Leaves(a, w, Filled(a, w, pm, "CLEAN"))
    BY <1>2, <2>1 DEF Leaves, Inv, TypeOK
  <2> QED
    BY <1>2, <2>1, <2>2, NotDirtyReplaced, ReadIsLoad
<1>6. ASSUME ReadReplace(a)
      PROVE  Promise!Load(a)
  <2>1. PICK w \in WayIndices :
          /\ Replaces(a, w) /\ WriteBack(a, w)
          /\ Visit(a, w, Filled(a, w, pm', "CLEAN"))
          /\ returned' = Filled(a, w, pm', "CLEAN").block[a.co]
    BY <1>6 DEF ReadReplace
  <2>2. ~Hits(a) /\ pm' = pm
    BY <1>3, <2>1, FilledType DEF Inv, TypeOK, LineStates
  <2>3. Leaves(a, w, Filled(a, w, pm, "CLEAN"))
    BY <1>2, <2>1, <2>2 DEF Leaves, Inv, TypeOK
  <2> QED
    BY <1>2, <2>1, <2>2, <2>3, NotDirtyReplaced, ReadIsLoad
<1>7. ASSUME NEW data \in Bytes, WriteHit(a, data)
      PROVE  Promise!Store(a, data)
  <2>1. PICK w \in WayIndices :
          /\ HitWay(a, w) /\ pm' = pm /\ returned' = returned
          /\ Visit(a, w, WithByte(Lines(a)[w], a, data))
    BY <1>7 DEF WriteHit
  <2>2. Leaves(a, w, WithByte(Lines(a)[w], a, data))
    BY <1>0, <1>1, <2>1, WithByteType DEF Leaves, Inv, TypeOK
  <2> QED
    BY <1>0, <1>1, <2>1, <2>2, WriteIsStore
<1>8. ASSUME NEW data \in Bytes, WriteFill(a, data)
      PROVE  Promise!Store(a, data)
  <2>1. PICK w \in WayIndices :
          /\ ~Hits(a) /\ pm' = pm /\ returned' = returned
          /\ Visit(a, w, WithByte(Filled(a, w, pm, "DIRTY"), a, data))
    BY <1>8 DEF WriteFill
  <2>2. Leaves(a, w, WithByte(Filled(a, w, pm, "DIRTY"), a, data))
    BY <1>2, <2>1, WithByteType DEF Leaves, Inv, TypeOK
  <2> QED
    BY <1>2, <2>1, <2>2, WithByteType, NotDirtyReplaced, WriteIsStore
<1>9. ASSUME NEW data \in Bytes, WriteReplace(a, data)
      PROVE  Promise!Store(a, data)
  <2>1. PICK w \in WayIndices :
          /\ Replaces(a, w) /\ WriteBack(a, w) /\ returned' = returned
          /\ Visit(a, w, WithByte(Filled(a, w, pm', "DIRTY"), a, data))
    BY <1>9 DEF WriteReplace
  <2>2. ~Hits(a) /\ pm' = pm
    <3>1. pm' \in [Frames -> Blocks]
      BY <2>1, WriteBackType DEF Inv
    <3> QED
      BY <1>3, <2>1, <3>1, FilledType, WithByteType DEF Inv, LineStates
  <2>3. Leaves(a, w, WithByte(Filled(a, w, pm, "DIRTY"), a, data))
    BY <1>2, <2>1, <2>2, WithByteType DEF Leaves, Inv, TypeOK
  <2> QED
    BY <1>2, <2>1, <2>2, <2>3, WithByteType, NotDirtyReplaced, WriteIsStore
<1> QED
  BY <1>4, <1>5, <1>6, <1>7, <1>8, <1>9 DEF sram_cache_read, sram_cache_write

\* In a build with a bus the cache is one array of bytes, for every geometry,
\* but when it replaces a dirty line: any other read of an address, whatever it
\* fills or discards, returns the byte stored last at that address, and any
\* other write changes the byte at its own address and no other.
THEOREM OnlyDirtyReplacementLosesHolds ==
  ASSUME ~Verification
  PROVE  Spec => OnlyDirtyReplacementLoses
<1>1. Init => Promise!Init
  <2> SUFFICES ASSUME Init PROVE Promise!Init
    OBVIOUS
  <2>1. Seen \in [Addresses -> Bytes] /\ returned \in Bytes
    BY InitInv, SeenType DEF Inv, TypeOK
  <2> QED
    BY <2>1 DEF Promise!Init, Seen
<1>2. Inv => SeenLocates
  BY SeenLocatesHolds
<1>3. ASSUME Inv, SeenLocates, Inv', SeenLocates', ~DirtyReplaced,
             NEW a \in Addresses
      PROVE  /\ sram_cache_read(a) => Promise!Load(a)
             /\ \A data \in Bytes :
                  sram_cache_write(a, data) => Promise!Store(a, data)
  BY <1>3, AccessKeepsPromise
<1>4. Inv /\ SeenLocates /\ Inv' /\ SeenLocates'
      => [~DirtyReplaced =>
            \A a \in Addresses :
              /\ sram_cache_read(a) => Promise!Load(a)
              /\ \A data \in Bytes :
                   sram_cache_write(a, data) => Promise!Store(a, data)]_vars
  BY <1>3
<1> QED
  BY <1>1, <1>2, <1>4, InvHolds, PTL DEF Spec, OnlyDirtyReplacementLoses
=============================================================================
