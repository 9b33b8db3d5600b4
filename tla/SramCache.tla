----------------------------- MODULE SramCache -----------------------------
(***************************************************************************)
(* The set-associative, write-back, write-allocate cache between the CPU   *)
(* and the physical memory pm: src/src/headware/cpu/sram.c, the bus of     *)
(* src/src/headware/memory/dram.c and the address fields of                *)
(* src/src/headers/address.h.                                              *)
(*                                                                         *)
(* An operator named Mut... is a faulty variant of the one that follows    *)
(* it; the mutation checks put it in that one's place, and the             *)
(* specification never uses it.                                            *)
(***************************************************************************)
EXTENDS Integers, FiniteSets

CONSTANTS Ways,           \* NUM_CACHE_LINE_PER_SET
          Sets,           \* 2 ^ SRAM_CACHE_INDEX_LEN
          Tags,           \* the values of the field CT
          BlockBytes,     \* 2 ^ SRAM_CACHE_OFFSET_LEN
          Bytes,          \* uint8_t
          TimeMax,        \* INT_MAX, the last value of a line's time
          Verification,   \* built with CACHE_SIMULATION_VERIFICATION?
          MaxAccesses     \* bound on the accesses of a Verification build,
                          \* whose counters only grow

ASSUME SramAssumption ==
  /\ Ways \in Nat \ {0} /\ Sets \in Nat \ {0} /\ BlockBytes \in Nat \ {0}
  /\ 0 \in Tags /\ 0 \in Bytes
  /\ TimeMax \in Nat \ {0}
  /\ Verification \in BOOLEAN
  /\ MaxAccesses \in Nat

WayIndices == 0 .. Ways - 1
SetIndices == 0 .. Sets - 1
Offsets    == 0 .. BlockBytes - 1

\* The sram view of address_t.
Addresses == [ct : Tags, ci : SetIndices, co : Offsets]

\* The frame of pm that holds the block of an address: dram_base.
Frames == Tags \X SetIndices
Frame(a) == <<a.ct, a.ci>>

LineStates == {"INVALID", "CLEAN", "DIRTY"}
Times == -(TimeMax + 1) .. TimeMax
Blocks == [Offsets -> Bytes]

VARIABLES
  cache,     \* cache.sets[ci].lines[way]
  pm,        \* pm, one block per frame
  returned,  \* what the last sram_cache_read returned
  counters,  \* the monitoring counters of a Verification build
  newer,     \* per set, the pairs <<v, w>> of ways with v used after w (ghost)
  wrapped    \* has any line's time wrapped around? (ghost)

vars == <<cache, pm, returned, counters, newer, wrapped>>

-----------------------------------------------------------------------------
(* Searching a set                                                         *)

Lines(a) == cache[a.ci]

\* line->time++ of an int: undefined at INT_MAX, where the builds wrap.
Tick(time) == IF time = TimeMax THEN -(TimeMax + 1) ELSE time + 1

Matches(a, w) == /\ Lines(a)[w].state # "INVALID"
                 /\ Lines(a)[w].tag = a.ct

Hits(a) == \E w \in WayIndices : Matches(a, w)

HitWay(a, w) == /\ Matches(a, w)
                /\ \A v \in WayIndices : v < w => ~Matches(a, v)

IsFree(s, w) == cache[s][w].state = "INVALID"

\* The scan remembers the last invalid line it sees.
FreeWay(a, w) == /\ IsFree(a.ci, w)
                 /\ \A v \in WayIndices : v > w => ~IsFree(a.ci, v)

\* The scan keeps the first line with the largest time above -1, after ticks.
MutVictimWay(s, w) ==
  LET time(v) == Tick(cache[s][v].time)
  IN  /\ time(w) > -1
      /\ \A v \in WayIndices : time(v) > -1 => time(v) >= time(w)

VictimWay(s, w) ==
  LET time(v) == Tick(cache[s][v].time)
  IN  /\ time(w) > -1
      /\ \A v \in WayIndices : /\ time(v) <= time(w)
                               /\ v < w => time(v) < time(w)

\* The miss of a finds no free line, and replaces line w.
Replaces(a, w) == /\ ~Hits(a)
                  /\ \A v \in WayIndices : ~IsFree(a.ci, v)
                  /\ VictimWay(a.ci, w)

-----------------------------------------------------------------------------
(* What an access does to the set of a                                     *)

\* Every line of the set ticks, and w becomes line, with time 0.
MutVisit(a, w, line) ==
  /\ cache' = [cache EXCEPT ![a.ci] =
                 [v \in WayIndices |->
                    IF v = w THEN [line EXCEPT !.time = Lines(a)[v].time]
                    ELSE [Lines(a)[v] EXCEPT !.time = Tick(@)]]]
  /\ newer' = [newer EXCEPT ![a.ci] =
                 {p \in @ : p[1] # w /\ p[2] # w}
                   \cup {<<w, v>> : v \in WayIndices \ {w}}]
  /\ wrapped' = (wrapped \/ \E v \in WayIndices : Lines(a)[v].time = TimeMax)

Visit(a, w, line) ==
  /\ cache' = [cache EXCEPT ![a.ci] =
                 [v \in WayIndices |->
                    IF v = w THEN [line EXCEPT !.time = 0]
                    ELSE [Lines(a)[v] EXCEPT !.time = Tick(@)]]]
  /\ newer' = [newer EXCEPT ![a.ci] =
                 {p \in @ : p[1] # w /\ p[2] # w}
                   \cup {<<w, v>> : v \in WayIndices \ {w}}]
  /\ wrapped' = (wrapped \/ \E v \in WayIndices : Lines(a)[v].time = TimeMax)

\* bus_write_cacheline: the victim goes to the frame of the address that
\* misses, not to the frame it came from.  No bus in a Verification build.
WriteBack(a, w) ==
  pm' = IF Lines(a)[w].state = "DIRTY" /\ ~Verification
        THEN [pm EXCEPT ![Frame(a)] = Lines(a)[w].block]
        ELSE pm

MutFilled(a, w, memory, state) ==
  [state |-> state, time |-> 0, tag |-> Lines(a)[w].tag,
   block |-> IF Verification THEN Lines(a)[w].block ELSE memory[Frame(a)]]

\* The line that bus_read_cacheline fills from the frame of a.
Filled(a, w, memory, state) ==
  [state |-> state, time |-> 0, tag |-> a.ct,
   block |-> IF Verification THEN Lines(a)[w].block ELSE memory[Frame(a)]]

MutWithByte(line, a, data) ==
  [line EXCEPT !.block = [@ EXCEPT ![a.co] = data]]

WithByte(line, a, data) ==
  [line EXCEPT !.block = [@ EXCEPT ![a.co] = data], !.state = "DIRTY"]

\* The counters, each with what it grows by.
Monitor(hits, misses, evicts, inCache, evicted) ==
  counters' = IF Verification
              THEN [hit     |-> counters.hit + hits,
                    miss    |-> counters.miss + misses,
                    evict   |-> counters.evict + evicts,
                    dirty   |-> counters.dirty + inCache * BlockBytes,
                    flushed |-> counters.flushed + evicted * BlockBytes]
              ELSE counters

One(condition) == IF condition THEN 1 ELSE 0

-----------------------------------------------------------------------------
(* sram_cache_read                                                         *)

ReadHit(a) == \E w \in WayIndices :
  /\ HitWay(a, w)
  /\ Visit(a, w, Lines(a)[w])
  /\ returned' = Lines(a)[w].block[a.co]
  /\ Monitor(1, 0, 0, 0, 0)
  /\ UNCHANGED pm

ReadFill(a) == \E w \in WayIndices :
  LET line == Filled(a, w, pm, "CLEAN") IN
  /\ ~Hits(a) /\ FreeWay(a, w)
  /\ Visit(a, w, line)
  /\ returned' = line.block[a.co]
  /\ Monitor(0, 1, 0, 0, 0)
  /\ UNCHANGED pm

ReadReplace(a) == \E w \in WayIndices :
  LET line  == Filled(a, w, pm', "CLEAN")
      dirty == One(Lines(a)[w].state = "DIRTY")
  IN /\ Replaces(a, w)
     /\ WriteBack(a, w)
     /\ Visit(a, w, line)
     /\ returned' = line.block[a.co]
     /\ Monitor(0, 1, 1, -dirty, dirty)

-----------------------------------------------------------------------------
(* sram_cache_write                                                        *)

WriteHit(a, data) == \E w \in WayIndices :
  /\ HitWay(a, w)
  /\ Visit(a, w, WithByte(Lines(a)[w], a, data))
  /\ Monitor(1, 0, 0, One(Lines(a)[w].state = "CLEAN"), 0)
  /\ UNCHANGED <<pm, returned>>

WriteFill(a, data) == \E w \in WayIndices :
  /\ ~Hits(a) /\ FreeWay(a, w)
  /\ Visit(a, w, WithByte(Filled(a, w, pm, "DIRTY"), a, data))
  /\ Monitor(0, 1, 0, 1, 0)
  /\ UNCHANGED <<pm, returned>>

MutWriteReplace(a, data) == \E w \in WayIndices :
  LET dirty == One(Lines(a)[w].state = "DIRTY") IN
  /\ Replaces(a, w)
  /\ WriteBack(a, w)
  /\ Visit(a, w, WithByte(Filled(a, w, pm', "DIRTY"), a, data))
  /\ Monitor(0, 1, 1, 1, dirty)
  /\ UNCHANGED returned

WriteReplace(a, data) == \E w \in WayIndices :
  LET dirty == One(Lines(a)[w].state = "DIRTY") IN
  /\ Replaces(a, w)
  /\ WriteBack(a, w)
  /\ Visit(a, w, WithByte(Filled(a, w, pm', "DIRTY"), a, data))
  /\ Monitor(0, 1, 1, 1 - dirty, dirty)
  /\ UNCHANGED returned

-----------------------------------------------------------------------------
ZeroBlock == [o \in Offsets |-> 0]

\* pm, cache and the counters are zero-initialised statics.
Init ==
  /\ cache = [s \in SetIndices |->
                [w \in WayIndices |-> [state |-> "INVALID", time |-> 0,
                                       tag |-> 0, block |-> ZeroBlock]]]
  /\ pm = [f \in Frames |-> ZeroBlock]
  /\ returned = 0
  /\ counters = [hit |-> 0, miss |-> 0, evict |-> 0, dirty |-> 0, flushed |-> 0]
  /\ newer = [s \in SetIndices |-> {}]
  /\ wrapped = FALSE

\* Only the counters need the bound, and they move only under Verification.
Bounded == counters.hit + counters.miss < MaxAccesses \/ ~Verification

sram_cache_read(a) ==
  Bounded /\ (ReadHit(a) \/ ReadFill(a) \/ ReadReplace(a))

sram_cache_write(a, data) ==
  Bounded /\ (WriteHit(a, data) \/ WriteFill(a, data) \/ WriteReplace(a, data))

Next == \E a \in Addresses :
          \/ sram_cache_read(a)
          \/ \E data \in Bytes : sram_cache_write(a, data)

Spec == Init /\ [][Next]_vars

-----------------------------------------------------------------------------
(* Properties                                                              *)

\* Every variable holds a value of its C type.
LineTypes == [state : LineStates, time : Times, tag : Tags, block : Blocks]

TypeOK ==
  /\ cache \in [SetIndices -> [WayIndices -> LineTypes]]
  /\ pm \in [Frames -> Blocks]
  /\ returned \in Bytes
  /\ counters \in [hit : Int, miss : Int, evict : Int, dirty : Int, flushed : Int]
  /\ newer \in [SetIndices -> SUBSET (WayIndices \X WayIndices)]
  /\ wrapped \in BOOLEAN

\* A block is in one line at most, so that the first line that matches is the
\* only one and no stale twin of it can answer or be written back later.
NoTwins ==
  \A s \in SetIndices : \A v, w \in WayIndices :
    /\ v # w /\ ~IsFree(s, v) /\ ~IsFree(s, w)
    => cache[s][v].tag # cache[s][w].tag

\* A clean line is what pm holds in its frame: discarding it (sram.c:185,
\* "if CACHE_LINE_CLEAN discard this victim directly") loses nothing.
CleanMatchesDram ==
  \A s \in SetIndices : \A w \in WayIndices :
    cache[s][w].state = "CLEAN" => cache[s][w].block = pm[<<cache[s][w].tag, s>>]

\* A full set always yields a victim: assert(victim != NULL) (sram.c:163, 302)
\* holds, even when times have wrapped to negative values.
VictimFound ==
  \A s \in SetIndices :
    (\A w \in WayIndices : ~IsFree(s, w)) => \E w \in WayIndices : VictimWay(s, w)

\* The victim of a full set is its least recently used line, "select this
\* line as victim by LRU algorithm" (sram.c:106).
LruVictim(s) ==
  \A w \in WayIndices :
    (\A v \in WayIndices : ~IsFree(s, v)) /\ VictimWay(s, w)
    => \A v \in WayIndices \ {w} : <<v, w>> \in newer[s]

\* As long as no line's time overflows, the victim is the least recently used
\* line, although invalid lines tick too and a new line starts at 0.
VictimIsLruUntilWrap ==
  ~wrapped => \A s \in SetIndices :
                (\A w \in WayIndices : cache[s][w].time < TimeMax) => LruVictim(s)

\* What the CPU sees at a: the byte of the line that matches, or of pm.
Visible(a) ==
  IF Hits(a) THEN Lines(a)[CHOOSE w \in WayIndices : HitWay(a, w)].block[a.co]
  ELSE pm[Frame(a)][a.co]

Promise == INSTANCE ByteMemory WITH bytes <- [a \in Addresses |-> Visible(a)]

DirtyReplaced ==
  \E s \in SetIndices : \E w \in WayIndices :
    /\ cache[s][w].state = "DIRTY"
    /\ cache'[s][w].tag # cache[s][w].tag

\* The cache implements one byte memory but for the replacement of a dirty line:
\* any other sram_cache_read(a), whatever it fills or discards, returns the byte
\* that was stored last at a and changes no byte, and any other
\* sram_cache_write(a, data) stores data at a and changes no byte but that one.
OnlyDirtyReplacementLoses ==
  /\ Promise!Init
  /\ [][~DirtyReplaced =>
          \A a \in Addresses :
            /\ sram_cache_read(a) => Promise!Load(a)
            /\ \A data \in Bytes :
                 sram_cache_write(a, data) => Promise!Store(a, data)]_vars

\* "write-back the dirty cache line to dram" (sram.c:167), "Write-back `data
\* consistency`" (sram.c:308): a dirty line that is replaced is written to
\* its frame.
WriteBackKeepsData ==
  [][\A s \in SetIndices : \A w \in WayIndices :
       /\ cache[s][w].state = "DIRTY"
       /\ cache'[s][w].tag # cache[s][w].tag
       => pm'[<<cache[s][w].tag, s>>] = cache[s][w].block]_vars

LinesIn(states) == {p \in SetIndices \X WayIndices :
                      cache[p[1]][p[2]].state \in states}

\* The monitoring counters (sram.c:25-30) say what is in the cache: the dirty
\* bytes are those of the dirty lines, and every miss that evicted nothing
\* left one more valid line.
CountersAgree ==
  Verification =>
    /\ counters.dirty = BlockBytes * Cardinality(LinesIn({"DIRTY"}))
    /\ counters.miss - counters.evict = Cardinality(LinesIn({"CLEAN", "DIRTY"}))
    /\ counters.flushed <= BlockBytes * counters.evict
=============================================================================
