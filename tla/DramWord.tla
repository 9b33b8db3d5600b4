------------------------------ MODULE DramWord ------------------------------
(***************************************************************************)
(* The 64-bit accesses of src/src/headware/memory/dram.c, one byte at a    *)
(* time, over the bytes of the storage hierarchy (ByteMemory), and the     *)
(* address translation of src/src/headware/cpu/mmu.c before them.          *)
(*                                                                         *)
(* The widths are scaled: a byte has Base values, an int IntBytes bytes, a *)
(* word WordBytes bytes.  In the code they are 256, 4 and 8.               *)
(***************************************************************************)
EXTENDS Integers

CONSTANTS Base, IntBytes, WordBytes,
          Size,          \* PHYSICAL_MEMORY_SPACE
          VAddresses,    \* virtual addresses the CPU uses
          Data,          \* words the CPU stores
          Builds         \* the builds: the values of DEBUG_ENABLE_SRAM_CACHE == 1

Bytes == 0 .. Base - 1

\* A shift by w bytes is a multiplication by Place[w], and w bytes have as many values.
Place[w \in 0 .. WordBytes] == IF w = 0 THEN 1 ELSE Base * Place[w - 1]

ASSUME DramAssumption ==
  /\ Base \in Nat /\ Base >= 2
  /\ WordBytes \in Nat \ {0} /\ IntBytes \in 1 .. WordBytes
  /\ Size \in Nat \ {0} /\ VAddresses \subseteq Nat
  /\ Data \subseteq 0 .. Place[WordBytes] - 1
  /\ Builds \subseteq BOOLEAN

VARIABLES sramEnabled, \* is this a build with DEBUG_ENABLE_SRAM_CACHE == 1?
          bytes,   \* the byte the hierarchy holds at each physical address
          op,      \* "idle", "read", "write", or the call that returned:
                   \* "loaded", "stored"
          paddr,   \* its physical address
          i,       \* its loop counter
          val,     \* val of a read
          data     \* data of a write

dram_vars == <<sramEnabled, bytes, op, paddr, i, val, data>>

\* va2pa bounds the first byte only.  A word that runs over the end of pm is
\* undefined, and no input here.
va2pa(va) == va % Size

Inside == {va \in VAddresses : va2pa(va) + WordBytes <= Size}

-----------------------------------------------------------------------------
\* The int `byte << (i * 8)` as a 64-bit number: an int keeps its low bits and
\* its sign is extended; a shift by the width of int or more is undefined,
\* and gives 0 or, on x86, shifts by the count modulo that width.
AsWord(int) ==
  LET low == int % Place[IntBytes]
  IN (IF 2 * low >= Place[IntBytes] THEN low - Place[IntBytes] ELSE low)
       % Place[WordBytes]

IntShifted(byte, n) ==
  IF n < IntBytes THEN {AsWord(byte * Place[n])}
  ELSE {0, AsWord(byte * Place[n % IntBytes])}

MutShifted(byte, n) ==
  IF sramEnabled THEN IntShifted(byte, WordBytes - 1 - n)
  ELSE {byte * Place[WordBytes - 1 - n]}

\* Without the cache the byte is widened before it is shifted.
Shifted(byte, n) ==
  IF sramEnabled THEN IntShifted(byte, n) ELSE {byte * Place[n]}

ByteOf(word, n) == (word \div Place[n]) % Base

\* The numbers that the first bytes at a encode, the lowest first.
Encoded(memory, a) ==
  LET word[n \in 0 .. WordBytes] ==
        IF n = 0 THEN 0 ELSE word[n - 1] + memory[a + (n - 1)] * Place[n - 1]
  IN  word

\* The word whose little-endian encoding is at a.
LittleEndian(memory, a) == Encoded(memory, a)[WordBytes]

-----------------------------------------------------------------------------
DramInit == /\ sramEnabled \in Builds
        /\ bytes = [a \in 0 .. Size - 1 |-> 0]
        /\ op = "idle" /\ paddr = 0 /\ i = 0 /\ val = 0 /\ data = 0

Returned == op \in {"idle", "loaded", "stored"}

cpu_read64bits_dram(va) ==
  /\ Returned
  /\ op' = "read" /\ paddr' = va2pa(va) /\ i' = 0 /\ val' = 0
  /\ UNCHANGED <<sramEnabled, bytes, data>>

cpu_write64bits_dram(va, d) ==
  /\ Returned
  /\ op' = "write" /\ paddr' = va2pa(va) /\ i' = 0 /\ data' = d
  /\ UNCHANGED <<sramEnabled, bytes, val>>

ReadByte ==
  /\ op = "read" /\ i < WordBytes
  /\ \E shifted \in Shifted(bytes[paddr + i], i) :
       val' = (val + shifted) % Place[WordBytes]
  /\ i' = i + 1
  /\ op' = IF i' = WordBytes THEN "loaded" ELSE op
  /\ UNCHANGED <<sramEnabled, bytes, paddr, data>>

MutWriteByte ==
  /\ op = "write" /\ i < WordBytes
  /\ bytes' = [bytes EXCEPT ![paddr + i] = ByteOf(data, WordBytes - 1 - i)]
  /\ i' = i + 1
  /\ op' = IF i' = WordBytes THEN "stored" ELSE op
  /\ UNCHANGED <<sramEnabled, paddr, val, data>>

WriteByte ==
  /\ op = "write" /\ i < WordBytes
  /\ bytes' = [bytes EXCEPT ![paddr + i] = ByteOf(data, i)]
  /\ i' = i + 1
  /\ op' = IF i' = WordBytes THEN "stored" ELSE op
  /\ UNCHANGED <<sramEnabled, paddr, val, data>>

DramNext == \/ \E va \in Inside : \/ cpu_read64bits_dram(va)
                              \/ \E d \in Data : cpu_write64bits_dram(va, d)
        \/ ReadByte
        \/ WriteByte

DramSpec == DramInit /\ [][DramNext]_dram_vars

-----------------------------------------------------------------------------
\* A store leaves the little-endian encoding of its word ("64bits,
\* little-endian", dram.c:58), whatever an overlapping store left before.
StoreEncodes == op = "stored" => LittleEndian(bytes, paddr) = data

\* A load returns the word whose little-endian encoding is in memory ("read
\* 64bits, little-endian", dram.c:36) in every build, but for a build with the
\* cache and a word that is no non-negative int: the shift is done in int there.
LoadDecodesUnlessWide ==
  LET word == LittleEndian(bytes, paddr)
  IN  op = "loaded" /\ (sramEnabled => 2 * word < Place[IntBytes]) => val = word
=============================================================================
