# A verification development for csapp_stay

csapp_stay is a teaching simulator of a computer, after the book "Computer Systems: A
Programmer's Perspective": a CPU that executes textual x86-64 instructions, a
set-associative SRAM cache in front of a small physical memory, a stand-alone simulator of
the MESI protocol, a static linker for a textual ELF format, and the data structures these
use. It is one sequential C program (and two stand-alone ones). What is hard in it is
therefore less concurrency than long histories: a dirty block evicted long after it was
written, a hash directory doubled three splits after a key went in, a return address pushed
ten frames ago, an iterator left where an earlier search put it.

This directory holds TLA+ modules translated from the C code, TLC configurations that check
them on small instances, and proofs, checked by TLAPS, of what holds for every instance.
`PROJECT.json` maps every definition to the lines it stands for.

- `tlc -config X.cfg M` checks module `M`; the table of runs is below.
- `tlapm M.tla` checks the proofs of a module; the eight with theorems are those of section 6.

## 1. Inventory

State, operations, interactions, difficulties and correctness of every part. Paths are below
`src/src/`.

### MESI simulator (`headware/cpu/mesi.c`) - modelled
- State: `cache[NUM_PROCESSOR]` (state and value of the one line of each processor) and
  `mem_value`. Operations: `read_cacheline`, `write_cacheline`, `evict_cacheline`, each a
  cascade of hit and miss cases, and `check_state`, which `main` asserts after each of 100
  random operations.
- Interactions: none; a program of its own, in which one thread acts for all processors.
- Hard: every branch depends on the state that all the earlier operations of all processors
  left; a miss looks at the first other copy only; clean copies are dropped silently.
- Correct when: exclusion of owners, clean copies equal memory, write back whenever ownership
  ends, and, as the sum of these, reads return the last write.

### SRAM cache and I/O bus (`headware/cpu/sram.c`, the bus in `headware/memory/dram.c`) - modelled
- State: sets of lines (state, LRU time, tag, block), `pm`, and five monitoring counters in a
  build with `CACHE_SIMULATION_VERIFICATION`. Operations: `sram_cache_read`,
  `sram_cache_write`; `bus_read_cacheline`, `bus_write_cacheline`.
- Interactions: called per byte by `cpu_read64bits_dram` and `cpu_write64bits_dram`; calls the
  bus on a miss.
- Hard: replacement and write back, LRU by counters that overflow, allocation into a line that
  keeps some old state.
- Correct when: no block twice, clean lines equal memory, the victim is the LRU line, and the
  CPU sees one memory.

### 64-bit access and translation (`headware/memory/dram.c`, `headware/cpu/mmu.c`) - partly
- Operations: `cpu_read64bits_dram`, `cpu_write64bits_dram` (eight byte accesses each),
  `cpu_readinst_dram`, `cpu_writeinst_dram` (text of an instruction, past the cache), `va2pa`.
- Hard: shifts in `int`, words at overlapping addresses, words at the end of memory.

### CPU (`headware/cpu/isa.c`, `headers/cpu.h`, `headers/instruction.h`) - modelled but for byte registers
- State: `cpu_reg`, `cpu_flags`, `cpu_pc`; memory. Operations: `instruction_cycle` fetches and
  parses an instruction and calls the handler of its operator (eleven of them).
- Interactions: `va2pa` and the 64-bit accesses; a trie for the names of registers.
- Hard: the stack discipline of programs (push, call, leave, ret), flags that are computed from
  values already overwritten, handlers that return without moving `rip`.
- Correct when: flags describe operands, returns go to callers, the test programs compute.
- The parser (`parse_instruction`, `parse_operand`): two passes of character states, the conversion of
  numbers, and lookups of names in two tries that the first lookup builds. Hard: where an operand ends, which
  part of it is which, names that begin other names. Correct when what a programmer writes is parsed
  to what it means, and nothing else is taken for it.

### Extendible hash table (`algorithm/hashtable.c`) - modelled
- State: directory of 2^globaldepth pointers to shared buckets with a local depth each.
- Operations: construct, insert (loop of splits and doublings), get, delete, free.
- Interactions: the symbol and constant dictionaries of the linker.
- Hard: the sharing of buckets across splits and doublings, termination of insert, freeing
  a shared bucket once.

### Circular linked list (`algorithm/linkedlist.c`) - modelled
- State: nodes on the heap, head, count. Operations: construct, add, delete, get, next, free.
- Interactions: the tagged allocator's list of blocks; `linkedlist_next` moves the head.
- Hard: pointer surgery at the head, the tail and the only node.

### Tagged allocator (`common/tagmalloc.c`) - modelled
- State: `tag_list` of blocks. Operations: `tag_malloc`, `tag_free`, `tag_sweep`, `tag_destroy`.
- Interactions: used by the ELF parser; registers `tag_destroy` with the cleanup events.
- Hard: loops over a list by an iterator that moves the list's head, while the loop deletes.

### Static linker (`linker/staticlink.c`) - modelled
- State: the symbol map (source symbol and its copy), the destination's section headers, symbols and
  lines. Operations: `link_elf`, which runs symbol resolution (`symbol_processing`,
  `simple_resolution`), `compute_section_header`, `merge_section` and `relocation_processing`.
- Interactions: reads the files of the ELF parser, changes their common symbols, fills a file that the parser
  writes out.
- Hard: strong, tentative, undefined, local and weak symbols in any order of files; symbols that no
  section gives; lines moved by all that was merged before; sizes in lines and in bytes.
- Correct when: the strongest definition wins in every order, every symbol and relocation is found where the
  headers say, and the linker gives up only for a cause.

### ELF text parser (`linker/parseELF.c`) - modelled from the lines on
- State: `elf_t` with pointers to four tables, the static dictionary of constants. Operations: `parse_elf`,
  `write_eof`, `free_elf`.
- Interactions: tables come from the tagged allocator, constants from the hash table, `main` of
  `tests/test_elf.c` calls it around the linker.
- Hard: many allocations with one owner and an assertion between any two of them; a dictionary that one function
  makes, another frees, and whose pointer stays; a search for each table through a list that
  all files share.
- Correct when: a table lasts as long as its file, and a program ends and has then freed everything once.

### Cleanup events (`common/cleanup.c`) - modelled; dynamic array (`algorithm/Dynamic_array.c`) and trie (`algorithm/trie.c`) - partly
- State: `cleanup_events`, an array that the first event makes; nodes of a prefix tree. Operations:
  `add_cleanup_event`, `finally_cleanup`; `array_construct`, `array_insert`, `array_get`; `trie_insert`,
  `trie_get`, `trie_free`.
- Interactions: the tagged allocator and the parser of instructions register events.
- Hard: the array that does not exist without an event; the order of events; an index bound that is one too large;
  `next` pointers that `malloc` leaves unset.

### Number conversion (`common/convert.c`) - modelled
- `string2uint_range`, an automaton over characters with an overflow check. Used by the parsers.
- Correct when: a numeral in range is read as its number, and everything else stops the program.

### Left out for good
- `linker/linker.c` (a stub that reads and prints), `common/print.c` (output),
  `algorithm/redblack.c` (holds no code), `tests/false_sharing.c` (a timing experiment).

## 2. Plan

| step | modules | content | state |
|---|---|---|---|
| 1 | CoherentMemory, Mesi, MesiProofs | the MESI simulator implements one coherent word | done, proved |
| 2 | ByteMemory, SramCache, SramProofs | the cache, its LRU and its counters | done, proved |
| 3 | DramWord, CpuProofs | words over bytes | done, proved |
| 4 | PairBag, ExtHash, MCExtHash, HashProofs | the hash table implements a bag of pairs | done, proved but for liveness |
| 5 | Ring, LinkedList, TagAlloc, ListProofs | the list implements a ring; the allocator uses the ring | done, proved but for liveness |
| 6 | Cpu, MCCpu, CpuProofs | the instruction cycle | done, flags proved |
| 7 | StaticLink, MCLink, LinkProofs | symbols, layout, merge and relocation | done, proved |
| 8 | Convert, Trie, InstParser, MCParser, ParserProofs | the parser of instructions, its numbers and names | done, numbers and names proved |
| 9 | DynArray, ElfTool, MCElf, ElfProofs | a program that links, over the allocator: what files share and who frees it | done, proved but for liveness |
| 10 | CpuOverCache | Cpu over SramCache: stores through the cache, instruction text past it | if the state space allows |

## 3. Modules

Composition: `Mesi` INSTANCEs `CoherentMemory`, `SramCache` INSTANCEs `ByteMemory`, `ExtHash`
INSTANCEs `PairBag`, `LinkedList` INSTANCEs `Ring`, each with a refinement mapping. The refinements are stated call by
call: a step of an operation with its arguments must be the abstract step of that operation with those arguments, and
what is inside an operation must leave the abstract state alone. `Spec` of the abstraction alone would accept a lost pair
as a delete, or a read of another address. `TagAlloc`
uses the ring that `LinkedList` is shown to implement, instead of its nodes. `ElfTool` EXTENDS `TagAlloc` and
`DynArray`, `InstParser` EXTENDS `Convert` and `Trie`: their actions and operators are steps of the larger system. `DramWord` is over
the byte memory that `ByteMemory` specifies, `Cpu` over the words that `DramWord` specifies. `MesiProofs`,
`SramProofs`, `CpuProofs`, `HashProofs`, `ListProofs`, `ParserProofs`, `ElfProofs` and `LinkProofs` EXTEND the module that they are about, and
`CpuProofs` both `Cpu` and `DramWord`. The next-state relation of `DramWord` has names of its own (`DramInit`, `DramNext`) for that.

Definitions named `Mut...` are faulty variants of the definition that follows them: a dropped
reset, an off-by-one, a missing guard. No specification uses them. They serve to check that each
property would notice such a mistake.

### CoherentMemory, Mesi
`CoherentMemory` is one word with reads and writes. In `Mesi` one step is one call of an operation,
and `Check` is the assertion that follows it in `main`; the branches of each function are the disjuncts
of `ReadCacheline`, `WriteCacheline`, `EvictCacheline`. `FirstHolder` is the loop over the other
processors that stops at the first copy. `readValue` starts as any word, because the variable of `main`
is uninitialised. What holds is `Exclusion` (the table in the comment of `check_state`, which
`CheckState` counts), `CleanCopies`, `WriteBackEndsOwnership`, and through these `ImplementsMemory`:
the word of the abstraction is the owner's copy, or memory if there is none; a write of a value is `Store` of that
value, a read is `Load`, an eviction and a check change nothing.

### ByteMemory, SramCache, MCSram
One step is one call of `sram_cache_read` or `sram_cache_write`; the branches (hit, free line,
replacement) are its disjuncts. `FreeWay`, `HitWay` and `VictimWay` are what one scan of the set
finds: the last invalid line, the first match, the first line with the largest time above -1.
`Tick` is `line->time++`, which wraps at `INT_MAX` as the builds do. `WriteBack` writes the victim to the
frame of the address that misses, as the code does. `newer` (which way was used after which) and
`wrapped` are ghosts for the LRU property. In a verification build the counters move, and there is no bus.
`OnlyDirtyReplacementLoses` ties an access of address `a` to `Load(a)` or `Store(a, data)` of `ByteMemory`, up to the steps
that replace a dirty line. `MCSram` makes the tags but 0 symmetric: nothing but equality tells them apart.

### DramWord
A word access is a call and one step per byte, in scaled widths: bytes of `Base` values, ints of
`IntBytes` bytes, words of `WordBytes` bytes. `Shifted` is the shift of a byte in the build without the
cache (after widening) and in the one with it (in `int`). A shift by the width of `int` or more is undefined, and
gives both outcomes that compilers produce (0, or the x86 shift by the count modulo 32).

### PairBag, ExtHash
`hashtable_insert` does not look for its key, so the abstraction is a bag of pairs, not a map. An insert
is the call, a step per turn of its loop (`InsertSplits`), and the append. `SplitBucket` is the whole of
`split_bucket`: the doubling of the directory if the bucket uses all its bits, the new bucket,
the division of the pairs, the redirection of the entries. The hash is a constant function of the keys.
The code has no bound on the depth, the model has: a split that would double a directory of `MaxDepth` bits is not made.
An insert that finds `bsize` pairs that no directory of that depth can tell from the new one (`Saturated`) therefore stops there; in
the code, with more equal hashes than `bsize` (among them duplicates of one key), `hashtable_insert` splits for ever.
Such inserts are made in the model, and `InsertReturns` speaks of the others.

### Ring, LinkedList, TagAlloc
`LinkedList` has nodes with `next` and `prev` on a heap. One step is one call, except `linkedlist_get`,
which goes node by node, for a value that is in some node or in none. In the second case it goes round for ever: the loop at
linkedlist.c:164 waits for a NULL that a ring does not have. `GetReturns` is about the first. No function of the repository calls
`linkedlist_get`.

`TagAlloc` has the blocks in ring order and a step per turn of each loop. `Advance` is
`p = linkedlist_next(tag_list)`, which returns the head that it moves past. The loop starts with `p` at the
head already, so its second turn looks at the same node, and the last one is missed. The model
follows the code, and its preconditions say what the code needs in order to be right:
- `DestroyUpTo` (1 in `tag_tail`): with two or more blocks left, `tag_destroy` frees the first of them a second time;
- `SweepTags` holds tags that no block has: `tag_sweep` leaves nodes of blocks that it has freed.
`ElfTool` puts no bound on the blocks when `tag_destroy` runs, and shows that no program leaves two.

### Convert, Trie, InstParser, MCParser
`Convert` reads a character a step; `state` is that of the automaton and `Target` its transitions, with the
`goto fail` as the state `Dead`. `exact` is a ghost with the sum of the digits without the wrap; `ConvertsNumerals` does not
use it, it reads the text itself (`Numerals`, `Values`). `Trie` names a node by the
characters that lead to it, so a trie is a function from nodes to addresses; `trie_get` says where the loop of the code stops,
and where it follows NULL or the index -1 (`"undefined"`).

In `InstParser`, `parse_instruction` is the splitting loop (`SplitCharacter`, one turn, folded over the text), and
`pc` and `step` are where it is afterwards: in the source, the destination or the operator, and in which part of the operand.
`Parts` is the loop of `parse_operand` over a memory operand, `Fit` whether its small buffers are large enough. A number is a
run of `Convert`. `pc = "exit"` is a refusal, `"undefined"` an access that the code must not make. After an
instruction comes another, and the tries stay.

`MCParser` builds the inputs from their meaning: every operand format, register (with the layout of
`cpu_reg_t`: the names of a register's parts share its address, but for the second byte) and operator is written as the
programs write it, and `ParsesAsWritten` compares what comes out with what was meant.

### DynArray, ElfTool, MCElf
`ElfTool` is `main` of `tests/test_elf.c` for up to three sources, or `main` of
`tests/test_headware.c`. `pc` is the place in `main` or in `parse_elf`. The allocator takes a step per turn of its loops,
the other actions wait until it is `Idle`. A block is named by its file and table. `elf` has the pointers:
`free_elf` passes NULL for a table that is not there, and the search then goes around the whole list. The linker between the parsing
and the writing is reduced to its two allocations and its right to give up; `StaticLink` has the rest. A program that
stops early (`pc = "stopped"`) leaves its memory to the operating system. The first instruction, which builds the tries and registers
their cleanup, may come in between, so events are registered in both orders.

### Cpu, MCCpu
One step is one `instruction_cycle`. An action per handler and operand form that it supports;
`Unsupported` is the return of a handler that does not know the types of its operands, with `rip` where it
was. `callq` jumps whatever its operand is: a register gives the address of its C variable, any word (`GoTo`).
A cell of memory is one word, so addresses count words; an instruction takes one slot, and programs are parsed
already. `va2pa` is the modulo of the code. `frames` is a ghost stack of the calls in
progress. `MCCpu` has the two programs of `tests/test_headware.c` and single instructions as starts.
The stack is put at every address, so that it also wraps around the physical memory.

### StaticLink, MCLink
One step is one symbol of a source (`InsertSymbol`, `ResolveSymbol`, `PassWeak`), the loop `CleanUp`, the whole
of `compute_section_header`, one pair of section and symbol in `merge_section` (`MergeSymbol`, `PassUnmerged`),
the printing of the table, and one relocation. `todo` is the set of what the loop in progress has left: tuples of the
indices of its nested loops, which are visited in lexicographic order (`Visits`). `pc` is
the phase or the reason for which the link has ended early: an assertion or an `exit` (`"full"`, `"unknown"`, `"multiple"`, `"unnamed"`,
`"unresolved"`, `"toolong"`, `"miscounted"`, `"unmapped"`, `"nottext"`), or an access that the program does not notice, after which
its behaviour is undefined: it prints an entry of the table that nothing has set (`"unset"`), writes the table behind the buffer (`"overrun"`),
or a patch (`"astray"`). A line is the triple of file, section and row it came from, so that a wrong
copy is visible, and `patches` has what was written into lines. `Filled` and `Written` stand for the counters
`sym_section_offset` and `line_written`, as sums over the table written so far. `MCLink` has the files a compiler makes
of one function, one object and static objects, in every combination of forms, a weak object behind others, files whose local symbols
come first with their lines in any place, and a name that `CleanUp` refuses.

Preconditions of the inputs: those in `InputAssumption` (section 6), and source lines exist. Nothing is assumed of the order of
the symbols in a table. `gcc` puts the local ones first, so the symbols of `.data` need not come in the order of their lines,
and the extra line that `.rel.data` gives to each symbol (staticlink.c:200) can be the first one of a symbol that is merged
elsewhere. `Attributable` says when it is not: `Behind` are the symbols that the merge puts behind the one that
the relocation is attributed to, and the first of them must begin on that line. `RelocationsLand` says that a
patch lands right if and only if that is so, or the relocation stands in the symbol itself. `Surplus` is by how much the header of
`.data` points behind its lines: `.rodata` is counted in it in bytes.

## 4. Runs

| run | module, cfg | question and result | bounds |
|---|---|---|---|
| mesi | Mesi, Mesi.cfg | do five caches behave as one word, through all rounds of `main`? yes | N and the rounds are those of the code; two values tell the last write from an earlier one, a third is the initial memory |
| sram_replace | MCSram, MCSram.cfg | does the cache keep its structure, and what can lose data? only the replacement of a dirty line | three tags for two ways force replacement, two of them symmetric; blocks of two bytes, so that a store leaves a neighbour; times wrap at 1, so every pattern of wrapped times occurs |
| sram_lru | SramCache, _lru | is the victim the LRU line, and do the counters agree? yes, until a time wraps; yes | four tags for three ways; every trace of nine accesses; times wrap at 4, which is within reach |
| sram_writeback | SramCache, _writeback | does write back save the dirty line? no (violation) | two ways, three tags |
| dram | DramWord, DramWord.cfg | are words little-endian, both ways, in both builds? yes, for non-negative ints in the build with the cache | 2-bit bytes, 2-byte ints, 4-byte words, which keep the ratio 1:2 of int and word; overlapping and aliased addresses |
| hash | MCExtHash, MCExtHash.cfg | does every call do to a bag of pairs what it promises, do inserts return, is each bucket freed once? yes | buckets of one and two pairs, four keys whose hashes differ in the first, second or third bit, four pairs: up to two doublings in one insert, a bucket shared by four entries |
| list | LinkedList, LinkedList.cfg | is the list a ring, does a search return? yes, for a value that is listed | four nodes: first, last, middle, only; two values, listed or not |
| elf | MCElf, MCElf.cfg | is nothing used or freed when it is gone, does a table last as long as its file, does the program end, with all freed? yes | up to three files of two symbols, with and without each relocation section, and eight files with one of the faults that are checked for; an array for one event, so that the second makes it grow |
| tag_tail | TagAlloc, _tail | does `tag_free` find a live block? no (violation) | four blocks |
| cpu | MCCpu, MCCpu.cfg | do the test programs compute, halt, return to their callers; are the four flags what operands and formulas make them? yes | sum of 0 to 5, so up to six nested frames; 64 word values, 32 cells: addresses alias; every first operand, second operands around 0, 31 and 63 (`FlagsDescribeHolds` is for every pair) |
| parser | MCParser, MCParser.cfg | is what is written parsed, are numerals converted, do names stand for their own? yes | all 72 register names and 12 operators, eleven operand formats; every text of up to four of seven characters as a number, in words of five bits, where three digits overflow with and without being noticed; every text of up to four of six letters as an operator and as a register |
| link | MCLink, MCLink.cfg | is the right symbol chosen, where do symbols and relocations land, has an early end its cause in the files? where the headers say, behind `.rodata` less their surplus, for the extra line of `.data` only if the next symbol follows; yes | two files of up to three symbols and one relocation per line, three files of one object, files with three objects in every order of lines; a map of 3 entries and a buffer of 14 lines, which some inputs fill: every early end but `"miscounted"` occurs |

The bounds in the modules are named: `MaxAccesses` (SramCache, verification builds only: the counters
never decrease), `MaxDepth`, `MaxPairs` (ExtHash), `MaxNodes` (LinkedList), `Blocks` (TagAlloc), `W`,
`MemWords` (Cpu), `MaxN` (MCCpu),
`MapLength` and `FileLength` (StaticLink), `MaxSources` (ElfTool), `NumberLength` and `NameLength` (MCParser).
Deadlock is checked in `sram_replace`, `sram_writeback` and `dram`, whose systems serve calls for ever; the others stop: a
program ends, a structure is freed, a bound is reached. The type invariants of Mesi, SramCache and Cpu are proved (section 6) and not
run again.

What the two violations say of the code:
- **sram_writeback.** `bus_write_cacheline` is given the address that misses (sram.c:168, 309), so a dirty
  victim is written over the frame that is fetched next. Its own frame keeps the old bytes, and the new line is
  filled with the victim's. `OnlyDirtyReplacementLoses` says that nothing else loses data.
- **tag_tail.** See TagAlloc above. In `elf` it does no harm: files are freed in the order in which they were parsed, so
  every search but one finds its block at the head. The one is that of `dst->sht`, which the linker
  allocates behind `dst->symt` and `free_elf` looks for first: it is missed, and freed by `tag_destroy` as the only
  block left.

Observations without a run:
- With the cache, `sram_cache_read(...) << (i * 8)` is a shift of an `int` (dram.c:39): bytes 4 to 7 are lost or land on the
  low half, and byte 3 extends its sign. `LoadDecodesUnlessWide` gives the words for which a load is right.
- `mo` or `leave` is accepted as an operator: a beginning of a name ends at a node whose address nobody has set, and
  0 is `INST_MOV`. A name that goes one character beyond a leaf dereferences NULL (`trie_get`). `NamesResolve` allows the first,
  and nothing more.
- The overflow check of the conversion compares with the previous value only, so some numerals
  beyond 64 bits are reduced silently. The empty numeral, `-` and `0x` are 0, and -2^63 is refused. `ConvertsNumerals` states all this.
- Blanks inside an operand or in front of the comma are not parsed as meant; a register name of eight characters or a
  scale of two runs over its buffer.
- `link_constant_dict` still points to the dictionary after `write_eof` has freed it, so a program could not link
  twice.
- After 2^31 accesses to a set a line's time is negative, and the victim is no longer the LRU line. That is why
  `VictimIsLruUntilWrap` has its `~wrapped`.
- The comments in the handlers of `add`, `sub` and `cmp` do not describe the flags. CF of `add` is "unsigned overflow" (isa.c:743),
  but it compares with the source after the store (744), so `add r,r` never has one. OF is to be 1 for operands of one sign and a result
  of the other (750-752, 789-791), but `(src_sign == dst_sign) ^ val_sign` (753, 792, 821) is 1 for 5 - 3, and for `add`, which takes
  the signs after the store, it says that the source is not negative. isa.c:806 says that `cmp` sets ZF to 0 if
  the difference is 0; the code sets it to 1. `FlagsDescribe` says what the flags are.
- `jne` (834) reads ZF only, so the OF of `cmp` does no harm in the programs of the repository.
- An insert into a bucket that is full of pairs with its own hash never returns (hashtable.c:176; `Saturated`, section 3).
- The linker's header of `.rodata` has its size in bytes (staticlink.c:403), and line 411 adds it to an offset in
  lines, so the header of `.data` points `7 * CountOf(".rodata")` lines behind its first. `SymbolsLocate` and `RelocationsLand` say that
  everything in `.data` is off by just that (`Surplus`). A patch of `.data` is written that much too far, and if that is behind
  the buffer nothing notices (`"astray"`).
- Only the copied lines are checked against the buffer (519). The printed table is not: line 566 writes behind the buffer, and the assertion of
  line 570 compares the count afterwards (`"overrun"`).
- The linker takes 88 bytes (`sizeof(isnt_t)`) per instruction in relocations (249, 303) and 64 (`MAX_INSTRUCTION_CHAR`) in the header
  (352), and the processor moves its `rip` by 64 (isa.c:596). So what a relocation of `.text` computes is not the distance that the
  processor would have to go. `AddressesApart` says no more than that the addresses of the relocations keep the symbols apart; where the
  processor gets to is not stated.
- The linker writes the number of symbols (staticlink.c:346) where the parser reads that of sections (parseELF.c:376).
- With the local symbols of a file first, as `gcc` orders them, static objects on lines 0 and 2 of `.data` and a global one between
  them become `s1`, `s2`, `g`. A relocation on the first line of `g` is attributed to `s1`, whose end is one too far
  (staticlink.c:200), and patches the line behind the copy of `s1`: the one of `s2`. `MCLink` has such files (`LocalsFirst`).
- A weak symbol is dropped: the linker copies none of it, and a relocation inside it stops the program. One in the first line
  of a weak object of `.data` does not: the symbol in front covers that line as well, and what is patched is the
  line behind that symbol in dst, which belongs to another one or to `.symtab`. `RelocationsLand` says so, since the weak object is
  not `Behind` it.

## 5. Fairness

Safety needs none. Four specifications have some, always of a thread that is at work:
- `Cpu`, `ElfTool`: `WF_vars(Next)`. One thread runs a loop that has nothing to wait for.
- `ExtHash`, `LinkedList`: weak fairness of the steps of the call in progress. Nothing obliges the program to make
  another call.

`Halts`, `ProgramEnds`, `InsertReturns` and `GetReturns` rest on these.

## 6. Proofs

Assumptions are those in the modules, and TLC evaluates them in the runs. Most say of what type a constant is. Those that say more:
- `WordAssumption` (Convert): a word has an even number of values, at least 16.
- `TableAssumption` (InstParser): a table has finitely many names, each a sequence of characters, and no register has the address of
  a fresh node, 0. `TextsAssumption`: instructions are sequences of characters.
- `DramAssumption` (DramWord): a byte has two values at least, an int is no wider than a word.
- `HashAssumption`: the hash is a function of the key, and `Missing` (NULL) is no value.
- `ListAssumption`: `Null` is neither a value nor a node. The same of blocks and arrays in `ElfAssumption`, which also says that
  every table of every file may be a block, and that `SweepTags` has no tag of a block: that is the precondition of
  TagAlloc (section 3). `parse_elf`, the only caller of `tag_sweep`, sweeps "parse_table_entry", and no block has the tag of that text.

**MesiProofs**, for any number of processors, rounds and any set of values.
- `Exclusion` is not inductive without the types, and `CleanCopies` not without `Exclusion`: the last sharer that an
  eviction promotes must have had the value of memory, and the owner that a miss finds first must be the only
  holder. Each operation has a lemma, each branch a step.
- `NeverFailsHolds` relates `Exclusion` to the counting of `check_state` through
  cardinalities: a set of one owner and N-1 invalid lines, two sharers, or none.
- `CachesImplementMemory` maps each operation to its own step of `CoherentMemory`: a write to the store of its value, a read to a load, any
  other to a stutter, with the invariants `Exclusion` and `CleanCopies`.
- `WriteBacksEndOwnership` is an action property over the branches.

**SramProofs**, for every geometry, in both builds (`CleanMatchesDram`: in the normal one, which has a bus).
- `NoTwins`: a block is filled only after a miss, so no other line has its tag.
- `CleanMatchesDram`: a line becomes clean only with the bytes of its frame; a wrong write back hits only the
  frame of the address that misses, which, by the miss, is not in the cache. That is why the misplaced write back does not
  break it.
- `VictimFound`: right after an access one line has time 0, so some time is above -1 after the next tick.
  The inductive invariant says that in a set that has been used some line is at 0.
- `CountersAgree` (verification builds): an access moves the counters by what it does to one line. The lines in a state are a finite
  set of pairs, and each branch adds a line to it, takes one away or leaves it, so the proof follows the cardinalities. It needs
  nothing but the types and that the tick of the other lines keeps their states.
- `OnlyDirtyReplacementLoses` (normal builds): what the CPU sees at an address is the byte in the line that holds it, which
  `NoTwins` makes unique, or the byte in memory. A fill shows what memory had; dropping a clean line shows, by
  `CleanMatchesDram`, what the line had. This is the refinement of `ByteMemory`, address by address, for every step but one kind.
- `VictimIsLruUntilWrap`: without a wrap the order of times is the order of use. The inductive invariant
  relates `newer` to the times, and says that no time is negative.

**CpuProofs**, for every word width that is even, every memory and every program.
- `TypeCorrect`: results stay words.
- `FlagsDescribeHolds`: the carry of `add` is `sum < src` although both are taken after the store, unless the two are one register
  (`AddTwiceFlagsDescribe`); the borrow of `sub` and `cmpq`; zero; sign. OF of `sub` and `cmp` is compared with the signed overflow of the
  difference by cases on the signs (`SubOverflowDescribe`): it agrees in some of them and is the opposite in the others.

And about `DramWord`, for every number of bytes of a word and of an int and every number of values of a byte:
- `StoreEncodesHolds`: the bytes below the loop counter are those of the word (`WordInv`), and the sum of its digits times their
  places is the word (`EncodesWord`, by `NextDigit`: the remainder by one more place has one more digit).
- `LoadDecodesUnlessWideHolds`: `val` is the number encoded by the bytes below the counter (`Encoded`), as long as the word is one that
  the shift in `int` leaves alone (`ShiftedIs`): then no byte contributes more than half an int (`BytesBelowWord`), those from the width of an int on
  are zero, and no sum wraps.

**Induction.** The library's induction theorems take a predicate as a parameter, which the provers cannot instantiate.
The modules that need induction have it in other forms. `LeastNatural` says that a non-empty set of naturals has a
least element (through the library's well-founded relations, whose theorem is about a set), `NaturalSet` that a set with 0 and all
successors has all naturals, `Iteration` that a recursive function on the naturals is defined as it is written, and
`SubsetInduction` that a set with `{}` and what grows from it by one element has all parts of a finite set. `FoldInduction` is the
same for the sets that a fold of the community modules meets, `FoldExists` and `StepsExist` are `Iteration` for folds and for
functions on an interval.

**HashProofs**, for every set of keys and values, every hash function and bucket size, and any number of splits.
- The inductive invariant is `DirectoryAgrees` with `Placed` (a pair is in a bucket that agrees with its hash on the bits of the
  local depth), `DepthsFit` (no local depth above the global one), `Reached` (every bucket has an entry) and the types. `Reached` is what
  `FreedOnce` needs: the loop of `hashtable_free` goes through the entries. `DepthsFit` is what the doubling needs: the
  entries of the upper half are copies, and only with the depth within the old directory do they agree with their originals.
- `DirectoryAgrees` is disturbed by `SplitBucket` alone, which doubles, divides and redirects at once. The proof
  takes an entry of the new directory back to the old one (`From`) and compares remainders.
- `PairsPlaced` is the consequence of `Placed` and `DirectoryAgrees` that a user of the table relies on: a pair is in
  the one bucket in which a get or a delete of its key looks.
- `ImplementsBagHolds`: the bag counts the cells of all buckets that hold a pair. A split moves cells between two buckets along the
  bijection that `Kept` is shown to be (order and number are kept), so the counts do not change. The append of an insert adds the cell of
  the pair that was given, a delete takes one of its key away. `get` answers for the bag because of `PairsPlaced`: a key's pairs are
  in the one bucket that is searched.

**ListProofs**, for any number of nodes.
- The inductive invariant is that there is an order: a function from `0 .. count - 1` to the nodes in use, injective and
  onto, that starts at the head and that `next` follows and `prev` goes back (`Shape`). The operations are lemmas on orders: add puts a node behind
  the last, delete closes the gap (first, last, middle and only), next rotates.
- `OneRingHolds`: `OneRing` of the module speaks of iterating `next` and `prev` from the head, so `Iteration` is applied to the order.
- `ImplementsRingHolds`: the values along the order are the contents of `Ring`, and each call takes its own step of it: a delete takes out
  the position of its node, a search answers only when the value is found. The mapping in LinkedList is that recursive
  walk too. `linkedlist_get`, node by node, is a search in that sequence.

**ParserProofs**, about `InstParser` and the `Convert` and `Trie` in it: for words of every width, texts of any length
(`TextsAssumption`: sequences of characters) and any finite tables of names (`TableAssumption`).
- `ConvertsNumerals` compares the automaton with the numerals as one would define them, in both directions (`Tracks`).
  If the text is a numeral, then behind each position of it the automaton is in one of the states that `Stands` gives for the
  part of the numeral that it is in, and `exact` is the value of the digits so far. Conversely each state that accepts a
  digit `Explains` itself: what has been read is a numeral up to there, so a text that is none is left in a state
  in which nothing has been counted, and is read as 0. A step at which the overflow check fails, or that no state allows, is at no
  numeral in range: values of the digits only grow. That the operands given to the conversion are texts is a lemma on the folds
  that split the instruction.
- `NamesResolve`: whatever the order in which the names of a table are inserted, the trie has one node for each prefix of a
  name, with the name's value at its end and that of a fresh node elsewhere (`IsTrie`, `InsertedIsTrie`). So a lookup finds a
  name, or what begins one (`FoundResolves`). The inductive invariant (`NamesInv`) says this of each part of the instruction from the moment at which
  it is complete, and an operand that is memory or a number never gets the type of a register.

**ElfProofs**, for any number of sources, any files and any capacity of the array of events.
- The difficulty: `tag_free` goes through a list that all files share, which it turns as it goes, and misses the last
  block (section 3). That the tables of a file are found is therefore no property of the allocator but of the order of all its
  calls. The argument is that the list is always in the order in which the tables were allocated
  (`Listed`: `OrderedAt` the number of turns that the search in progress has made), and that this is the order in which `main` frees them.
  So each search looks for the first block. The exception is `dst->sht`, allocated behind `dst->symt` and freed before it:
  it is last, the search turns the whole list and misses it, and at the end it is the only block that `tag_destroy` finds.
- `Inv` relates this to the program: where it is and with which call (`Where`, `Called`), which tables are set (`Allocated`) and live or freed
  (`Status`, `Released`), what is on the list, and which events are registered (`Events`: at most two, each once, `tag_destroy` as soon as
  there is a block, `trie_free` as soon as there are tries).
- `NothingDangling` is a part of `Inv`; `TablesLiveUntilFreed` and `NothingLeaks` follow from it. The searches for NULL, for a table that
  a file does not have, turn the list and free nothing.

**LinkProofs**, for any number of files and symbols, in any order, any map, buffer and sizes of lines. `InputAssumption` says what
the inputs are: symbols have the types in the table of `symbol_precedence` (staticlink.c:704), those of a merged section have at least a
line, in a section that their file has, a local one is defined, and a relocation names a symbol of its file and stands within
one of its section. The order of the symbols is arbitrary.
- `ReadInv` (reading): with `Resolution`, sources in the map are distinct, every local and every strong symbol read has an entry,
  every global name read has exactly one; with `Best`, no global symbol of a name is of a higher precedence than its entry. That strong
  symbols keep their entries is what `ResolvedSoFar` does not say and the rest needs: a replacement takes away only what is
  weaker, and two strong ones stop the program. `CleanUp` changes sources while they are chosen, so precedences are compared across it.
- `MergeInv` (merging, for ever after): `Numbered`, the numbers in the map are a bijection between the entries merged and the table;
  `InOrder`, what is merged is what has been visited, section by section; `Counted`, the sums over the
  table are those over the map, per section; `Copied`, the lines so far are an interval without gaps, and a symbol's lines
  are behind all sections in front of its own (`Before`) and the symbols of its own that came earlier. The sums are of the fold that
  the model uses; their laws (one element more or less, monotone, over equal functions) are proved first.
- `StopsForCause`: `line_written == line_count` because nothing is merged twice or left out when all has been visited. A full map is a matter
  of counting: its entries are as many as the local symbols and the global names read so far (`MapFull`), without the one that is to
  be added. So is an unset entry of the printed table: a table as long as the map leaves no entry without a number
  (`AllNumbered`), a shorter one leaves some, which is then in no merged section (`SomeUnnumbered`). For `"toolong"` the lines written and
  those of the next symbol are at most all that are copied (`MergeStops`). A patch is at most `Surplus` behind the lines of the
  file (`PatchInside`), so one behind a buffer in which the file fits is one of `.data` behind `.rodata`.
- `DoneMeansDefined`: what has been merged is in `.text`, `.rodata` or `.data`, hence strong, and every strong symbol has an entry.
- `SymbolsLocate`: the offsets in the headers are prefix sums over the sections present, and equal `Before` plus `Surplus`
  (`SectionStarts`).
- `RelocationsComplete`: a relocation of a global name finds a target, since the name has an entry and that has been merged, and
  a symbol that covers its line.
- `RelocationsLand`: in `.data` the first symbol that covers a line may be the one that ends in front of it, and then the patch is on
  the line behind that symbol in dst. Whose line that is, is `StackInv`: each symbol begins where its section was filled up to (`Stacked`),
  the section has no gap (`Gapless`), and the table is in the order of the visits (`Ordered`, over `Lexical`). So the line, unless it is behind
  all of `.data`, is the first of the next symbol merged (`NextBegins`), and if that is one of the same file it is the least of
  `Behind` (`BehindIs`, `DataOrder`). Both directions of the equivalence follow (`LineBehind`).
- `AddressesApart`: symbols of a section do not overlap by `Stacked`, and the sections do not by the sizes in their headers, in lines or in bytes
  (`BasesApart`, `SymbolsApart`). It holds for any `InstSize`, and so says nothing of the size that the processor uses.

Only model-checked:
- liveness under fairness (`Halts`, `ProgramEnds`, `InsertReturns`, `GetReturns`), which the prover does not cover;
- properties of particular programs (`TestsCompute`, `ReturnsToCaller`);
- `ParsesAsWritten`: about the particular names, formats and numerals that MCParser writes.

`WriteBackKeepsData` and `FreeFinds` do not hold (section 4).

## 7. Abstractions

- Failure of `malloc`, assertions on NULL and printing are left out.
- Instruction text: `Cpu` has parsed instructions apart from the data, and `InstParser` parses texts apart from memory. The
  store of a program into memory and its read past the cache are not modelled.
- Memory that a trie gets from `malloc` is zero. The tries are built before the program has freed anything; the code
  does not set the pointers of a new node.
- ELF files: comments, blank lines and the columns of a line are what `MCElf` says about them. A file whose headers refer to lines it does
  not have is no input (the buffer is not initialised there). Failures to open a file are among the early stops.
- `array_delete`, `trie_insert_with_isvalid` and `free_tag` are called by nothing.
- The second bytes of registers (`%ah`) are left out of `Cpu`; `%eax` and the like name the 64-bit register whose
  address the parser uses, since the handlers access 64 bits.
- The hash function is any function of the key. The overflow of its `int` arithmetic is undefined in C, and
  it is assumed only that equal keys have equal hashes.
- A word that runs over the end of physical memory is undefined, and no input of `DramWord`.
- The linker's lines are their origins. What the printed symbol table and the patched columns look like is left out, and
  so are the addends, which the handlers ignore.
