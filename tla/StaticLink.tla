----------------------------- MODULE StaticLink -----------------------------
(***************************************************************************)
(* The static linker of src/src/linker/staticlink.c: it resolves the       *)
(* symbols of the parsed ELF files, lays out the sections, copies the      *)
(* lines of the symbols and patches the relocated ones.                    *)
(*                                                                         *)
(* A line of a section is the triple <<file, section, row>> it came from.  *)
(* A pointer to a symbol of a source is the pair <<file, index>>.  What a  *)
(* loop has still to visit is the set todo of tuples of its indices.       *)
(* An operator named Mut... is a faulty variant of the one that follows    *)
(* it; the specification never uses it.                                    *)
(***************************************************************************)
EXTENDS Integers, Sequences, FiniteSets, Functions

CONSTANTS Inputs,      \* what link_elf is given: sequences of parsed files
          MapLength,   \* MAX_SYMBOL_MAP_LENGHT
          FileLength,  \* MAX_ELF_FILE_LENGTH
          InstSize,    \* sizeof(isnt_t)
          SlotSize,    \* MAX_INSTRUCTION_CHAR
          DataSize     \* sizeof(uint64_t)

ASSUME LinkAssumption == /\ MapLength \in Nat /\ FileLength \in Nat
                         /\ {InstSize, SlotSize, DataSize} \subseteq Nat \ {0}

\* The sections whose lines are merged.
Contents == {".text", ".rodata", ".data"}

Symbols == [name : STRING, bind : {"LOCAL", "GLOBAL", "WEAK"},
            type : {"NOTYPE", "OBJECT", "FUNC"},
            shndx : Contents \cup {".bss", "COMMON", "SHN_UNDEF"}, size : Nat, value : Nat]
Relocations == [row : Nat, type : STRING, sym : Nat]
Files == [symt : Seq(Symbols), sections : SUBSET STRING,
          reltext : Seq(Relocations), reldata : Seq(Relocations)]

\* A relocation of a section is for a symbol of its file, and stands within one.
Placed(file, rels, section) ==
  \A n \in DOMAIN rels :
    /\ rels[n].sym \in DOMAIN file.symt
    /\ \E j \in DOMAIN file.symt :
         LET sym == file.symt[j] IN
         /\ sym.shndx = section
         /\ sym.value <= rels[n].row /\ rels[n].row < sym.value + sym.size

\* What parse_elf makes of the files of a compiler: a section holds functions or
\* objects, of one line at least, and a local symbol is defined.  The symbols of a
\* section are in any order: gcc has the local ones first, wherever their lines are.
Compiled(file) ==
  /\ Placed(file, file.reltext, ".text") /\ Placed(file, file.reldata, ".data")
  /\ \A j \in DOMAIN file.symt :
       LET sym == file.symt[j] IN
       /\ sym.shndx = ".text" => sym.type = "FUNC"
       /\ sym.shndx \in {".rodata", ".data", ".bss", "COMMON"} => sym.type = "OBJECT"
       /\ sym.shndx \in Contents => sym.size # 0 /\ sym.shndx \in file.sections
       /\ sym.bind = "LOCAL" => sym.shndx \in Contents \cup {".bss"}

ASSUME InputAssumption ==
  /\ Inputs \subseteq Seq(Files)
  /\ \A files \in Inputs : \A i \in DOMAIN files : Compiled(files[i])

VARIABLES srcs,     \* per file: symt, the names of its sections, reltext, reldata
          smap,     \* smap_table: source symbol and index in symt, 0 if unset
          counts,   \* the first two lines of dst: line_count and sym_count
          sht,      \* dst->sht
          symt,     \* the entries of dst->symt written so far
          lines,    \* the lines of dst->buffer copied so far, by their index
          patches,  \* the relocations written into them
          todo,     \* what the loop in progress has still to visit
          pc        \* the phase, "done", or why the program has stopped

vars == <<srcs, smap, counts, sht, symt, lines, patches, todo, pc>>

\* The sections of dst in the order of its file.
Sections == <<".text", ".rodata", ".data", ".symtab">>

Sym(id) == srcs[id[1]].symt[id[2]]

Entries == DOMAIN smap

\* Where a loop that leaves at the first match stops.
Least(set) == CHOOSE x \in set : \A y \in set : x <= y

SymbolIds == UNION {{<<i, j>> : j \in DOMAIN srcs[i].symt} : i \in DOMAIN srcs}

Precedes(x, y) == \E n \in DOMAIN x : /\ x[n] < y[n]
                                     /\ \A m \in 1 .. n - 1 : x[m] = y[m]

\* Nested loops visit the tuples of their indices in lexicographic order.
Visits(x) == x \in todo /\ \A y \in todo \ {x} : Precedes(x, y)

Stop(reason) == pc' = reason /\ UNCHANGED <<srcs, smap, counts, sht, symt, lines,
                                            patches, todo>>

-----------------------------------------------------------------------------
(* symbol_processing                                                       *)

Init == /\ srcs \in Inputs
        /\ smap = <<>> /\ counts = <<>> /\ sht = <<>> /\ symt = <<>>
        /\ lines = <<>> /\ patches = {}
        /\ todo = SymbolIds /\ pc = "symbols"

\* symbol_precedence; -1 is where it gives up.
Precedence(sym) ==
  CASE sym.shndx = "SHN_UNDEF" /\ sym.type = "NOTYPE" -> 0
    [] sym.shndx = "COMMON" /\ sym.type = "OBJECT" -> 1
    [] sym.shndx = ".text" /\ sym.type = "FUNC" -> 2
    [] sym.shndx \in {".data", ".rodata", ".bss"} /\ sym.type = "OBJECT" -> 2
    [] OTHER -> -1

Processing(id) == pc = "symbols" /\ Visits(id)

Conflicts(id) == {k \in Entries : /\ Sym(smap[k].src).bind = "GLOBAL"
                                  /\ Sym(smap[k].src).name = Sym(id).name}

\* assert(*smap_count < MAX_SYMBOL_MAP_LENGHT)
HasRoom == Len(smap) < MapLength

InsertSymbol(id) ==
  /\ Processing(id)
  /\ \/ Sym(id).bind = "LOCAL"
     \/ Sym(id).bind = "GLOBAL" /\ Conflicts(id) = {}
  /\ IF HasRoom
     THEN /\ smap' = Append(smap, [src |-> id, dst |-> 0])
          /\ todo' = todo \ {id}
          /\ UNCHANGED <<srcs, counts, sht, symt, lines, patches, pc>>
     ELSE Stop("full")

MutBetter(new, old) == new >= 1

\* Rules 2 and 3 of simple_resolution.
Better(new, old) == new > old

MutClash(new, old) == new = 2 /\ old = 2 /\ new # old

\* Rule 1.
Clash(new, old) == new = 2 /\ old = 2

ResolveSymbol(id) ==
  /\ Processing(id) /\ Sym(id).bind = "GLOBAL" /\ Conflicts(id) # {}
  /\ LET k   == Least(Conflicts(id))
         new == Precedence(Sym(id))
         old == Precedence(Sym(smap[k].src))
     IN IF -1 \in {new, old} THEN Stop("unknown")
        ELSE IF Clash(new, old) THEN Stop("multiple")
        ELSE /\ smap' = IF Better(new, old) THEN [smap EXCEPT ![k].src = id] ELSE smap
             /\ todo' = todo \ {id}
             /\ UNCHANGED <<srcs, counts, sht, symt, lines, patches, pc>>

\* A weak symbol is neither inserted nor compared.
PassWeak(id) ==
  /\ Processing(id) /\ Sym(id).bind = "WEAK"
  /\ todo' = todo \ {id}
  /\ UNCHANGED <<srcs, smap, counts, sht, symt, lines, patches, pc>>

Chosen(id) == \E k \in Entries : smap[k].src = id

CleanedUp(id) == IF Chosen(id) /\ Sym(id).shndx = "COMMON"
                 THEN [Sym(id) EXCEPT !.shndx = ".bss", !.value = 0] ELSE Sym(id)

Unnamed(sym) == sym.name = "STT_NOTYPE"

\* The entries that one of the two assertions of the second loop fails for.
Unfit == {k \in Entries : Unnamed(Sym(smap[k].src)) \/ Sym(smap[k].src).type = "NOTYPE"}

\* The second loop: no name may be that of the type, no type may be left unknown;
\* COMMON becomes .bss.
CleanUp ==
  /\ pc = "symbols" /\ todo = {}
  /\ IF Unfit # {}
     THEN Stop(IF Unnamed(Sym(smap[Least(Unfit)].src)) THEN "unnamed" ELSE "unresolved")
     ELSE /\ srcs' = [i \in DOMAIN srcs |-> [srcs[i] EXCEPT !.symt =
                        [j \in DOMAIN srcs[i].symt |-> CleanedUp(<<i, j>>)]]]
          /\ pc' = "headers"
          /\ UNCHANGED <<smap, counts, sht, symt, lines, patches, todo>>

-----------------------------------------------------------------------------
(* compute_section_header                                                  *)

\* Lines of the chosen symbols of a section.
CountOf(section) ==
  SumFunctionOnSet([k \in Entries |-> Sym(smap[k].src).size],
                   {k \in Entries : Sym(smap[k].src).shndx = section})

\* The indices in Sections of those that dst has.
Present == {s \in DOMAIN Sections : Sections[s] = ".symtab" \/ CountOf(Sections[s]) # 0}

\* The size of .rodata is in bytes, the others in lines.
SizeOf(section) == IF section = ".symtab" THEN Len(smap)
                   ELSE IF section = ".rodata" THEN CountOf(section) * DataSize
                   ELSE CountOf(section)

TextBase == 4194304

AddrOf(section) ==
  CASE section = ".text"   -> TextBase
    [] section = ".rodata" -> TextBase + CountOf(".text") * SlotSize
    [] section = ".data"   -> TextBase + CountOf(".text") * SlotSize
                                       + CountOf(".rodata") * DataSize
    [] OTHER -> 0

MutLineCount == CountOf(".text") + CountOf(".data") + Len(smap) + 2 + Cardinality(Present)

LineCount == CountOf(".text") + CountOf(".data") + CountOf(".rodata")
               + Len(smap) + 2 + Cardinality(Present)

\* The header of .symtab is the one that is printed; nothing reads the offset
\* that dst->sht gets afterwards.
OffsetOf(s) ==
  2 + Cardinality(Present) + SumFunctionOnSet([t \in Present |-> SizeOf(Sections[t])],
                                              {t \in Present : t < s})

Headers == [s \in Present |-> [name |-> Sections[s], addr |-> AddrOf(Sections[s]),
                               offset |-> OffsetOf(s), size |-> SizeOf(Sections[s])]]

compute_section_header ==
  /\ pc = "headers"
  /\ counts' = <<LineCount, Len(smap)>>
  /\ sht' = Headers
  /\ todo' = {<<s, id[1], id[2]>> : s \in Present, id \in SymbolIds}
  /\ pc' = "merge"
  /\ UNCHANGED <<srcs, smap, symt, lines, patches>>

-----------------------------------------------------------------------------
(* merge_section                                                           *)

\* sym_section_offset and line_written
MutFilled(section) == SumFunction([d \in DOMAIN symt |-> symt[d].size])

Filled(section) ==
  SumFunctionOnSet([d \in DOMAIN symt |-> symt[d].size],
                   {d \in DOMAIN symt : symt[d].shndx = section})

Written == 2 + Cardinality(DOMAIN sht) + SumFunction([d \in DOMAIN symt |-> symt[d].size])

Merges(section, id) == /\ section \in srcs[id[1]].sections
                       /\ Sym(id).shndx = section
                       /\ Chosen(id)

CopyOf(section, id) ==
  [n \in Written .. Written + Sym(id).size - 1 |->
     <<id[1], section, Sym(id).value + n - Written>>]

Merging(s, id) == pc = "merge" /\ Visits(<<s, id[1], id[2]>>)

MergeSymbol(s, id) ==
  /\ Merging(s, id) /\ Merges(Sections[s], id)
  /\ LET new == CopyOf(Sections[s], id)
     IN IF DOMAIN new \subseteq 0 .. FileLength - 1
        THEN /\ lines' = [n \in DOMAIN lines \cup DOMAIN new |->
                            IF n \in DOMAIN new THEN new[n] ELSE lines[n]]
             /\ symt' = Append(symt, [Sym(id) EXCEPT !.value = Filled(Sections[s])])
             /\ smap' = [k \in Entries |-> IF smap[k].src = id
                           THEN [smap[k] EXCEPT !.dst = Len(symt) + 1] ELSE smap[k]]
             /\ todo' = todo \ {<<s, id[1], id[2]>>}
             /\ UNCHANGED <<srcs, counts, sht, patches, pc>>
        ELSE Stop("toolong")

PassUnmerged(s, id) ==
  /\ Merging(s, id) /\ ~Merges(Sections[s], id)
  /\ todo' = todo \ {<<s, id[1], id[2]>>}
  /\ UNCHANGED <<srcs, smap, counts, sht, symt, lines, patches, pc>>

\* The tables of relocations of a file: .rel.text first.
Tables(file) == <<file.reltext, file.reldata>>

RelocationIds ==
  UNION {{<<i, t, j>> : j \in DOMAIN Tables(srcs[i])[t]} : i \in DOMAIN srcs, t \in {1, 2}}

\* The table is printed with an entry for each pair of smap.  Nothing checks that
\* it fits: "overrun" is where the program writes behind the buffer, and "unset"
\* where it prints an entry that no section has given, which is uninitialised.
WriteSymtab ==
  /\ pc = "merge" /\ todo = {}
  /\ IF Written + Len(symt) > FileLength THEN Stop("overrun")
     ELSE IF Len(symt) < Len(smap) THEN Stop("unset")
     ELSE IF Written + Len(smap) # counts[1] THEN Stop("miscounted")
     ELSE /\ pc' = "relocate" /\ todo' = RelocationIds
          /\ UNCHANGED <<srcs, smap, counts, sht, symt, lines, patches>>

-----------------------------------------------------------------------------
(* relocation_processing                                                   *)

Rel(r) == Tables(srcs[r[1]])[r[2]][r[3]]

SectionOf(r) == IF r[2] = 1 THEN ".text" ELSE ".data"

HeaderOf(section) == sht[CHOOSE s \in DOMAIN sht : sht[s].name = section]

MutCovers(r, sym) == sym.value <= Rel(r).row /\ Rel(r).row < sym.value + sym.size - 1

\* The end is inclusive: the last line in .text, one past it in .data.  With
\* size and value 0 the end in .text is -1, compared as unsigned.
Covers(r, sym) ==
  LET end == sym.value + sym.size
  IN  /\ sym.value <= Rel(r).row
      /\ \/ Rel(r).row < end
         \/ r[2] = 1 /\ end = 0
         \/ r[2] = 2 /\ Rel(r).row = end

\* The symbols of the file that may hold the line to be patched.
Referencing(r) ==
  {j \in DOMAIN srcs[r[1]].symt :
     LET sym == srcs[r[1]].symt[j] IN sym.shndx = SectionOf(r) /\ Covers(r, sym)}

ReferencedName(r) == srcs[r[1]].symt[Rel(r).sym].name

Targets(r) == {u \in Entries : /\ symt[smap[u].dst].name = ReferencedName(r)
                               /\ symt[smap[u].dst].bind = "GLOBAL"}

DstOf(id) == smap[CHOOSE k \in Entries : smap[k].src = id].dst

\* get_sym_runtime_address
SizeIn(section) ==
  SumFunctionOnSet([s \in DOMAIN sht |-> sht[s].size],
                   {s \in DOMAIN sht : sht[s].name = section})

MutRuntimeAddress(sym) ==
  TextBase + IF sym.shndx = ".text" THEN InstSize * sym.value
             ELSE SizeIn(".text") * InstSize + DataSize * sym.value

RuntimeAddress(sym) ==
  LET rodata == TextBase + SizeIn(".text") * InstSize
  IN CASE sym.shndx = ".text"   -> TextBase + InstSize * sym.value
       [] sym.shndx = ".rodata" -> rodata + DataSize * sym.value
       [] sym.shndx = ".data"   -> rodata + SizeIn(".rodata") * DataSize
                                     + DataSize * sym.value

MutRowIn(r, id) == Rel(r).row + symt[DstOf(id)].value

\* The row of the patched line in the section of dst.
RowIn(r, id) == Rel(r).row - Sym(id).value + symt[DstOf(id)].value

\* The handlers of the relocation types.
Patch(r, row, target) ==
  [rel |-> r, line |-> HeaderOf(SectionOf(r)).offset + row, target |-> target,
   value |-> RuntimeAddress(symt[target])
               - IF Rel(r).type = "32" THEN 0 ELSE TextBase + (row + 1) * InstSize]

Relocating(r) == pc = "relocate" /\ Visits(r)

\* The first symbol that covers the line decides, if the name has a target.  No
\* handler checks the line: "astray" is where it writes behind the buffer.
Relocate(r) ==
  /\ Relocating(r) /\ Referencing(r) # {} /\ Targets(r) # {}
  /\ LET id    == <<r[1], Least(Referencing(r))>>
         patch == Patch(r, RowIn(r, id), smap[Least(Targets(r))].dst)
     IN IF ~Chosen(id) THEN Stop("unmapped")
        ELSE IF Rel(r).type # "32" /\ SectionOf(r) # ".text" THEN Stop("nottext")
        ELSE IF patch.line >= FileLength THEN Stop("astray")
        ELSE /\ patches' = patches \cup {patch}
             /\ todo' = todo \ {r}
             /\ UNCHANGED <<srcs, smap, counts, sht, symt, lines, pc>>

\* Without a target every symbol that covers the line is visited in vain.
PassRelocation(r) ==
  /\ Relocating(r) /\ (Referencing(r) = {} \/ Targets(r) = {})
  /\ IF \E j \in Referencing(r) : ~Chosen(<<r[1], j>>) THEN Stop("unmapped")
     ELSE /\ todo' = todo \ {r}
          /\ UNCHANGED <<srcs, smap, counts, sht, symt, lines, patches, pc>>

Finish == /\ pc = "relocate" /\ todo = {}
          /\ Stop("done")

Next == \/ \E id \in SymbolIds : InsertSymbol(id) \/ ResolveSymbol(id) \/ PassWeak(id)
        \/ CleanUp
        \/ compute_section_header
        \/ \E s \in DOMAIN Sections, id \in SymbolIds : MergeSymbol(s, id) \/ PassUnmerged(s, id)
        \/ WriteSymtab
        \/ \E r \in RelocationIds : Relocate(r) \/ PassRelocation(r)
        \/ Finish

Spec == Init /\ [][Next]_vars

-----------------------------------------------------------------------------
(* Properties                                                              *)

Seen == SymbolIds \ todo

GlobalNamed(ids, name) == {id \in ids : /\ Sym(id).bind = "GLOBAL"
                                         /\ Sym(id).name = name}

\* While the files are read: every local symbol has an entry of its own, every
\* global name has exactly one, and no global symbol of that name read so far has
\* a higher precedence than its own ("Among strong symbols and weak symbols,
\* choose the strong symbol", staticlink.c:7), in whatever order they came.
ResolvedSoFar ==
  pc = "symbols" =>
    /\ \A k, l \in Entries : k # l => smap[k].src # smap[l].src
    /\ {smap[k].src : k \in Entries} \subseteq {id \in Seen : Sym(id).bind # "WEAK"}
    /\ \A id \in Seen :
         /\ Sym(id).bind = "LOCAL" => Chosen(id)
         /\ Sym(id).bind = "GLOBAL" =>
              \E k \in Entries :
                /\ {l \in Entries : smap[l].src \in GlobalNamed(Seen, Sym(id).name)} = {k}
                /\ Precedence(Sym(smap[k].src)) >= Precedence(Sym(id))

Strong(id) == Sym(id).bind = "GLOBAL" /\ Precedence(Sym(id)) = 2

\* The lines that are copied, and with the headers and the table those of the file.
CopiedLines == CountOf(".text") + CountOf(".rodata") + CountOf(".data")
FileLines == 2 + Cardinality(DOMAIN sht) + CopiedLines + Len(smap)

\* By how much the section header of dst points behind the lines of its section:
\* the offset of .data counts .rodata in bytes (staticlink.c:403, 411).
Surplus(section) == IF section = ".data" THEN CountOf(".rodata") * (DataSize - 1) ELSE 0

\* Each way in which a link ends early has its cause in the files.  The program
\* gives up for two strong symbols of a name ("No multiple strong symbols with the
\* same name are allowed", staticlink.c:6), for a symbol to be resolved that is of
\* no known kind, for more local symbols and global names than the map has room
\* for, for a name that nothing defines or that is reserved, for more lines to be
\* copied than the buffer has, for a relocation in a weak symbol and for a
\* PC-relative one of data; never for line_written == line_count
\* (staticlink.c:570).  It does not notice an entry of the table that no section
\* has given ("unset"), a table that does not fit behind the lines ("overrun",
\* staticlink.c:566), or a patch that the offset of .data leads out of a buffer in
\* which the file does fit ("astray", staticlink.c:290).
StopsForCause ==
  /\ pc = "multiple" =>
       \E a, b \in SymbolIds : a # b /\ Strong(a) /\ Strong(b) /\ Sym(a).name = Sym(b).name
  /\ pc = "unknown" =>
       \E a, b \in SymbolIds : /\ a # b /\ Sym(a).bind = "GLOBAL" /\ Sym(b).bind = "GLOBAL"
                               /\ Sym(a).name = Sym(b).name /\ Precedence(Sym(a)) = -1
  /\ pc = "full" =>
       Cardinality({a \in SymbolIds : Sym(a).bind = "LOCAL"})
         + Cardinality({Sym(a).name : a \in {b \in SymbolIds : Sym(b).bind = "GLOBAL"}})
       > MapLength
  /\ pc = "unresolved" =>
       \E a \in SymbolIds : /\ Sym(a).bind = "GLOBAL"
                      /\ \A b \in GlobalNamed(SymbolIds, Sym(a).name) : Precedence(Sym(b)) < 1
  /\ pc = "unnamed" => \E a \in SymbolIds : Unnamed(Sym(a)) /\ Sym(a).bind # "WEAK"
  /\ pc = "toolong" => 2 + Cardinality(DOMAIN sht) + CopiedLines > FileLength
  /\ pc = "unset" => \E k \in Entries : Sym(smap[k].src).shndx \notin Contents
  /\ pc = "overrun" => FileLines > FileLength
  /\ pc = "unmapped" => \E a \in SymbolIds : Sym(a).bind = "WEAK"
  /\ pc = "nottext" => \E i \in DOMAIN srcs : \E j \in DOMAIN srcs[i].reldata :
                          srcs[i].reldata[j].type # "32"
  /\ pc = "astray" => /\ FileLines <= FileLength /\ FileLength < FileLines + Surplus(".data")
                      /\ \E i \in DOMAIN srcs : srcs[i].reldata # <<>>
  /\ Len(smap) <= MapLength /\ DOMAIN lines \subseteq 0 .. FileLength - 1
  /\ pc # "miscounted"

\* A link that succeeds has exactly one strong symbol for every global name.
DoneMeansDefined ==
  pc = "done" =>
    \A id \in SymbolIds : Sym(id).bind = "GLOBAL" =>
      \E k \in Entries : GlobalNamed({smap[k].src}, Sym(id).name) = {smap[k].src}
                         /\ {x \in GlobalNamed(SymbolIds, Sym(id).name) : Strong(x)}
                              = {smap[k].src}

\* Every symbol of the linked file has the lines of the source symbol that was
\* chosen, where the header of its section and its value say, in .data less the
\* bytes of .rodata that its offset counts as lines.
SymbolsLocate ==
  pc \in {"relocate", "done"} =>
    \A k \in Entries :
      LET sym == symt[smap[k].dst]
          src == Sym(smap[k].src)
      IN  /\ sym = [src EXCEPT !.value = sym.value]
          /\ \A l \in 0 .. sym.size - 1 :
               LET n == HeaderOf(sym.shndx).offset - Surplus(sym.shndx) + sym.value + l IN
               n \in DOMAIN lines
                 /\ lines[n] = <<smap[k].src[1], src.shndx, src.value + l>>

\* The symbols of the section that the merge puts behind the one a relocation is
\* attributed to: the later ones in the table of its file.
Behind(r) == {j \in DOMAIN srcs[r[1]].symt : /\ j > Least(Referencing(r))
                                             /\ srcs[r[1]].symt[j].shndx = SectionOf(r)
                                             /\ Chosen(<<r[1], j>>)}

\* The relocation stands in the symbol it is attributed to; or on the line behind
\* it, with which the next symbol that is merged begins (staticlink.c:200).
Attributable(r) ==
  LET sym == srcs[r[1]].symt[Least(Referencing(r))] IN
  \/ Rel(r).row < sym.value + sym.size
  \/ Behind(r) # {} /\ srcs[r[1]].symt[Least(Behind(r))].value = Rel(r).row

\* A relocation patches the copy of the line it is about, wherever the merge has
\* put it, for the symbol that was chosen for its name, in whichever file, as far
\* behind that copy as the header of .data points behind its lines.  Where the test
\* of .data attributes it to a symbol that ends on the line before, it does so if
\* and only if the two symbols are merged one behind the other: in the order of a
\* compiler that has the local symbols first the patch is lost to another line.
RelocationsLand ==
  \A p \in patches :
    LET n == p.line - Surplus(SectionOf(p.rel)) IN
    /\ Attributable(p.rel) <=>
         n \in DOMAIN lines /\ lines[n] = <<p.rel[1], SectionOf(p.rel), Rel(p.rel).row>>
    /\ \E k \in Entries : /\ smap[k].dst = p.target
                          /\ Sym(smap[k].src).name = ReferencedName(p.rel)
                          /\ Sym(smap[k].src).bind = "GLOBAL"

Extent(sym) == sym.size * IF sym.shndx = ".text" THEN InstSize ELSE DataSize

\* The addresses that the relocations use keep the symbols of dst apart: none begins
\* within another, also of another section.  They are those of
\* get_sym_runtime_address, with sizeof(isnt_t) per instruction (staticlink.c:249);
\* the section headers have MAX_INSTRUCTION_CHAR (352), and so has the rip of the
\* processor (isa.c:596): the property does not say that it gets there.
AddressesApart ==
  pc \in {"relocate", "done"} =>
    \A u, v \in DOMAIN symt :
      LET start == RuntimeAddress(symt[u])
          other == RuntimeAddress(symt[v])
      IN  u # v => ~(start <= other /\ other < start + Extent(symt[u]))

\* A link that succeeds leaves no relocation of a global name out.
RelocationsComplete ==
  pc = "done" =>
    \A r \in RelocationIds :
      srcs[r[1]].symt[Rel(r).sym].bind = "GLOBAL"
        => \E p \in patches : p.rel = r
=============================================================================
