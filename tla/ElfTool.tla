------------------------------ MODULE ElfTool ------------------------------
(***************************************************************************)
(* A program that links: the main of src/src/tests/test_elf.c with the     *)
(* functions of src/src/linker/parseELF.c it calls, the tagged allocator   *)
(* (TagAlloc, turn by turn) that holds the tables, the dictionary of       *)
(* constants that parse_elf and write_eof share, and the cleanup events of *)
(* src/src/common/cleanup.c with the array they are kept in.  The program  *)
(* may also execute instructions, as the main of test_headware.c does,     *)
(* which builds the tries of isa.c and registers their cleanup.            *)
(***************************************************************************)
EXTENDS TagAlloc, DynArray, FiniteSets

CONSTANTS Files,        \* what a source file may hold: the lines that read_elf keeps
          MaxSources,   \* bound on the files that are linked
          EventSlots    \* what cleanup_events has room for at first: 10 in the code

Tables == <<"sht", "symt", "reltext", "reldata">>
TableNames == {"sht", "symt", "reltext", "reldata"}
Dst == 0                        \* the number of the linked elf
Elfs == 0..MaxSources

\* What cleanup_events may hold: it has grown once at most.
Funcs == {"tag_destroy", "trie_cleanup"}
Arrays == UNION {[size : {size}, count : 0..size, table : [0..size - 1 -> Funcs \cup {Unset}]] :
                   size \in 1..2 * EventSlots}

\* Each table is a block.  compute_tag tells "parse_elf", "dst->sht" and
\* "dst->symt" from "parse_table_entry".
ASSUME ElfAssumption ==
  /\ MaxSources \in Nat \ {0} /\ EventSlots \in Nat \ {0}
  /\ Blocks = Elfs \X TableNames
  /\ Tags \cap SweepTags = {}
  /\ Null \notin Blocks /\ Null \notin Arrays
  /\ None \notin {"free", "sweep", "destroy"}

VARIABLES pc,          \* where main or parse_elf is
          n,           \* the number of sources
          k,           \* the source, or the elf that free_elf is called with
          lines,       \* elf->buffer of the source being parsed, from 1 on
          elf,         \* per elf the table pointers: "unset", "null" or "set"
          symbols,     \* per elf sym_count
          released,    \* per elf: has free_elf returned? (ghost)
          t,           \* which table free_elf is at
          dict,        \* link_constant_dict: "null", "live" or "freed"
          tries,       \* the tries of isa.c
          events, e,   \* cleanup_events, the array or Null, and the event that is next
          misused      \* has the dictionary, a trie or an event been used when it was gone?

file_vars == <<n, k, lines, elf, symbols>>
shared_vars == <<dict, tries, events, e, misused>>
vars == <<tag_vars, file_vars, shared_vars, pc, released, t>>

BlockOf(f, table) == <<f, table>>
Ready(where) == Idle /\ ~misused /\ pc = where

-----------------------------------------------------------------------------
Init ==
  /\ TagInit
  /\ pc = "read" /\ n \in 1..MaxSources /\ k = 1 /\ lines = <<>>
  /\ elf = [f \in Elfs |-> [table \in TableNames |-> "unset"]]
  /\ symbols = [f \in Elfs |-> 0]
  /\ released = [f \in Elfs |-> FALSE] /\ t = 1
  /\ dict = "null" /\ tries = "null" /\ events = Null /\ e = 0 /\ misused = FALSE

\* An assertion fails or a function calls exit.
Stopped == pc' = "stopped" /\ UNCHANGED <<tag_vars, file_vars, shared_vars, released, t>>

\* The array is made for the first event.
add_cleanup_event(func) ==
  events' = array_insert(IF events = Null THEN array_construct(EventSlots) ELSE events, func)

-----------------------------------------------------------------------------
(* parse_elf                                                               *)

\* Lines are records with a kind: "number", "section", "symbol" (six columns,
\* known if its constants are in the dictionary), "relocation" (five) or "other".
Line(index) == lines[index + 1]
IsA(index, kind) == index < Len(lines) /\ Line(index).kind = kind

\* read_elf: the file must have the number of lines that its first line says.
\* init_constant_dict builds the dictionary unless there is one.
ReadElf(file) ==
  /\ Ready("read") /\ k <= n
  /\ IF file # <<>> /\ file[1] = [kind |-> "number", value |-> Len(file)]
     THEN /\ lines' = file
          /\ dict' = IF dict = "null" THEN "live" ELSE dict
          /\ pc' = "sht"
          /\ UNCHANGED <<tag_vars, n, k, elf, symbols, tries, events, e, misused,
                         released, t>>
     ELSE Stopped

\* The table is allocated, and with the first one of all the cleanup registered.
Allocate(f, table) ==
  /\ tag_malloc(BlockOf(f, table))
  /\ elf' = [elf EXCEPT ![f][table] = "set"]
  /\ IF created THEN UNCHANGED events ELSE add_cleanup_event("tag_destroy")
  /\ UNCHANGED <<n, k, lines, symbols, dict, tries, e, misused, released, t>>

MallocSht ==
  /\ Ready("sht")
  /\ IF IsA(1, "number") THEN Allocate(k, "sht") /\ pc' = "sections" ELSE Stopped

SectionIndices == 2..Line(1).value + 1

\* The last section of a name counts.
Named(name) == {s \in SectionIndices : Line(s).name = name}
Header(name) == Line(CHOOSE s \in Named(name) : \A r \in Named(name) : r <= s)
Rows(name) == LET h == Header(name) IN h.offset..h.offset + h.size - 1

\* parse_sh asserts four columns; there must be a .symtab.
ParseSections ==
  /\ Ready("sections")
  /\ IF (\A s \in SectionIndices : IsA(s, "section")) /\ Named(".symtab") # {}
     THEN pc' = "symt" /\ UNCHANGED <<tag_vars, file_vars, shared_vars, released, t>>
     ELSE Stopped

MallocSymt == Ready("symt") /\ Allocate(k, "symt") /\ pc' = "symbols"

\* Looking a constant up in a dictionary that has been freed is undefined.
LooksUp == misused' = (dict = "freed")

\* parse_symtab asserts six columns and exits on a constant that is not in the
\* dictionary.
ParseSymbols ==
  /\ Ready("symbols")
  /\ IF \A r \in Rows(".symtab") : IsA(r, "symbol") /\ Line(r).known
     THEN /\ symbols' = [symbols EXCEPT ![k] = Header(".symtab").size]
          /\ LooksUp /\ pc' = "reltext"
          /\ UNCHANGED <<tag_vars, n, k, lines, elf, dict, tries, events, e,
                         released, t>>
     ELSE Stopped

SectionName == [reltext |-> ".rel.text", reldata |-> ".rel.data"]

\* The relocation table is allocated if the file has the section.
MallocRel(table, parse, skip) ==
  /\ Ready(table)
  /\ IF Named(SectionName[table]) # {} THEN Allocate(k, table) /\ pc' = parse
     ELSE /\ elf' = [elf EXCEPT ![k][table] = "null"] /\ pc' = skip
          /\ UNCHANGED <<tag_vars, n, k, lines, symbols, shared_vars, released, t>>

\* parse_reloution asserts five columns, and parse_elf a symbol of the table.
RelocationOK(r) == IsA(r, "relocation") /\ Line(r).known /\ Line(r).sym < symbols[k]

ParseRelocations(table, parse, next) ==
  LET rows == Rows(SectionName[table]) IN
  /\ Ready(parse)
  /\ IF \A r \in rows : RelocationOK(r)
     THEN /\ misused' = (dict = "freed" /\ rows # {})
          /\ pc' = next
          /\ UNCHANGED <<tag_vars, n, k, lines, elf, symbols, dict, tries, events, e,
                         released, t>>
     ELSE Stopped

ParseReltext == MallocRel("reltext", "reltext_rows", "reldata")
             \/ ParseRelocations("reltext", "reltext_rows", "reldata")
ParseReldata == MallocRel("reldata", "reldata_rows", "sweep")
             \/ ParseRelocations("reldata", "reldata_rows", "sweep")

\* The file has been parsed when the sweep returns.
Sweep ==
  /\ Ready("sweep")
  /\ \E tags \in SweepTags : tag_sweep(tags)
  /\ pc' = "read" /\ k' = k + 1 /\ lines' = <<>>
  /\ UNCHANGED <<n, elf, symbols, shared_vars, released, t>>

-----------------------------------------------------------------------------
(* link_elf, write_eof, free_elf                                           *)

\* link_elf resets the destination; it may give up (see StaticLink).
LinkBegins ==
  /\ Ready("read") /\ k > n
  /\ \/ Stopped
     \/ /\ elf' = [elf EXCEPT ![Dst] = [table \in TableNames |-> "null"]]
        /\ pc' = "dst_symt"
        /\ UNCHANGED <<tag_vars, n, k, lines, symbols, shared_vars, released, t>>

LinkSymt == Ready("dst_symt") /\ Allocate(Dst, "symt") /\ pc' = "dst_sht"
LinkSht == Ready("dst_sht") /\ Allocate(Dst, "sht") /\ pc' = "merge"

\* Merging and relocating may give up, too; then main goes on to write_eof,
\* which frees the dictionary but does not reset the pointer.
WriteEof ==
  /\ Ready("merge")
  /\ \/ Stopped
     \/ /\ dict # "null"
        /\ dict' = "freed" /\ misused' = (dict = "freed")
        /\ pc' = "free" /\ k' = 1 /\ t' = 1
        /\ UNCHANGED <<tag_vars, n, lines, elf, symbols, tries, events, e, released>>

\* free_elf of the sources in turn and of the destination: four calls of tag_free.
FreeTable ==
  /\ Ready("free")
  /\ tag_free(IF elf[k][Tables[t]] = "set" THEN BlockOf(k, Tables[t]) ELSE Null)
  /\ t' = t + 1 /\ pc' = "freeing"
  /\ UNCHANGED <<file_vars, shared_vars, released>>

FreeElfReturns ==
  /\ Ready("freeing") /\ t = 5
  /\ released' = [released EXCEPT ![k] = TRUE]
  /\ t' = 1
  /\ k' = IF k = n THEN Dst ELSE k + 1
  /\ pc' = IF k = Dst THEN "cleanup" ELSE "free"
  /\ UNCHANGED <<tag_vars, n, lines, elf, symbols, shared_vars>>

FreeNext ==
  /\ Ready("freeing") /\ t < 5
  /\ pc' = "free"
  /\ UNCHANGED <<tag_vars, file_vars, shared_vars, released, t>>

-----------------------------------------------------------------------------
(* Instructions and the end of the program                                 *)

\* The first instruction builds the tries and registers their cleanup.
InstructionCycle ==
  /\ \E where \in {"read", "merge", "free", "cleanup"} : Ready(where)
  /\ e = 0 /\ tries = "null"
  /\ tries' = "live" /\ add_cleanup_event("trie_cleanup")
  /\ UNCHANGED <<tag_vars, file_vars, dict, e, misused, pc, released, t>>

\* The main of test_headware.c, which links nothing.
OnlyInstructions ==
  /\ Ready("read") /\ k = 1 /\ tries = "live"
  /\ pc' = "cleanup"
  /\ UNCHANGED <<tag_vars, file_vars, shared_vars, released, t>>

\* finally_cleanup calls the events in the order of their registration.
RunEvent ==
  /\ Ready("cleanup") /\ events # Null /\ e < events.count
  /\ e' = e + 1
  /\ LET func == array_get(events, e) IN
     CASE func.ret = 1 /\ func.val = "tag_destroy" ->
            tag_destroy /\ UNCHANGED <<tries, misused>>
       [] func.ret = 1 /\ func.val = "trie_cleanup" ->
            /\ misused' = (tries = "freed") /\ tries' = "freed"
            /\ UNCHANGED tag_vars
       [] OTHER -> misused' = TRUE /\ UNCHANGED <<tag_vars, tries>>
  /\ UNCHANGED <<file_vars, dict, events, pc, released, t>>

\* Without any event the array does not exist.
CleanupReturns ==
  /\ Ready("cleanup") /\ (events = Null \/ e = events.count)
  /\ misused' = (events = Null)
  /\ events' = Null /\ e' = 0 /\ pc' = "done"
  /\ UNCHANGED <<tag_vars, file_vars, dict, tries, released, t>>

TagTurn == Turn /\ UNCHANGED <<file_vars, shared_vars, pc, released, t>>

Next ==
  \/ \E file \in Files : ReadElf(file)
  \/ MallocSht \/ ParseSections \/ MallocSymt \/ ParseSymbols \/ ParseReltext \/ ParseReldata
  \/ Sweep \/ LinkBegins \/ LinkSymt \/ LinkSht \/ WriteEof
  \/ FreeTable \/ FreeNext \/ FreeElfReturns
  \/ InstructionCycle \/ OnlyInstructions \/ RunEvent \/ CleanupReturns
  \/ TagTurn

\* One thread, with nothing to wait for.
Spec == Init /\ [][Next]_vars /\ WF_vars(Next)

-----------------------------------------------------------------------------
(* Properties                                                              *)

\* No block of the tagged allocator, no dictionary, trie or array of events is
\* used or freed when it is gone already.  (link_constant_dict and the roots of
\* the tries keep pointing to what has been freed; it is the order of the calls
\* in the programs that saves them.)
NothingDangling == ~undefined /\ ~misused

Sources == 1..n

\* The tables of a source file last until free_elf of that file and end with
\* it, whatever the tables of the other files are: each search of tag_free
\* finds its block, although it goes through a list that all share and turn.
TablesLiveUntilFreed ==
  call = None =>
    \A f \in Sources : \A table \in TableNames :
      /\ elf[f][table] = "set" /\ ~released[f] /\ ~(k = f /\ pc \in {"free", "freeing"}) =>
           block[BlockOf(f, table)] = "live" /\ BlockOf(f, table) \in ToSet(list)
      /\ elf[f][table] = "set" /\ released[f] => block[BlockOf(f, table)] = "freed"

\* A program that ends has freed all it allocated, each thing once.
NothingLeaks ==
  pc = "done" =>
    /\ \A b \in Blocks : block[b] # "live"
    /\ list = <<>> /\ ~created
    /\ dict # "live" /\ tries # "live" /\ events = Null

\* The program ends, or stops for an error: the loops of the allocator go around
\* a ring that has no end, and count with the length of a list that changes under
\* them, and a search for a table that is not there visits all of it.
ProgramEnds == <>(pc \in {"done", "stopped"})
=============================================================================
