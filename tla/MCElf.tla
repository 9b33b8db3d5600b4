------------------------------- MODULE MCElf -------------------------------
(***************************************************************************)
(* Files for ElfTool: with and without relocations, and with each of the   *)
(* faults that parse_elf checks for.  No file has fewer lines than its     *)
(* headers refer to: parse_elf would read what its buffer held before.     *)
(***************************************************************************)
EXTENDS ElfTool

Num(v) == [kind |-> "number", value |-> v]
Sec(name, offset, size) == [kind |-> "section", name |-> name, offset |-> offset, size |-> size]
Sym(known) == [kind |-> "symbol", known |-> known]
Rel(s, known) == [kind |-> "relocation", sym |-> s, known |-> known]
Other == [kind |-> "other"]

\* Two symbols; relocations of them in each of the sections that is there.
File(text, data) ==
  LET sections == 1 + Len(text) + Len(data)
      headers == <<Sec(".symtab", 2 + sections, 2)>>
                   \o [r \in DOMAIN text |-> Sec(".rel.text", 4 + sections, 1)]
                   \o [r \in DOMAIN data |-> Sec(".rel.data", 4 + sections + Len(text), 1)]
      content == headers \o <<Sym(TRUE), Sym(TRUE)>> \o text \o data
  IN  <<Num(2 + Len(content)), Num(sections)>> \o content

Good == {File(text, data) : text \in {<<>>, <<Rel(0, TRUE)>>}, data \in {<<>>, <<Rel(1, TRUE)>>}}

Bad ==
  {File(<<Rel(2, TRUE)>>, <<>>), File(<<>>, <<Rel(0, FALSE)>>), File(<<Other>>, <<>>),
   <<Num(3), Num(1)>>,
   <<Num(2), Other>>,
   <<Num(3), Num(1), Sec(".text", 3, 0)>>,
   <<Num(4), Num(2), Sec(".symtab", 4, 0), Other>>,
   <<Num(4), Num(1), Sec(".symtab", 3, 1), Sym(FALSE)>>}

MCFiles == Good \cup Bad

MCBlocks == Elfs \X TableNames
=============================================================================
