------------------------------- MODULE MCLink -------------------------------
(***************************************************************************)
(* Small links for StaticLink: the files that a compiler makes of a        *)
(* function f, an object d and a local object s, each defined in one of    *)
(* several ways, tentative, undefined or absent, and with or without       *)
(* relocations.                                                            *)
(***************************************************************************)
EXTENDS StaticLink, FiniteSetsExt, TLC

\* What a symbol may be in a file.
Kind(name, bind, type, shndx, size) ==
  [name |-> name, bind |-> bind, type |-> type, shndx |-> shndx, size |-> size]

Undef(name) == Kind(name, "GLOBAL", "NOTYPE", "SHN_UNDEF", 0)

FunctionKinds == {Kind("f", "GLOBAL", "FUNC", ".text", 2),
                  Kind("f", "LOCAL", "FUNC", ".text", 5),
                  Kind("f", "WEAK", "FUNC", ".text", 2),
                  Undef("f")}

ObjectKinds == {Kind("d", "GLOBAL", "OBJECT", ".data", 2),
                Kind("d", "GLOBAL", "OBJECT", ".rodata", 1),
                Kind("d", "GLOBAL", "OBJECT", "COMMON", 1),
                Undef("d")}

OddObject == Kind("d", "GLOBAL", "OBJECT", "SHN_UNDEF", 0)

StaticObject == Kind("s", "LOCAL", "OBJECT", ".data", 1)

WeakObject == Kind("w", "WEAK", "OBJECT", ".data", 1)

OtherStatic == Kind("t", "LOCAL", "OBJECT", ".data", 1)

\* Its name is the one that is not allowed.
Reserved == Kind("STT_NOTYPE", "GLOBAL", "OBJECT", ".data", 1)

\* The lines of the symbols follow each other by rank.
Laid(kinds, rank) ==
  [j \in DOMAIN kinds |->
     kinds[j] @@ [value |-> MapThenSumSet(LAMBDA i : kinds[i].size,
                              {i \in DOMAIN kinds : /\ rank[i] < rank[j]
                                                    /\ kinds[i].shndx = kinds[j].shndx})]]

Length(kinds, section) ==
  MapThenSumSet(LAMBDA i : kinds[i].size, {i \in DOMAIN kinds : kinds[i].shndx = section})

\* One relocation per line of the section, which refer to the symbols in turn.
LineRelocations(kinds, section, type) ==
  [n \in 1 .. Length(kinds, section) |->
     [row |-> n - 1, type |-> type, sym |-> ((n - 1) % Len(kinds)) + 1]]

Compile(kinds, rank, texttype, datatype) ==
  [symt |-> Laid(kinds, rank),
   sections |-> {s \in Contents : Length(kinds, s) > 0} \cup {".symtab"},
   reltext |-> IF texttype = "none" THEN <<>> ELSE LineRelocations(kinds, ".text", texttype),
   reldata |-> IF datatype = "none" THEN <<>> ELSE LineRelocations(kinds, ".data", datatype)]

\* With the symbols in the order of their lines.
File(kinds, texttype, datatype) ==
  Compile(kinds, [j \in DOMAIN kinds |-> j], texttype, datatype)

Relocated == {<<"none", "none">>, <<"PC32", "32">>, <<"32", "none">>, <<"none", "PC32">>}

FilesOf(tables) == {File(t, r[1], r[2]) : t \in tables, r \in Relocated}

Pairs == {<<f, d>> : f \in FunctionKinds, d \in ObjectKinds}

\* The object may come first, with or without a static one on either side of it.
Orders == {<<p[1], p[2]>> : p \in Pairs} \cup {<<p[2], StaticObject, p[1]>> : p \in Pairs}
          \cup {<<StaticObject, p[2], p[1]>> : p \in Pairs}

Plain == FilesOf({<<p[2], p[1]>> : p \in Pairs} \cup {<<x>> : x \in FunctionKinds \cup ObjectKinds})

\* The local symbols come first in the table, with their lines anywhere.
LocalsFirst == {Compile(<<StaticObject, OtherStatic, x>>, rank, "none", "32") :
                  x \in ObjectKinds, rank \in Permutations(1 .. 3)}

\* Two files with everything, three that differ in what the object is, one with a
\* weak object behind others, one or two with local objects, and names that
\* CleanUp refuses.
MCInputs ==
  {<<a, b>> : a \in FilesOf(Orders), b \in Plain}
  \cup {<<File(<<x>>, "none", "none"), File(<<y>>, "none", "none"),
          File(<<z>>, "none", "none")>> :
          x, y, z \in ObjectKinds \cup {OddObject}}
  \cup {<<File(<<x, StaticObject, WeakObject>>, "none", "32")>> : x \in ObjectKinds}
  \cup {<<a>> : a \in LocalsFirst}
  \cup {<<a, File(<<x>>, "none", "none")>> : a \in LocalsFirst, x \in ObjectKinds}
  \cup {<<File(t, "none", "none")>> : t \in {<<Reserved, Undef("d")>>, <<Undef("d"), Reserved>>}}
=============================================================================
