------------------------------ MODULE DynArray ------------------------------
(***************************************************************************)
(* The growing array of src/src/algorithm/Dynamic_array.c, as its user     *)
(* cleanup.c needs it.  table has size cells, of which the first count     *)
(* hold what was inserted; the others hold Unset.                          *)
(***************************************************************************)
EXTENDS Naturals

Unset == "unset"

array_construct(size) ==
  [size |-> size, count |-> 0, table |-> [k \in 0..size - 1 |-> Unset]]

\* A faulty variant: an insert that has copied the table does not count.
MutInsert(arr, val) ==
  LET size == IF arr.count = arr.size THEN 2 * arr.size ELSE arr.size IN
  [size |-> size, count |-> IF size = arr.size THEN arr.count + 1 ELSE arr.count,
   table |-> [k \in 0..size - 1 |->
                IF k = arr.count THEN val ELSE IF k < arr.count THEN arr.table[k] ELSE Unset]]

\* A full array is copied into one of twice the size.
array_insert(arr, val) ==
  LET size == IF arr.count = arr.size THEN 2 * arr.size ELSE arr.size IN
  [size |-> size, count |-> arr.count + 1,
   table |-> [k \in 0..size - 1 |->
                IF k = arr.count THEN val ELSE IF k < arr.count THEN arr.table[k] ELSE Unset]]

\* The index behind the last element is accepted, and reads a cell that nothing
\* has set, or behind the table if the array is full.
array_get(arr, index) ==
  IF index > arr.count THEN [ret |-> 0, val |-> Unset]
  ELSE [ret |-> 1, val |-> IF index < arr.size THEN arr.table[index] ELSE Unset]
=============================================================================
