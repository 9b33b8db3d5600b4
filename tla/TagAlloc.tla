------------------------------ MODULE TagAlloc ------------------------------
(***************************************************************************)
(* The tagged allocator of src/src/common/tagmalloc.c over the circular    *)
(* list of linkedlist.c, which is used here as the Ring it implements.     *)
(* A list node, its block and the memory of the block are one thing here:  *)
(* they are made together, and only tag_sweep frees the one and leaves the *)
(* other.  The operators named Mut... are faulty variants of the one that  *)
(* follows them; nothing uses them here.                                   *)
(***************************************************************************)
EXTENDS Naturals, Sequences, SequencesExt

CONSTANTS Tags,         \* what compute_tag gives for the strings in use
          Blocks,       \* bound: the blocks ever allocated
          SweepTags,    \* what tag_sweep is asked for
          DestroyUpTo,  \* most blocks on the list when tag_destroy runs
          Null,         \* the pointer NULL
          None          \* no call, no argument

VARIABLES list,       \* the blocks of tag_list, from its head on
          created,    \* tag_list # NULL
          block,      \* per block "unused", "live" or "freed"
          tag,        \* per block
          call,       \* the call in progress: "free", "sweep", "destroy", None
          arg,        \* its argument
          i, p,       \* its loop counter and node
          result,     \* of the last tag_free: "found" (1), "missed" (0), else None
          undefined   \* has a freed block been read or freed again?

tag_vars == <<list, created, block, tag, call, arg, i, p, result, undefined>>

-----------------------------------------------------------------------------
TagInit ==
  /\ list = <<>> /\ created = FALSE
  /\ block = [b \in Blocks |-> "unused"]
  /\ tag \in [Blocks -> Tags]
  /\ call = None /\ arg = None /\ i = 0 /\ p = None
  /\ result = None /\ undefined = FALSE

Idle == call = None /\ ~undefined

\* The first call makes the list and registers tag_destroy.
tag_malloc(b) ==
  /\ Idle /\ block[b] = "unused"
  /\ list' = Append(list, b) /\ created' = TRUE
  /\ block' = [block EXCEPT ![b] = "live"]
  /\ result' = None
  /\ UNCHANGED <<tag, call, arg, i, p, undefined>>

Begin(kind, argument) ==
  /\ Idle
  /\ call' = kind /\ arg' = argument /\ i' = 0
  /\ p' = IF list = <<>> THEN None ELSE Head(list)
  /\ result' = None
  /\ UNCHANGED <<list, created, block, tag, undefined>>

\* Of a pointer that the program has and has not freed, or of the NULL that
\* free_elf passes for a table that the file does not have.  Without the list,
\* tag_free, tag_sweep and tag_destroy return at once.
tag_free(b) == /\ created /\ (b # Null => block[b] = "live")
               /\ Begin("free", b)

tag_sweep(t) == created /\ Begin("sweep", t)

tag_destroy == created /\ Len(list) <= DestroyUpTo /\ Begin("destroy", None)

Rotated == Append(Tail(list), Head(list))

\* p = linkedlist_next(tag_list) gives the head that the list leaves.
MutAdvance == p' = Head(list) /\ list' = Rotated /\ UNCHANGED i

Advance == p' = Head(list) /\ list' = Rotated /\ i' = i + 1

Turning(kind) == call = kind /\ i < Len(list) /\ ~undefined

MutRelease(b) == UNCHANGED <<block, undefined>>

\* Reading or freeing a block that is freed already is undefined.
Release(b) ==
  /\ undefined' = (block[b] = "freed")
  /\ block' = [block EXCEPT ![b] = "freed"]

Return(value) == call' = None /\ result' = value /\ arg' = None /\ p' = None /\ i' = 0

MutFreeFound ==
  /\ Turning("free") /\ p = arg
  /\ Release(p)
  /\ Return("found")
  /\ UNCHANGED <<list, created, tag>>

FreeFound ==
  /\ Turning("free") /\ p = arg
  /\ \E j \in DOMAIN list : list[j] = p /\ list' = RemoveAt(list, j)
  /\ Release(p)
  /\ Return("found")
  /\ UNCHANGED <<created, tag>>

FreePasses ==
  /\ Turning("free") /\ p # arg
  /\ Advance
  /\ undefined' = (block[p] = "freed")
  /\ UNCHANGED <<created, block, tag, call, arg, result>>

\* The block goes if its tag matches, its node stays.
SweepTurn ==
  /\ Turning("sweep")
  /\ IF tag[p] = arg /\ block[p] = "live" THEN Release(p)
     ELSE undefined' = (block[p] = "freed") /\ UNCHANGED block
  /\ Advance
  /\ UNCHANGED <<created, tag, call, arg, result>>

DestroyTurn ==
  /\ Turning("destroy")
  /\ Release(p)
  /\ Advance
  /\ UNCHANGED <<created, tag, call, arg, result>>

LoopEnds ==
  /\ call # None /\ i = Len(list) /\ ~undefined
  /\ IF call = "destroy" THEN list' = <<>> /\ created' = FALSE
     ELSE UNCHANGED <<list, created>>
  /\ Return(IF call = "free" THEN "missed" ELSE None)
  /\ UNCHANGED <<block, tag, undefined>>

\* The turns of the loop of the call in progress.
Turn == FreeFound \/ FreePasses \/ SweepTurn \/ DestroyTurn \/ LoopEnds

TagNext ==
  \/ \E b \in Blocks : tag_malloc(b)
  \/ \E b \in Blocks \cup {Null} : tag_free(b)
  \/ \E t \in SweepTags : tag_sweep(t)
  \/ tag_destroy
  \/ Turn

TagSpec == TagInit /\ [][TagNext]_tag_vars

-----------------------------------------------------------------------------
(* Properties                                                              *)

\* "find the block in the list" (tagmalloc.c:67): the search of tag_free for
\* memory that tag_malloc returned and nobody freed does not end without it.
FreeFinds == call = "free" /\ arg # Null => i < Len(list)
=============================================================================
