-------------------------- MODULE CoherentMemory --------------------------
(***************************************************************************)
(* What a coherent cache system promises to the processors it serves: one  *)
(* memory word.  A load returns the word, a store replaces it, and nothing *)
(* else (an eviction, a write back, a change of ownership) is visible.     *)
(***************************************************************************)
CONSTANTS Words,     \* the contents the word may have
          Values     \* the values a store may write

VARIABLES word,      \* the memory word
          returned   \* what the last load returned

vars == <<word, returned>>

Init == word \in Words /\ returned \in Words

Load == returned' = word /\ UNCHANGED word

Store(v) == word' = v /\ UNCHANGED returned

Next == Load \/ \E v \in Values : Store(v)

Spec == Init /\ [][Next]_vars
===========================================================================
