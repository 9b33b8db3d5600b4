---------------------------- MODULE ByteMemory ----------------------------
(***************************************************************************)
(* What the storage hierarchy promises to the CPU: an array of bytes.  A   *)
(* load returns the byte last stored at its address, and nothing but a     *)
(* store changes a byte.                                                   *)
(***************************************************************************)
CONSTANTS Addresses, Bytes

VARIABLES bytes,     \* the array
          returned   \* what the last load returned

vars == <<bytes, returned>>

Init == bytes \in [Addresses -> Bytes] /\ returned \in Bytes

Load(a) == returned' = bytes[a] /\ UNCHANGED bytes

Store(a, d) == bytes' = [bytes EXCEPT ![a] = d] /\ UNCHANGED returned

Next == \E a \in Addresses : Load(a) \/ \E d \in Bytes : Store(a, d)

Spec == Init /\ [][Next]_vars
===========================================================================
