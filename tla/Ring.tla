-------------------------------- MODULE Ring --------------------------------
(***************************************************************************)
(* What the circular linked list promises: a sequence of values with a     *)
(* first one, which linkedlist_next moves to the end and returns.          *)
(***************************************************************************)
EXTENDS Sequences, SequencesExt

CONSTANTS Values, Null

VARIABLES ring,      \* the values, from the head on
          returned   \* the value of the node the last call returned

vars == <<ring, returned>>

Init == ring = <<>> /\ returned = Null

Add(v) == ring' = Append(ring, v) /\ UNCHANGED returned

TakeOut(i) == ring' = RemoveAt(ring, i) /\ UNCHANGED returned

Rotate == IF ring = <<>> THEN returned' = Null /\ UNCHANGED ring
          ELSE /\ returned' = Head(ring)
               /\ ring' = Append(Tail(ring), Head(ring))

Find(v) == /\ returned' = IF v \in ToSet(ring) THEN v ELSE Null
           /\ UNCHANGED ring

Clear == ring' = <<>> /\ UNCHANGED returned

Next == \/ Rotate \/ Clear
        \/ \E v \in Values : Add(v) \/ Find(v)
        \/ \E i \in DOMAIN ring : TakeOut(i)

Spec == Init /\ [][Next]_vars
=============================================================================
