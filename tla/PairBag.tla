------------------------------ MODULE PairBag ------------------------------
(***************************************************************************)
(* What a hash table promises when its inserts do not look for the key     *)
(* first: a bag of pairs.  A get returns the value of some pair of the     *)
(* key, a delete removes one pair of the key.  With at most one pair per   *)
(* key this is a map.                                                      *)
(***************************************************************************)
EXTENDS Naturals

CONSTANTS Keys, Values, Missing

Pairs == Keys \X Values

VARIABLES bag,       \* how often each pair is in the table
          returned   \* what the last get returned

vars == <<bag, returned>>

ValuesOf(k) == {v \in Values : bag[<<k, v>>] > 0}

Init == /\ bag = [p \in Pairs |-> 0]
        /\ returned = Missing

Insert(k, v) == /\ bag' = [bag EXCEPT ![<<k, v>>] = @ + 1]
                /\ UNCHANGED returned

Get(k) == /\ returned' \in IF ValuesOf(k) = {} THEN {Missing} ELSE ValuesOf(k)
          /\ UNCHANGED bag

Delete(k) == /\ \E v \in ValuesOf(k) : bag' = [bag EXCEPT ![<<k, v>>] = @ - 1]
             /\ UNCHANGED returned

Next == \E k \in Keys : Get(k) \/ Delete(k) \/ \E v \in Values : Insert(k, v)

Spec == Init /\ [][Next]_vars
===========================================================================
