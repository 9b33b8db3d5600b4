----------------------------- MODULE LinkedList -----------------------------
(***************************************************************************)
(* The circular doubly linked list of src/src/algorithm/linkedlist.c, with *)
(* its nodes on a heap: malloc takes any free one, free gives it back.     *)
(*                                                                         *)
(* An operator named Mut... is a faulty variant of the one that follows    *)
(* it; the mutation checks put it in that one's place, and the             *)
(* specification never uses it.                                            *)
(***************************************************************************)
EXTENDS Naturals, Sequences, FiniteSets

CONSTANTS Values,      \* what the nodes hold
          Null,        \* the null pointer
          MaxNodes     \* bound on the nodes of the heap

ASSUME ListAssumption == /\ MaxNodes \in Nat \ {0}
                         /\ Null \notin Values \cup (1 .. MaxNodes)
                         /\ Null \notin [value : Values, next : 1 .. MaxNodes,
                                        prev : 1 .. MaxNodes]

Nodes == 1 .. MaxNodes

VARIABLES heap,      \* a node's [value, next, prev], or Null when not allocated
          head, count,
          sought,    \* the value of a linkedlist_get in progress, or Null
          current,   \* its current
          returned,  \* the value in the node that the last call returned
          alive      \* FALSE after linkedlist_free

vars == <<heap, head, count, sought, current, returned, alive>>

Allocated == {n \in Nodes : heap[n] # Null}

Callable == alive /\ sought = Null

-----------------------------------------------------------------------------
\* linkedlist_construct
Init == /\ heap = [n \in Nodes |-> Null]
        /\ head = Null /\ count = 0
        /\ sought = Null /\ current = Null /\ returned = Null
        /\ alive = TRUE

AddFirst(n, value) ==
  /\ count = 0
  /\ heap' = [heap EXCEPT ![n] = [value |-> value, next |-> n, prev |-> n]]
  /\ head' = n

MutAddLast(n, value) ==
  LET tail == heap[head].prev IN
  /\ count > 0
  /\ heap' = [heap EXCEPT ![n] = [value |-> value, next |-> head, prev |-> tail],
                          ![tail].next = n]
  /\ UNCHANGED head

\* The new node goes between the old tail and the head.
AddLast(n, value) ==
  LET tail == heap[head].prev IN
  /\ count > 0
  /\ heap' = [heap EXCEPT ![n] = [value |-> value, next |-> head, prev |-> tail],
                          ![head].prev = n,
                          ![tail].next = n]
  /\ UNCHANGED head

linkedlist_add(value) ==
  /\ Callable
  /\ \E n \in Nodes \ Allocated : AddFirst(n, value) \/ AddLast(n, value)
  /\ count' = count + 1
  /\ UNCHANGED <<sought, current, returned, alive>>

MutHeadAfter(n) == IF head # n THEN head
                   ELSE IF count = 1 THEN Null ELSE heap[n].prev

\* The head pointer moves on when its node goes.
HeadAfter(n) == IF head # n THEN head
                ELSE IF count = 1 THEN Null ELSE heap[n].next

linkedlist_delete(n) ==
  /\ Callable
  /\ head' = HeadAfter(n)
  /\ heap' = [heap EXCEPT ![heap[n].prev].next = heap[n].next,
                          ![heap[n].next].prev = heap[n].prev,
                          ![n] = Null]
  /\ count' = count - 1
  /\ UNCHANGED <<sought, current, returned, alive>>

\* The head moves on, and the node it leaves is returned.
linkedlist_next ==
  /\ Callable
  /\ IF head = Null THEN returned' = Null /\ UNCHANGED head
     ELSE /\ head' = heap[head].next
          /\ returned' = heap[heap[head'].prev].value
  /\ UNCHANGED <<heap, count, sought, current, alive>>

\* linkedlist_get: an empty list is told apart at once ...
GetFromEmpty ==
  /\ Callable /\ head = Null
  /\ returned' = Null
  /\ UNCHANGED <<heap, head, count, sought, current, alive>>

\* ... otherwise it starts at the head ...
GetBegin(value) ==
  /\ Callable /\ head # Null
  /\ sought' = value /\ current' = head
  /\ UNCHANGED <<heap, head, count, returned, alive>>

\* ... and follows next, which is never NULL in a ring: the loop goes round for
\* ever if no node holds the value.
MutGetTurn ==
  /\ sought # Null
  /\ IF heap[heap[current].next].value = sought
     THEN returned' = sought /\ sought' = Null /\ current' = Null
     ELSE current' = heap[heap[current].next].next /\ UNCHANGED <<returned, sought>>
  /\ UNCHANGED <<heap, head, count, alive>>

GetTurn ==
  /\ sought # Null
  /\ IF heap[current].value = sought
     THEN returned' = sought /\ sought' = Null /\ current' = Null
     ELSE current' = heap[current].next /\ UNCHANGED <<returned, sought>>
  /\ UNCHANGED <<heap, head, count, alive>>

\* The nodes from the head on, as far as next leads in so many hops.
Walk == LET at[k \in Nat] == IF k = 0 THEN head ELSE heap[at[k - 1]].next
        IN at

\* The number of hops from the head to the tail.
Last == CHOOSE k \in 0 .. MaxNodes :
          Walk[k] = heap[head].prev /\ \A j \in 0 .. k - 1 : Walk[j] # Walk[k]

\* linkedlist_free breaks the ring behind the tail and frees from the head on.
FreedBy == IF head = Null THEN {} ELSE {Walk[k] : k \in 0 .. Last}

linkedlist_free ==
  /\ Callable
  /\ heap' = [n \in Nodes |-> IF n \in FreedBy THEN Null ELSE heap[n]]
  /\ alive' = FALSE /\ head' = Null /\ count' = 0
  /\ UNCHANGED <<sought, current, returned>>

Next == \/ \E value \in Values : linkedlist_add(value) \/ GetBegin(value)
        \/ \E n \in Allocated : linkedlist_delete(n)
        \/ linkedlist_next
        \/ GetFromEmpty
        \/ GetTurn
        \/ linkedlist_free

\* A call that has begun goes on.
Spec == Init /\ [][Next]_vars /\ WF_vars(GetTurn)

-----------------------------------------------------------------------------
(* Properties                                                              *)

\* The nodes on the heap are those of one ring: next and prev are inverse to
\* each other, and count nodes are met from the head on before it comes round;
\* none is left when linkedlist_free returns.
OneRing ==
  /\ (head = Null) <=> (count = 0)
  /\ \A n \in Allocated : /\ heap[heap[n].next].prev = n
                          /\ heap[heap[n].prev].next = n
  /\ head = Null => Allocated = {}
  /\ head # Null => /\ {Walk[k] : k \in 0 .. count - 1} = Allocated
                    /\ Cardinality(Allocated) = count

Promise == INSTANCE Ring WITH
             ring <- [k \in 1 .. count |-> heap[Walk[k - 1]].value]

\* The list is a ring of values: an add puts its value last, a delete takes out
\* the value of its own node wherever that stands and leaves the order of the
\* others alone, the iterator moves the first value to the end and returns it,
\* and a search, however far it has come, moves nothing.
ImplementsRing ==
  /\ Promise!Init
  /\ [][/\ \A value \in Values :
             /\ linkedlist_add(value) => Promise!Add(value)
             /\ GetFromEmpty => Promise!Find(value)
             /\ GetBegin(value) => UNCHANGED Promise!vars
        /\ \A k \in 1 .. count :
             linkedlist_delete(Walk[k - 1]) => Promise!TakeOut(k)
        /\ linkedlist_next => Promise!Rotate
        /\ GetTurn => IF sought' = Null THEN Promise!Find(sought)
                      ELSE UNCHANGED Promise!vars
        /\ linkedlist_free => Promise!Clear]_vars

\* A search for a value that a node holds ends, wherever the head has been
\* rotated to and whatever the links have been through.
GetReturns ==
  sought # Null /\ (\E n \in Allocated : heap[n].value = sought) ~> sought = Null
=============================================================================
