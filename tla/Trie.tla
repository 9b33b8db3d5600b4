-------------------------------- MODULE Trie --------------------------------
(***************************************************************************)
(* The prefix tree of src/src/algorithm/trie.c.  A node is named by the    *)
(* characters that lead to it, so that a trie is a function from the nodes *)
(* that exist to their addresses, and next[c] of node p is NULL unless     *)
(* p \o <<c>> exists.  Memory from malloc is fresh, hence zero: next is    *)
(* NULL and address 0 in a new node.  The operators named Mut... are       *)
(* faulty variants; nothing uses them here.                                *)
(***************************************************************************)
EXTENDS Naturals, Sequences, SequencesExt

NoTrie == <<>>    \* root == NULL
Fresh == 0        \* the address of a node that has just been made

\* The characters that have an index; any other reads next[-1].
Indexed == {"%", "0", "1", "2", "3", "4", "5", "6", "7", "8", "9", "a", "b", "c", "d",
            "e", "f", "g", "h", "i", "j", "k", "l", "m", "n", "o", "p", "q", "r", "s",
            "t", "u", "v", "w", "x", "y", "z"}

\* Every node on the way that does not exist is made.
MutInsert(t, key, value) ==
  [p \in DOMAIN t \cup Prefixes(key) |-> IF p = key \/ p \notin DOMAIN t THEN value ELSE t[p]]

trie_insert(t, key, value) ==
  [p \in DOMAIN t \cup Prefixes(key) |->
     IF p = key THEN value ELSE IF p \in DOMAIN t THEN t[p] ELSE Fresh]

\* The node that the first n characters lead to.
At(key, n) == SubSeq(key, 1, n)

\* ret is 1 and the address, or 0 when the way ends before the last character.
\* When only the last step leads to NULL, the loop does not notice and NULL is
\* dereferenced; the index -1 reads the header of the block as a pointer.
trie_get(t, key) ==
  IF \E n \in 1..Len(key) : At(key, n - 1) \in DOMAIN t /\ key[n] \notin Indexed
  THEN [ret |-> "undefined", val |-> 0]
  ELSE CASE key \in DOMAIN t -> [ret |-> "found", val |-> t[key]]
         [] \E n \in 0..Len(key) - 1 : At(key, n) \notin DOMAIN t
                             -> [ret |-> "missing", val |-> 0]
         [] OTHER            -> [ret |-> "undefined", val |-> 0]
=============================================================================
