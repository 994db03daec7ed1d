------------------------------ MODULE ListOps ------------------------------
(***************************************************************************)
(* What the doubly linked lists of libc/sys/dll.c promise: every list is a *)
(* sequence of distinct nodes, a node is in at most one list, and an       *)
(* operation changes one list at one place.                                *)
(***************************************************************************)
EXTENDS Sequences, SequencesExt

CONSTANTS Lists, Nodes

VARIABLE contents

Elements(l) == {contents[l][i] : i \in DOMAIN contents[l]}

Unlisted == Nodes \ UNION {Elements(l) : l \in Lists}

Init == contents = [l \in Lists |-> <<>>]

\* A node enters a list at any position.
Enter == \E l \in Lists, n \in Unlisted :
            \E i \in 1..(Len(contents[l]) + 1) :
              contents' = [contents EXCEPT ![l] = InsertAt(@, i, n)]

\* The node at any position leaves its list.
Leave == \E l \in Lists : \E i \in DOMAIN contents[l] :
            contents' = [contents EXCEPT ![l] = RemoveAt(@, i)]

Clear == \E l \in Lists : contents' = [contents EXCEPT ![l] = <<>>]

Next == Enter \/ Leave \/ Clear

Spec == Init /\ [][Next]_contents
=============================================================================
