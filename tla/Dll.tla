-------------------------------- MODULE Dll --------------------------------
(***************************************************************************)
(* The intrusive doubly linked list of libc/sys/dll.c, which holds the     *)
(* memory map and the PCI devices.  Every node points to its neighbours    *)
(* and to its list.  The operations are the pointer assignments of the     *)
(* code; removing a node does not touch the node's own pointers.           *)
(***************************************************************************)
EXTENDS Integers, Sequences, FiniteSets

CONSTANTS Lists, Nodes, NULL

ASSUME DllAssumption == NULL \notin Nodes \cup Lists /\ IsFiniteSet(Nodes)

VARIABLES q,         \* head, tail, size of the lists; prev, next, list of nodes
          panicked   \* an assert failed and the kernel stopped

vars == <<q, panicked>>

\* A write through NULL lands in mapped low memory and stops nothing.
Cells == Nodes \cup {NULL}

-----------------------------------------------------------------------------
\* Mutant: only the forward pointer is set.
dll_link_Forward(s, n1, n2) == [s EXCEPT !.next[n1] = n2]

dll_link(s, n1, n2) == [s EXCEPT !.next[n1] = n2, !.prev[n2] = n1]

dll_clear(s, l) == [s EXCEPT !.head[l] = NULL, !.tail[l] = NULL, !.size[l] = 0]

dll_add_only(s, l, n) ==
  [s EXCEPT !.head[l] = n, !.tail[l] = n, !.size[l] = 1,
            !.prev[n] = NULL, !.next[n] = NULL, !.list[n] = l]

dll_add_head(s, l, n) ==
  IF s.size[l] = 0 THEN dll_add_only(s, l, n)
  ELSE [dll_link(s, n, s.head[l]) EXCEPT
          !.head[l] = n, !.list[n] = l, !.prev[n] = NULL, !.size[l] = @ + 1]

\* Mutant: a node that had a successor elsewhere keeps it.
dll_add_tail_KeepsNext(s, l, n) ==
  IF s.size[l] = 0 THEN dll_add_only(s, l, n)
  ELSE [dll_link(s, s.tail[l], n) EXCEPT
          !.tail[l] = n, !.list[n] = l, !.size[l] = @ + 1]

dll_add_tail(s, l, n) ==
  IF s.size[l] = 0 THEN dll_add_only(s, l, n)
  ELSE [dll_link(s, s.tail[l], n) EXCEPT
          !.tail[l] = n, !.list[n] = l, !.next[n] = NULL, !.size[l] = @ + 1]

dll_add_before(s, ref, n) ==
  LET l == s.list[ref]
  IN  IF s.head[l] = ref THEN dll_add_head(s, l, n)
      ELSE [dll_link(dll_link(s, s.prev[ref], n), n, ref) EXCEPT
              !.list[n] = l, !.size[l] = @ + 1]

\* Mutant: the two links are set in the other order.
dll_add_after_Swapped(s, ref, n) ==
  LET l == s.list[ref]
      t == dll_link(s, ref, n)
  IN  IF s.tail[l] = ref THEN dll_add_tail(s, l, n)
      ELSE [dll_link(t, n, t.next[ref]) EXCEPT
              !.list[n] = l, !.size[l] = @ + 1]

dll_add_after(s, ref, n) ==
  LET l == s.list[ref]
      t == dll_link(s, n, s.next[ref])
  IN  IF s.tail[l] = ref THEN dll_add_tail(s, l, n)
      ELSE [dll_link(t, ref, n) EXCEPT !.list[n] = l, !.size[l] = @ + 1]

dll_remove_head(s, l) ==
  LET h == s.next[s.head[l]]
  IN  IF s.size[l] = 1 THEN dll_clear(s, l)
      ELSE [s EXCEPT !.head[l] = h, !.prev[h] = NULL, !.size[l] = @ - 1]

dll_remove_tail(s, l) ==
  LET t == s.prev[s.tail[l]]
  IN  IF s.size[l] = 1 THEN dll_clear(s, l)
      ELSE [s EXCEPT !.tail[l] = t, !.next[t] = NULL, !.size[l] = @ - 1]

dll_remove(s, n) ==
  LET l == s.list[n]
  IN  IF s.head[l] = n THEN dll_remove_head(s, l)
      ELSE IF s.tail[l] = n THEN dll_remove_tail(s, l)
      ELSE [dll_link(s, s.prev[n], s.next[n]) EXCEPT !.size[l] = @ - 1]

-----------------------------------------------------------------------------
(***************************************************************************)
(* The nodes of list l in order, by following next from the head.          *)
(***************************************************************************)
Forward(l) ==
  LET nth[i \in 1..q.size[l]] == IF i = 1 THEN q.head[l] ELSE q.next[nth[i - 1]]
  IN  [i \in 1..q.size[l] |-> nth[i]]

Elements(l) == {Forward(l)[i] : i \in 1..q.size[l]}

Listed == UNION {Elements(l) : l \in Lists}

\* Zero-initialised lists and nodes, as in the tests and in static storage.
Init ==
  /\ q = [head |-> [l \in Lists |-> NULL], tail |-> [l \in Lists |-> NULL],
          size |-> [l \in Lists |-> 0],
          prev |-> [n \in Cells |-> NULL], next |-> [n \in Cells |-> NULL],
          list |-> [n \in Nodes |-> NULL]]
  /\ panicked = FALSE

\* A client adds a node that is in no list.
AddHead(l, n) == q' = dll_add_head(q, l, n) /\ UNCHANGED panicked
AddTail(l, n) == q' = dll_add_tail(q, l, n) /\ UNCHANGED panicked
AddBefore(ref, n) == q' = dll_add_before(q, ref, n) /\ UNCHANGED panicked
AddAfter(ref, n) == q' = dll_add_after(q, ref, n) /\ UNCHANGED panicked

\* "Cannot remove head from an empty queue": empty lists stop the kernel.
RemoveHead(l) ==
  IF q.size[l] = 0 THEN panicked' = TRUE /\ UNCHANGED q
                   ELSE q' = dll_remove_head(q, l) /\ UNCHANGED panicked

RemoveTail(l) ==
  IF q.size[l] = 0 THEN panicked' = TRUE /\ UNCHANGED q
                   ELSE q' = dll_remove_tail(q, l) /\ UNCHANGED panicked

\* "Node does not belong to a queue.": a node with no list stops the kernel.
Remove(n) ==
  IF q.list[n] = NULL THEN panicked' = TRUE /\ UNCHANGED q
                      ELSE q' = dll_remove(q, n) /\ UNCHANGED panicked

Clear(l) == q' = dll_clear(q, l) /\ UNCHANGED panicked

(***************************************************************************)
(* The nodes a client passes to dll_remove: listed ones and ones that were *)
(* never in a list.  A node removed before keeps its list pointer, so the  *)
(* assertion does not catch it; no client passes one.                      *)
(***************************************************************************)
Removable == {n \in Nodes : n \in Listed \/ q.list[n] = NULL}

Next ==
  /\ ~panicked
  /\ \/ \E l \in Lists, n \in Nodes \ Listed : AddHead(l, n) \/ AddTail(l, n)
     \/ \E ref \in Listed, n \in Nodes \ Listed : AddBefore(ref, n) \/ AddAfter(ref, n)
     \/ \E l \in Lists : RemoveHead(l) \/ RemoveTail(l) \/ Clear(l)
     \/ \E n \in Removable : Remove(n)

Spec == Init /\ [][Next]_vars

-----------------------------------------------------------------------------
\* Type invariant.
TypeOK ==
  /\ q \in [head : [Lists -> Cells], tail : [Lists -> Cells],
            size : [Lists -> 0..Cardinality(Nodes)],
            prev : [Cells -> Cells], next : [Cells -> Cells],
            list : [Nodes -> Lists \cup {NULL}]]
  /\ panicked \in BOOLEAN

(***************************************************************************)
(* The back pointers mirror the forward ones in every list, however nodes  *)
(* with stale pointers are added again: what dll_check of dll_test.c asks  *)
(* of the ends and the owners, and the prev chain that dll_remove and      *)
(* dll_add_before rely on.                                                 *)
(***************************************************************************)
BackPointersMirror ==
  TypeOK /\ \A l \in Lists :
    LET s == Forward(l)
        k == q.size[l]
    IN  /\ (k = 0) => q.head[l] = NULL /\ q.tail[l] = NULL
        /\ (k > 0) => /\ q.prev[q.head[l]] = NULL /\ q.next[q.tail[l]] = NULL
                      /\ q.tail[l] = s[k]
        /\ \A i \in 1..k : q.list[s[i]] = l
        /\ \A i \in 2..k : q.prev[s[i]] = s[i - 1]

\* The lists as sequences.
Contents == [l \in Lists |-> Forward(l)]

Seqs == INSTANCE ListOps WITH contents <- Contents

(***************************************************************************)
(* The pointers implement the lists as sequences: an operation on one list *)
(* loses no node, duplicates none and leaves the other lists alone.        *)
(***************************************************************************)
ImplementsSequences == Seqs!Spec
=============================================================================
