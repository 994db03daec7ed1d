------------------------------- MODULE MCHeap -------------------------------
(***************************************************************************)
(* Model-checking instances of Heap: sizes in units of half the alignment, *)
(* so that rounding happens; a heap with room for up to four chunks.       *)
(***************************************************************************)
EXTENDS Heap
=============================================================================
