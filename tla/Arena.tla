------------------------------- MODULE Arena -------------------------------
(***************************************************************************)
(* What malloc, free and realloc promise: blocks that lie inside the       *)
(* arena, start on the alignment and never overlap; a block keeps its      *)
(* place and length until it is freed or moved to a longer one.            *)
(***************************************************************************)
EXTENDS Integers

CONSTANTS First, Last,   \* the arena is the addresses First..Last
          Unit           \* alignment of a block

VARIABLE blocks          \* the blocks handed out

Block == [at : First..Last, len : 1..(Last - First + 1)]

Overlap(a, b) == a.at < b.at + b.len /\ b.at < a.at + a.len

\* A block that may be handed out now.
Placeable(b) == /\ b.at % Unit = 0
                /\ b.at + b.len - 1 <= Last
                /\ \A c \in blocks : ~Overlap(b, c)

Init == blocks = {}

Alloc == \E b \in blocks' \ blocks : /\ b \in Block
                                     /\ Placeable(b)
                                     /\ blocks' = blocks \cup {b}

Free == \E b \in blocks : blocks' = blocks \ {b}

\* The old block is still there while its bytes are copied.
Move == \E old \in blocks, new \in blocks' \ blocks :
          /\ new \in Block
          /\ new.len > old.len
          /\ Placeable(new)
          /\ blocks' = (blocks \ {old}) \cup {new}

Next == Alloc \/ Free \/ Move

Spec == Init /\ [][Next]_blocks
=============================================================================
