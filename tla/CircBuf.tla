------------------------------ MODULE CircBuf ------------------------------
(***************************************************************************)
(* The circular buffer of libc/sys/circ_buf.c as operators on the record   *)
(* [buf, head, tail, size].  A slot holds one element: copying granularity *)
(* bytes is one assignment, and a returned pointer is a slot number.       *)
(***************************************************************************)
EXTENDS Integers

CONSTANT Capacity

ASSUME CapacityAssumption == Capacity \in Nat \ {0}

Slots == 0..(Capacity - 1)

\* circ_buf_init over a buffer that already holds bytes.
circ_buf_init(bytes) == [buf |-> bytes, head |-> 0, tail |-> 0, size |-> 0]

\* circ_buf_increment_head, circ_buf_increment_tail
Increment(i) == (i + 1) % Capacity

\* circ_buf_decrement_head, circ_buf_decrement_tail
Decrement(i) == (i + Capacity - 1) % Capacity

\* A full buffer gives up the element at the other end.
circ_buf_enqueue_head(cb, val) ==
  LET h == Decrement(cb.head)
  IN  [cb EXCEPT !.head = h, !.buf[h] = val,
                 !.size = IF @ < Capacity THEN @ + 1 ELSE @,
                 !.tail = IF cb.size < Capacity THEN @ ELSE Decrement(@)]

\* Mutant: a full buffer keeps its head.
circ_buf_enqueue_tail_KeepsHead(cb, val) ==
  [cb EXCEPT !.buf[cb.tail] = val, !.tail = Increment(@),
             !.size = IF @ < Capacity THEN @ + 1 ELSE @]

circ_buf_enqueue_tail(cb, val) ==
  [cb EXCEPT !.buf[cb.tail] = val, !.tail = Increment(@),
             !.size = IF @ < Capacity THEN @ + 1 ELSE @,
             !.head = IF cb.size < Capacity THEN @ ELSE Increment(@)]

\* The buffer after a dequeue of a buffer that is not empty.
circ_buf_dequeue_head(cb) ==
  [cb EXCEPT !.head = Increment(@), !.size = @ - 1]

circ_buf_dequeue_tail(cb) ==
  [cb EXCEPT !.tail = Decrement(@), !.size = @ - 1]

\* circ_buf_peek, circ_buf_peekn: the slot n places after the head.
circ_buf_peekn_head(cb, n) == (cb.head + n) % Capacity

\* The slot n places before the last; the difference is taken modulo range,
\* the number of values of size_t, before it is reduced.
circ_buf_peekn_tail(cb, n, range) == ((cb.tail - n - 1) % range) % Capacity
=============================================================================
