--------------------------- MODULE KeyboardProofs ---------------------------
(***************************************************************************)
(* Proofs about Keyboard: for a queue of any size, a reader that is never  *)
(* more than a queue behind reads the scan codes in order and once, and    *)
(* never finds the queue empty that it has just seen filled, whatever      *)
(* interrupts come between its instructions.                               *)
(***************************************************************************)
EXTENDS Keyboard, SequenceTheorems, TLAPS

-----------------------------------------------------------------------------
\* Division with remainder.
LEMMA DivideBy ==
  ASSUME NEW a \in Nat, NEW w \in Nat \ {0}
  PROVE  /\ a \div w \in Nat
         /\ a % w \in 0..(w - 1)
         /\ a = w * (a \div w) + (a % w)
  OBVIOUS

\* A quotient and a remainder in range are the ones of the division.
LEMMA RemainderUnique ==
  ASSUME NEW w \in Nat \ {0}, NEW q \in Nat, NEW r \in 0..(w - 1)
  PROVE  (w * q + r) % w = r
  OBVIOUS

\* Increment on slots is the step to the next number.
LEMMA NextSlot ==
  ASSUME NEW a \in Nat
  PROVE  /\ a % Capacity \in Slots
         /\ Increment(a % Capacity) = (a + 1) % Capacity
<1> DEFINE q == a \div Capacity
           r == a % Capacity
<1>1. Capacity \in Nat \ {0}
  BY CapacityAssumption
<1>2. q \in Nat /\ r \in 0..(Capacity - 1) /\ a = Capacity * q + r
  BY <1>1, DivideBy
<1> HIDE DEF q, r
<1>3. CASE r + 1 < Capacity
  <2>1. r + 1 \in 0..(Capacity - 1) /\ a + 1 = Capacity * q + (r + 1)
    BY <1>1, <1>2, <1>3
  <2>2. (a + 1) % Capacity = r + 1
    BY <1>1, <1>2, <2>1, RemainderUnique
  <2>3. (r + 1) % Capacity = r + 1
    BY <1>1, <2>1
  <2> QED
    BY <1>2, <2>2, <2>3 DEF Increment, Slots, r
<1>4. CASE r + 1 = Capacity
  <2>1. 0 \in 0..(Capacity - 1) /\ a + 1 = Capacity * (q + 1) + 0 /\ q + 1 \in Nat
    BY <1>1, <1>2, <1>4
  <2>2. (a + 1) % Capacity = 0
    BY <1>1, <2>1, RemainderUnique
  <2>3. (r + 1) % Capacity = 0
    BY <1>1, <1>4
  <2> QED
    BY <1>2, <2>2, <2>3 DEF Increment, Slots, r
<1> QED
  BY <1>1, <1>2, <1>3, <1>4

\* Numbers less than a queue apart have different slots.
LEMMA SlotsApart ==
  ASSUME NEW a \in Nat, NEW b \in Nat, a < b, b - a < Capacity
  PROVE  a % Capacity # b % Capacity
<1> DEFINE qa == a \div Capacity
           qb == b \div Capacity
<1>1. Capacity \in Nat \ {0}
  BY CapacityAssumption
<1>2. SUFFICES ASSUME a % Capacity = b % Capacity PROVE FALSE
  OBVIOUS
<1>3. /\ qa \in Nat /\ a = Capacity * qa + (a % Capacity)
      /\ qb \in Nat /\ b = Capacity * qb + (b % Capacity)
      /\ a % Capacity \in Nat
  BY <1>1, DivideBy
<1> HIDE DEF qa, qb
<1>4. b - a = Capacity * (qb - qa)
  BY <1>1, <1>2, <1>3
<1>5. CASE qb <= qa
  BY <1>1, <1>3, <1>4, <1>5
<1>6. CASE qb >= qa + 1
  BY <1>1, <1>3, <1>4, <1>6
<1> QED
  BY <1>3, <1>5, <1>6

-----------------------------------------------------------------------------
Queues == [buf : [Slots -> Scans \cup {NoScan}], head : Slots, tail : Slots,
           size : 0..Capacity]

\* A queue with all its fields replaced is a queue.
LEMMA QueueReplaced ==
  ASSUME NEW q \in Queues, NEW b \in [Slots -> Scans \cup {NoScan}],
         NEW h \in Slots, NEW l \in Slots, NEW n \in 0..Capacity
  PROVE  [q EXCEPT !.buf = b, !.tail = l, !.size = n, !.head = h] \in Queues
  BY DEF Queues

\* circ_buf_enqueue_tail on a queue that is not full.
LEMMA EnqueueWithRoom ==
  ASSUME NEW q \in Queues, NEW scan \in Scans, q.size < Capacity
  PROVE  LET e == circ_buf_enqueue_tail(q, scan)
         IN  /\ e \in Queues
             /\ e.buf = [q.buf EXCEPT ![q.tail] = scan]
             /\ e.head = q.head
             /\ e.tail = Increment(q.tail)
             /\ e.size = q.size + 1
<1> DEFINE e == circ_buf_enqueue_tail(q, scan)
<1>1. /\ q.buf \in [Slots -> Scans \cup {NoScan}] /\ q.tail \in Slots
      /\ q.head \in Slots /\ q.size \in 0..Capacity
  BY DEF Queues
<1>2. Increment(q.tail) \in Slots /\ q.size + 1 \in 0..Capacity
  BY <1>1, CapacityAssumption DEF Increment, Slots
<1>3. [q.buf EXCEPT ![q.tail] = scan] \in [Slots -> Scans \cup {NoScan}]
  BY <1>1
<1>4. e \in Queues
  BY <1>1, <1>2, <1>3, QueueReplaced DEF circ_buf_enqueue_tail
<1>5. e.buf = [q.buf EXCEPT ![q.tail] = scan]
  BY <1>1 DEF circ_buf_enqueue_tail, Queues
<1>6. e.head = q.head /\ e.tail = Increment(q.tail) /\ e.size = q.size + 1
  BY <1>1 DEF circ_buf_enqueue_tail, Queues
<1> QED
  BY <1>4, <1>5, <1>6

W == Len(typed)
R == Len(read)

\* The reader has moved the head but not yet returned the scan code.
HeadMoved == pc = "store" /\ "head" \notin pending

\* What was read is what was typed; the rest is at most MaxAhead.
Behind ==
  /\ typed \in Seq(Scans) /\ read \in Seq(Scans)
  /\ R <= W /\ W - R <= MaxAhead
  /\ \A i \in 1..R : read[i] = typed[i]

\* The slots from the first unread scan code to the tail hold the unread ones.
Queued ==
  /\ cb.tail = W % Capacity
  /\ cb.head = (IF HeadMoved THEN R + 1 ELSE R) % Capacity
  /\ \A i \in R..(W - 1) : cb.buf[i % Capacity] = typed[i + 1]

\* The count and its copy in a register never exceed what is in the queue.
Counted ==
  /\ pc # "null"
  /\ pc \in {"poll", "size", "head"} => cb.size <= W - R
  /\ pc \in {"size", "head"} => cb.size >= 1
  /\ pc \in {"head", "store"} => size_reg >= 1 /\ size_reg <= W - R
  /\ pc = "store" => /\ head_reg = R % Capacity
                     /\ "size" \in pending => cb.size <= W - R
                     /\ "size" \notin pending => cb.size <= W - R - 1

QueueInv == TypeOK /\ Behind /\ Queued /\ Counted

\* kb_init leaves an empty queue.
LEMMA InitQueueInv == Init => QueueInv
<1> SUFFICES ASSUME Init PROVE QueueInv
  OBVIOUS
<1>1. Capacity \in Nat \ {0} /\ MaxAhead \in Nat /\ 0 \in Slots
  BY CapacityAssumption, KeyboardAssumption DEF Slots
<1>2. TypeOK
  BY <1>1 DEF Init, TypeOK, circ_buf_init
<1>3. typed = <<>> /\ read = <<>> /\ W = 0 /\ R = 0
  BY DEF Init, W, R
<1>4. Behind
  BY <1>1, <1>3 DEF Behind
<1>5. Queued
  BY <1>1, <1>3 DEF Queued, HeadMoved, Init, circ_buf_init
<1>6. Counted
  BY <1>3 DEF Counted, Init, circ_buf_init
<1> QED
  BY <1>2, <1>4, <1>5, <1>6 DEF QueueInv

(***************************************************************************)
(* The interrupt handler adds one scan code behind the others: there is    *)
(* room, so it moves no head.                                              *)
(***************************************************************************)
LEMMA IsrQueueInv ==
  ASSUME MaxAhead <= Capacity, QueueInv, NEW scan \in Scans, keyboard_isr(scan),
         down' \subseteq Keys, toggled' \subseteq Locks
  PROVE  QueueInv'
<1> USE DEF QueueInv
<1>0. Capacity \in Nat \ {0} /\ MaxAhead \in Nat
  BY CapacityAssumption, KeyboardAssumption
<1>1. /\ W \in Nat /\ R \in Nat /\ R <= W /\ W - R < Capacity
      /\ W' = W + 1 /\ R' = R /\ W' - R' <= MaxAhead
      /\ typed' = Append(typed, scan) /\ read' = read
      /\ typed' \in Seq(Scans)
      /\ \A i \in 1..W : typed'[i] = typed[i]
      /\ typed'[W + 1] = scan
  BY <1>0 DEF keyboard_isr, Behind, W, R, reader
<1>2. /\ cb.size \in 0..Capacity /\ cb.size <= W - R
      /\ cb.tail \in Slots /\ cb.head \in Slots
      /\ cb.buf \in [Slots -> Scans \cup {NoScan}]
  BY <1>1 DEF TypeOK, Counted
<1>3. /\ cb' \in Queues
      /\ cb'.buf = [cb.buf EXCEPT ![cb.tail] = scan] /\ cb'.head = cb.head
      /\ cb'.tail = Increment(cb.tail) /\ cb'.size = cb.size + 1
  <2>1. cb \in Queues /\ cb.size < Capacity
    BY <1>0, <1>1, <1>2 DEF TypeOK, Queues
  <2> QED
    BY <2>1, EnqueueWithRoom DEF keyboard_isr, kb_enqueue_event
<1>4. cb.tail = W % Capacity /\ Increment(cb.tail) = (W + 1) % Capacity
      /\ Increment(cb.tail) \in Slots
  BY <1>1, NextSlot DEF Queued
<1>5. UNCHANGED <<kb_pressed, kb_locks, pc, size_reg, head_reg, pending>>
  BY DEF keyboard_isr, reader
<1>6. TypeOK'
  BY <1>3, <1>5 DEF TypeOK, Queues
<1>7. Behind'
  <2>1. ASSUME NEW i \in 1..R' PROVE read'[i] = typed'[i]
    <3>1. i \in 1..R /\ i \in 1..W
      BY <1>1, <2>1
    <3> QED
      BY <1>1, <3>1 DEF Behind
  <2>2. read' \in Seq(Scans)
    BY <1>1 DEF Behind
  <2>3. R' <= W'
    BY <1>1
  <2> QED
    BY <1>1, <2>1, <2>2, <2>3, Zenon DEF Behind
<1>8. Queued'
  <2>1. ASSUME NEW i \in R'..(W' - 1) PROVE cb'.buf[i % Capacity] = typed'[i + 1]
    <3>1. CASE i = W
      BY <1>1, <1>2, <1>3, <1>4, <3>1, ZenonT(60)
    <3>2. CASE i # W
      <4>1. i \in R..(W - 1) /\ i \in Nat /\ i < W /\ W - i < Capacity
        BY <1>0, <1>1, <2>1, <3>2
      <4>2. i % Capacity # W % Capacity /\ i % Capacity \in Slots
        BY <1>1, <4>1, SlotsApart, NextSlot
      <4>3. cb'.buf[i % Capacity] = cb.buf[i % Capacity]
        BY <1>2, <1>3, <1>4, <4>2
      <4>4. cb.buf[i % Capacity] = typed[i + 1]
        BY <4>1 DEF Queued
      <4>5. i + 1 \in 1..W
        BY <1>1, <4>1
      <4> QED
        BY <1>1, <4>3, <4>4, <4>5
    <3> QED
      BY <3>1, <3>2
  <2>2. HeadMoved' = HeadMoved
    BY <1>5 DEF HeadMoved
  <2>3. cb'.tail = W' % Capacity /\ cb'.head = cb.head
    BY <1>1, <1>3, <1>4
  <2> QED
    BY <1>1, <2>1, <2>2, <2>3 DEF Queued
<1>9. Counted'
  <2>1. cb'.size = cb.size + 1
    BY <1>3
  <2> QED
    BY <1>1, <1>2, <1>5, <2>1, SMTT(30) DEF Counted, TypeOK
<1> QED
  BY <1>6, <1>7, <1>8, <1>9

\* A key that goes down, repeats or comes up is one run of the handler.
LEMMA KeyQueueInv ==
  ASSUME MaxAhead <= Capacity, QueueInv, NEW k \in Keys,
         Press(k) \/ Repeat(k) \/ Release(k)
  PROVE  QueueInv'
<1>1. PICK b \in BOOLEAN : keyboard_isr([key |-> k, release |-> b])
  BY DEF Press, Repeat, Release
<1>2. [key |-> k, release |-> b] \in Scans
  BY DEF Scans
<1>3. down \subseteq Keys /\ toggled \subseteq Locks
  BY DEF QueueInv, TypeOK
<1>4. down' \subseteq Keys /\ toggled' \subseteq Locks
  BY <1>3 DEF Press, Repeat, Release
<1> QED
  BY <1>1, <1>2, <1>4, IsrQueueInv

\* Poll, LoadSize and LoadHead change nothing but where the reader is.
LEMMA LoadQueueInv ==
  ASSUME QueueInv, Poll \/ LoadSize \/ LoadHead
  PROVE  QueueInv'
<1> USE DEF QueueInv
<1>1. UNCHANGED <<cb, typed, read, down, toggled, kb_pressed, kb_locks>> /\ W' = W /\ R' = R
  BY DEF Poll, LoadSize, LoadHead, device, W, R
<1>2. W \in Nat /\ R \in Nat /\ cb.size \in 0..Capacity /\ cb.head \in Slots
  BY DEF Behind, W, R, TypeOK
<1>3. TypeOK'
  BY <1>1, <1>2 DEF Poll, LoadSize, LoadHead, TypeOK
<1>4. Behind'
  BY <1>1 DEF Behind
<1>5. HeadMoved' = FALSE /\ HeadMoved = FALSE
  BY DEF HeadMoved, Poll, LoadSize, LoadHead
<1>6. Queued'
  BY <1>1, <1>5 DEF Queued
<1>7. Counted'
  <2>1. CASE Poll
    BY <1>1, <1>2, <2>1 DEF Counted, Poll
  <2>2. CASE LoadSize
    BY <1>1, <1>2, <2>2 DEF Counted, LoadSize
  <2>3. CASE LoadHead
    <3>1. cb.head = R % Capacity
      BY <1>5 DEF Queued
    <3> QED
      BY <1>1, <1>2, <2>3, <3>1 DEF Counted, LoadHead
  <2> QED
    BY <2>1, <2>2, <2>3
<1> QED
  BY <1>3, <1>4, <1>6, <1>7

\* The two stores of circ_buf_dequeue, in either order.
LEMMA StoreQueueInv ==
  ASSUME QueueInv, StoreHead \/ StoreSize
  PROVE  QueueInv'
<1> USE DEF QueueInv
<1>1. /\ UNCHANGED <<typed, read, down, toggled, kb_pressed, kb_locks, pc, size_reg, head_reg>>
      /\ W' = W /\ R' = R /\ pc = "store" /\ pending \subseteq {"head", "size"}
  BY DEF StoreHead, StoreSize, device, W, R, TypeOK
<1>2. /\ W \in Nat /\ R \in Nat /\ Capacity \in Nat /\ cb \in Queues
      /\ size_reg \in 0..Capacity /\ size_reg >= 1 /\ size_reg <= W - R
      /\ head_reg = R % Capacity
  BY <1>1, CapacityAssumption DEF Behind, W, R, TypeOK, Queues, Counted
<1>3. Behind'
  BY <1>1 DEF Behind
<1>4. CASE StoreHead
  <2>1. Increment(head_reg) = (R + 1) % Capacity /\ Increment(head_reg) \in Slots
    <3>1. Increment(head_reg) = (R + 1) % Capacity
      BY <1>2, NextSlot
    <3>2. R + 1 \in Nat
      BY <1>2
    <3> QED
      BY <3>1, <3>2, NextSlot
  <2>2. /\ cb' \in Queues /\ cb'.head = Increment(head_reg)
        /\ cb'.buf = cb.buf /\ cb'.tail = cb.tail /\ cb'.size = cb.size
    BY <1>2, <1>4, <2>1 DEF StoreHead, Queues
  <2>3. TypeOK'
    BY <1>1, <1>4, <2>2 DEF StoreHead, TypeOK, Queues
  <2>4. Queued'
    BY <1>1, <1>4, <2>1, <2>2 DEF StoreHead, Queued, HeadMoved
  <2>5. Counted'
    BY <1>1, <1>4, <2>2 DEF StoreHead, Counted
  <2> QED
    BY <1>3, <2>3, <2>4, <2>5
<1>5. CASE StoreSize
  <2>1. size_reg - 1 \in 0..Capacity /\ size_reg - 1 <= W - R - 1
    BY <1>2
  <2>2. /\ cb' \in Queues /\ cb'.size = size_reg - 1
        /\ cb'.buf = cb.buf /\ cb'.tail = cb.tail /\ cb'.head = cb.head
    BY <1>2, <1>5, <2>1 DEF StoreSize, Queues
  <2>3. TypeOK'
    BY <1>1, <1>5, <2>2 DEF StoreSize, TypeOK, Queues
  <2>4. HeadMoved' = HeadMoved
    BY <1>1, <1>5 DEF StoreSize, HeadMoved
  <2>5. Queued'
    BY <1>1, <2>2, <2>4 DEF Queued
  <2>6. Counted'
    BY <1>1, <1>5, <2>1, <2>2 DEF StoreSize, Counted
  <2> QED
    BY <1>3, <2>3, <2>5, <2>6
<1> QED
  BY <1>4, <1>5

(***************************************************************************)
(* The slot that was given back still holds the scan code when it is read: *)
(* the handler writes it only when the reader is a whole queue behind.     *)
(***************************************************************************)
LEMMA HandleQueueInv ==
  ASSUME QueueInv, HandleEvent
  PROVE  QueueInv'
<1> USE DEF QueueInv
<1> DEFINE scan == cb.buf[head_reg]
           ch == kb_scan2ch(scan.key, kb_pressed, kb_locks)
<1>1. /\ UNCHANGED <<cb, typed, down, toggled, size_reg, head_reg, pending>>
      /\ W' = W /\ pc = "store" /\ pending = {} /\ pc' = "poll"
      /\ read' = Append(read, scan)
  BY DEF HandleEvent, device, W
<1>2. /\ W \in Nat /\ R \in Nat /\ R + 1 <= W /\ head_reg = R % Capacity
      /\ cb.size \in 0..Capacity /\ cb.size <= W - R - 1 /\ W - R <= MaxAhead
  BY <1>1 DEF Behind, W, R, TypeOK, Counted
<1>3. scan = typed[R + 1] /\ scan \in Scans
  <2>1. R \in R..(W - 1) /\ R + 1 \in 1..W
    BY <1>2
  <2>2. scan = typed[R + 1]
    BY <1>2, <2>1 DEF Queued
  <2>3. typed[R + 1] \in Scans
    BY <2>1 DEF Behind, W
  <2> QED
    BY <2>2, <2>3
<1>4. /\ read' \in Seq(Scans) /\ R' = R + 1 /\ read'[R + 1] = scan
      /\ \A i \in 1..R : read'[i] = read[i]
  BY <1>1, <1>3 DEF Behind, R
<1>5. Behind'
  <2>1. ASSUME NEW i \in 1..R' PROVE read'[i] = typed'[i]
    <3>1. CASE i = R + 1
      BY <1>1, <1>3, <1>4, <3>1
    <3>2. CASE i # R + 1
      <4>1. i \in 1..R
        BY <1>2, <1>4, <2>1, <3>2
      <4> QED
        BY <1>1, <1>4, <4>1 DEF Behind
    <3> QED
      BY <3>1, <3>2
  <2>2. R' <= W' /\ W' - R' <= MaxAhead /\ typed' \in Seq(Scans)
    BY <1>1, <1>2, <1>4, KeyboardAssumption DEF Behind
  <2> QED
    BY <1>4, <2>1, <2>2, Zenon DEF Behind
<1>6. Queued'
  <2>1. HeadMoved = TRUE /\ HeadMoved' = FALSE
    BY <1>1 DEF HeadMoved
  <2>2. ASSUME NEW i \in R'..(W' - 1) PROVE cb'.buf[i % Capacity] = typed'[i + 1]
    <3>1. i \in R..(W - 1)
      BY <1>1, <1>2, <1>4, <2>2
    <3> QED
      BY <1>1, <3>1 DEF Queued
  <2>3. cb'.tail = W' % Capacity /\ cb'.head = R' % Capacity
    BY <1>1, <1>4, <2>1 DEF Queued
  <2> QED
    BY <2>1, <2>2, <2>3 DEF Queued
<1>7. Counted'
  BY <1>1, <1>2, <1>4 DEF Counted
<1>8. TypeOK'
  <2>1. scan.key \in Keys /\ scan.release \in BOOLEAN
    BY <1>3 DEF Scans
  <2>2. ch \in Chars
    BY <2>1 DEF kb_scan2ch, Chars, Keys
  <2>3. /\ kb_pressed' = [kb_pressed EXCEPT ![ch] = ~scan.release]
        /\ kb_locks' = [l \in Locks |-> IF l = ch /\ Toggles(scan, ch)
                                          THEN ~kb_locks[l] ELSE kb_locks[l]]
    BY DEF HandleEvent
  <2> HIDE DEF scan, ch
  <2>4. kb_pressed' \in [Chars -> BOOLEAN]
    BY <2>1, <2>2, <2>3 DEF TypeOK
  <2>5. kb_locks' \in [Locks -> BOOLEAN]
    BY <2>3 DEF TypeOK
  <2> QED
    BY <1>1, <2>4, <2>5 DEF TypeOK
<1> QED
  BY <1>5, <1>6, <1>7, <1>8

\* Every step keeps the invariant, if the typist is never more than a queue ahead.
LEMMA NextQueueInv == MaxAhead <= Capacity /\ QueueInv /\ [Next]_vars => QueueInv'
<1> SUFFICES ASSUME MaxAhead <= Capacity, QueueInv, [Next]_vars PROVE QueueInv'
  OBVIOUS
<1>1. CASE \E k \in Keys : Press(k) \/ Repeat(k) \/ Release(k)
  BY <1>1, KeyQueueInv
<1>2. CASE kb_getchar
  BY <1>2, LoadQueueInv, StoreQueueInv, HandleQueueInv DEF kb_getchar
<1>3. CASE UNCHANGED vars
  BY <1>3 DEF vars, QueueInv, TypeOK, Behind, Queued, Counted, HeadMoved, W, R
<1> QED
  BY <1>1, <1>2, <1>3 DEF Next

(***************************************************************************)
(* For a queue of any size: as long as the typist is at most a queue       *)
(* ahead, kb_getchar reads the scan codes in the order they were typed,    *)
(* none twice and none lost in the middle, although it reads through a     *)
(* pointer into a slot that it has already given back.                     *)
(***************************************************************************)
THEOREM KeyboardReadInOrder ==
  ASSUME MaxAhead <= Capacity PROVE Spec => []ReadInOrder
<1>1. QueueInv /\ [Next]_vars => QueueInv'
  BY NextQueueInv
<1>2. QueueInv => ReadInOrder
  <2> SUFFICES ASSUME QueueInv PROVE ReadInOrder
    OBVIOUS
  <2>1. /\ read \in Seq(Scans) /\ typed \in Seq(Scans) /\ Len(read) <= Len(typed)
        /\ \A i \in 1..Len(read) : read[i] = typed[i]
    BY DEF QueueInv, Behind, R, W
  <2>2. SubSeq(read, 1, Len(read)) = SubSeq(typed, 1, Len(read))
    BY <2>1
  <2> QED
    BY <2>1, <2>2 DEF ReadInOrder, IsPrefix
<1> QED
  BY InitQueueInv, <1>1, <1>2, PTL DEF Spec

(***************************************************************************)
(* For a queue of any size, the count of the queue never runs ahead of     *)
(* what is in it, and kb_getchar dereferences no NULL, whatever interrupts *)
(* come between the load and the store of size--.                          *)
(***************************************************************************)
THEOREM KeyboardCountNeverAhead ==
  ASSUME MaxAhead <= Capacity PROVE Spec => []CountNeverAhead
<1>1. QueueInv /\ [Next]_vars => QueueInv'
  BY NextQueueInv
<1>2. QueueInv => CountNeverAhead
  BY DEF QueueInv, Counted, CountNeverAhead, W, R
<1> QED
  BY InitQueueInv, <1>1, <1>2, PTL DEF Spec

-----------------------------------------------------------------------------
(***************************************************************************)
(* The modifiers.  Keys and driver take the same steps, the driver later:  *)
(* a history gives the state of the modifiers after each scan code typed,  *)
(* the keyboard is in its last state and the driver in its R-th.           *)
(***************************************************************************)
Modifiers == Shifts \cup Locks

ModStates == [held : SUBSET Modifiers, on : SUBSET Locks]

\* Key k goes down, repeats or comes up.
Turn(on, held, k) == IF k \notin Locks \/ k \in held THEN on
                     ELSE IF k \in on THEN on \ {k} ELSE on \cup {k}

After(m, scan) ==
  IF scan.key \notin Modifiers THEN m
  ELSE IF scan.release THEN [held |-> m.held \ {scan.key}, on |-> m.on]
  ELSE [held |-> m.held \cup {scan.key}, on |-> Turn(m.on, m.held, scan.key)]

History(h, s) ==
  /\ h \in [0..Len(s) -> ModStates]
  /\ \A i \in 0..(Len(s) - 1) : h[i + 1] = After(h[i], s[i + 1])

KeyboardState == [held |-> down \cap Modifiers, on |-> toggled]
DriverState == [held |-> {k \in Modifiers : kb_pressed[k]},
                on |-> {l \in Locks : kb_locks[l]}]

\* The driver follows the keyboard.
Follows == \E h : History(h, typed) /\ h[W] = KeyboardState /\ h[R] = DriverState

ModInv == QueueInv /\ Follows

\* A step of the modifiers leads to a state of the modifiers.
LEMMA AfterType ==
  ASSUME NEW m \in ModStates, NEW scan \in Scans
  PROVE  After(m, scan) \in ModStates
<1>1. m.held \subseteq Modifiers /\ m.on \subseteq Locks
  BY DEF ModStates
<1>2. CASE scan.key \notin Modifiers
  BY <1>2 DEF After
<1>3. CASE scan.key \in Modifiers
  <2>1. Turn(m.on, m.held, scan.key) \subseteq Locks
    BY <1>1 DEF Turn
  <2>2. m.held \ {scan.key} \subseteq Modifiers /\ m.held \cup {scan.key} \subseteq Modifiers
    BY <1>1, <1>3
  <2> HIDE DEF Modifiers
  <2> QED
    BY <1>1, <1>3, <2>1, <2>2 DEF After, ModStates
<1> QED
  BY <1>2, <1>3

\* The state of the keyboard's modifiers is one.
LEMMA KeyboardStateType == TypeOK => KeyboardState \in ModStates
  BY DEF TypeOK, KeyboardState, ModStates

\* Before the first key is pressed, both have nothing pressed and nothing on.
LEMMA InitFollows == Init => Follows
<1> SUFFICES ASSUME Init PROVE Follows
  OBVIOUS
<1> DEFINE m == [held |-> {}, on |-> {}]
           h == [i \in 0..0 |-> m]
<1>1. typed = <<>> /\ read = <<>> /\ W = 0 /\ R = 0
  BY DEF Init, W, R
<1>2. m \in ModStates
  BY DEF ModStates
<1>3. KeyboardState = m
  BY DEF Init, KeyboardState
<1>4. DriverState = m
  <2>1. \A k \in Modifiers : ~kb_pressed[k]
    BY DEF Init, Modifiers, Chars
  <2>2. \A l \in Locks : ~kb_locks[l]
    BY DEF Init
  <2> HIDE DEF Modifiers, Locks
  <2> QED
    BY <2>1, <2>2 DEF DriverState
<1> HIDE DEF m
<1>5. History(h, typed) /\ h[W] = m /\ h[R] = m
  BY <1>1, <1>2 DEF History
<1> QED
  BY <1>3, <1>4, <1>5 DEF Follows

\* A run of the handler: the keyboard takes a step, the driver none.
LEMMA IsrFollows ==
  ASSUME QueueInv, Follows, NEW scan \in Scans, keyboard_isr(scan),
         KeyboardState' = After(KeyboardState, scan)
  PROVE  Follows'
<1>1. PICK h : History(h, typed) /\ h[W] = KeyboardState /\ h[R] = DriverState
  BY DEF Follows
<1>2. /\ typed \in Seq(Scans) /\ W = Len(typed) /\ W \in Nat /\ R \in 0..W
      /\ typed' = Append(typed, scan) /\ W' = W + 1 /\ R' = R
      /\ Len(typed') = W + 1 /\ typed'[W + 1] = scan
      /\ \A i \in 1..W : typed'[i] = typed[i]
  BY DEF keyboard_isr, QueueInv, Behind, W, R, reader
<1>3. DriverState' = DriverState
  BY DEF keyboard_isr, reader, DriverState
<1> DEFINE m == After(KeyboardState, scan)
           g == [i \in 0..(W + 1) |-> IF i = W + 1 THEN m ELSE h[i]]
<1>4. m \in ModStates
  BY AfterType, KeyboardStateType DEF QueueInv
<1>5. h \in [0..W -> ModStates] /\ \A i \in 0..(W - 1) : h[i + 1] = After(h[i], typed[i + 1])
  BY <1>1, <1>2 DEF History
<1>6. g \in [0..(W + 1) -> ModStates] /\ g[W + 1] = m /\ \A i \in 0..W : g[i] = h[i]
  <2> HIDE DEF m
  <2>1. ASSUME NEW i \in 0..(W + 1) PROVE (IF i = W + 1 THEN m ELSE h[i]) \in ModStates
    <3>1. CASE i = W + 1
      BY <1>4, <3>1
    <3>2. CASE i # W + 1
      <4>1. i \in 0..W
        BY <1>2, <3>2
      <4> QED
        BY <1>5, <3>2, <4>1
    <3> QED
      BY <3>1, <3>2
  <2>2. W + 1 \in 0..(W + 1) /\ \A i \in 0..W : i \in 0..(W + 1) /\ i # W + 1
    BY <1>2
  <2> QED
    BY <2>1, <2>2
<1> HIDE DEF g
<1>7. ASSUME NEW i \in 0..W PROVE g[i + 1] = After(g[i], typed'[i + 1])
  <2>1. CASE i = W
    <3>1. g[i + 1] = m /\ typed'[i + 1] = scan /\ g[i] = h[W]
      BY <1>2, <1>6, <2>1
    <3> QED
      BY <1>1, <3>1
  <2>2. CASE i # W
    <3>1. i \in 0..(W - 1) /\ i + 1 \in 0..W /\ i + 1 \in 1..W
      BY <1>2, <2>2
    <3>2. h[i + 1] = After(h[i], typed[i + 1])
      BY <1>5, <3>1
    <3>3. g[i + 1] = h[i + 1] /\ g[i] = h[i] /\ typed'[i + 1] = typed[i + 1]
      BY <1>2, <1>6, <3>1
    <3> HIDE DEF m
    <3> QED
      BY <3>2, <3>3
  <2> QED
    BY <2>1, <2>2
<1>8. History(g, typed')
  <2>1. Len(typed') = W + 1 /\ 0..(Len(typed') - 1) = 0..W
    BY <1>2
  <2>2. \A i \in 0..(Len(typed') - 1) : g[i + 1] = After(g[i], typed'[i + 1])
    BY <1>7, <2>1, Zenon
  <2>3. g \in [0..Len(typed') -> ModStates]
    BY <1>6, <2>1, Zenon
  <2> QED
    BY <2>2, <2>3, Zenon DEF History
<1>9. g[W'] = KeyboardState' /\ g[R'] = DriverState'
  BY <1>1, <1>2, <1>3, <1>6
<1> QED
  BY <1>8, <1>9 DEF Follows

\* What a key does to the modifiers is what its scan code tells.
LEMMA KeyFollows ==
  ASSUME QueueInv, Follows, NEW k \in Keys, Press(k) \/ Repeat(k) \/ Release(k)
  PROVE  Follows'
<1>1. down \subseteq Keys /\ toggled \subseteq Locks /\ Locks \subseteq Modifiers
  BY DEF QueueInv, TypeOK, Modifiers
<1> DEFINE press == [key |-> k, release |-> FALSE]
           release == [key |-> k, release |-> TRUE]
<1>2. press \in Scans /\ release \in Scans
  BY DEF Scans
<1>3. CASE Press(k)
  <2>1. /\ k \notin down /\ down' = down \cup {k} /\ keyboard_isr(press)
        /\ toggled' = IF k \notin Locks THEN toggled
                      ELSE IF k \in toggled THEN toggled \ {k} ELSE toggled \cup {k}
    BY <1>3 DEF Press
  <2>2. CASE k \in Modifiers
    <3>1. down' \cap Modifiers = (down \cap Modifiers) \cup {k}
      BY <2>1, <2>2
    <3>2. toggled' = Turn(toggled, down \cap Modifiers, k)
      BY <2>1 DEF Turn
    <3>3. After(KeyboardState, press)
            = [held |-> (down \cap Modifiers) \cup {k},
               on |-> Turn(toggled, down \cap Modifiers, k)]
      BY <2>2 DEF After, KeyboardState
    <3>4. KeyboardState' = After(KeyboardState, press)
      BY <3>1, <3>2, <3>3 DEF KeyboardState
    <3> QED
      BY <1>2, <2>1, <3>4, IsrFollows
  <2>3. CASE k \notin Modifiers
    <3>1. down' \cap Modifiers = down \cap Modifiers /\ toggled' = toggled
      BY <1>1, <2>1, <2>3
    <3>2. After(KeyboardState, press) = KeyboardState
      BY <2>3 DEF After
    <3>3. KeyboardState' = After(KeyboardState, press)
      BY <3>1, <3>2 DEF KeyboardState
    <3> QED
      BY <1>2, <2>1, <3>3, IsrFollows
  <2> QED
    BY <2>2, <2>3
<1>4. CASE Repeat(k)
  <2>1. k \in down /\ down' = down /\ toggled' = toggled /\ keyboard_isr(press)
    BY <1>4 DEF Repeat
  <2>2. CASE k \in Modifiers
    <3>1. (down \cap Modifiers) \cup {k} = down \cap Modifiers
      BY <2>1, <2>2
    <3>2. Turn(toggled, down \cap Modifiers, k) = toggled
      BY <2>1, <2>2 DEF Turn
    <3>3. After(KeyboardState, press)
            = [held |-> (down \cap Modifiers) \cup {k},
               on |-> Turn(toggled, down \cap Modifiers, k)]
      BY <2>2 DEF After, KeyboardState
    <3>4. KeyboardState' = After(KeyboardState, press)
      BY <2>1, <3>1, <3>2, <3>3 DEF KeyboardState
    <3> QED
      BY <1>2, <2>1, <3>4, IsrFollows
  <2>3. CASE k \notin Modifiers
    <3>1. After(KeyboardState, press) = KeyboardState
      BY <2>3 DEF After
    <3>2. KeyboardState' = After(KeyboardState, press)
      BY <2>1, <3>1 DEF KeyboardState
    <3> QED
      BY <1>2, <2>1, <3>2, IsrFollows
  <2> QED
    BY <2>2, <2>3
<1>5. CASE Release(k)
  <2>1. down' = down \ {k} /\ toggled' = toggled /\ keyboard_isr(release)
    BY <1>5 DEF Release
  <2>2. CASE k \in Modifiers
    <3>1. down' \cap Modifiers = (down \cap Modifiers) \ {k}
      BY <2>1
    <3>2. After(KeyboardState, release) = [held |-> (down \cap Modifiers) \ {k}, on |-> toggled]
      BY <2>2 DEF After, KeyboardState
    <3>3. KeyboardState' = After(KeyboardState, release)
      BY <2>1, <3>1, <3>2 DEF KeyboardState
    <3> QED
      BY <1>2, <2>1, <3>3, IsrFollows
  <2>3. CASE k \notin Modifiers
    <3>1. down' \cap Modifiers = down \cap Modifiers
      BY <2>1, <2>3
    <3>2. After(KeyboardState, release) = KeyboardState
      BY <2>3 DEF After
    <3>3. KeyboardState' = After(KeyboardState, release)
      BY <2>1, <3>1, <3>2 DEF KeyboardState
    <3> QED
      BY <1>2, <2>1, <3>3, IsrFollows
  <2> QED
    BY <2>2, <2>3
<1> QED
  BY <1>3, <1>4, <1>5

(***************************************************************************)
(* What kb_getchar does with a scan code: a modifier has one character in  *)
(* both halves of the layout, so its press and its release change the same *)
(* flag, and no letter changes it.                                         *)
(***************************************************************************)
LEMMA HandleStep ==
  ASSUME QueueInv, HandleEvent, NEW scan \in Scans, scan = cb.buf[head_reg]
  PROVE  DriverState' = After(DriverState, scan)
<1> DEFINE ch == kb_scan2ch(scan.key, kb_pressed, kb_locks)
           k == scan.key
<1>1. k \in Keys /\ scan.release \in BOOLEAN
  BY DEF Scans
<1>2. /\ kb_pressed \in [Chars -> BOOLEAN] /\ kb_locks \in [Locks -> BOOLEAN]
      /\ Modifiers \subseteq Chars /\ Locks \subseteq Modifiers
  BY DEF QueueInv, TypeOK, Chars, Modifiers
<1>3. /\ kb_pressed' = [kb_pressed EXCEPT ![ch] = ~scan.release]
      /\ kb_locks' = [l \in Locks |-> IF l = ch /\ Toggles(scan, ch)
                                        THEN ~kb_locks[l] ELSE kb_locks[l]]
  BY DEF HandleEvent
<1>4. CASE k \in Modifiers
  <2>1. k \notin Letters
    BY <1>4, KeyboardAssumption DEF Modifiers
  <2>2. ch = k
    BY <2>1 DEF kb_scan2ch
  <2> HIDE DEF ch, k
  <2>3. \A x \in Modifiers : kb_pressed'[x] = IF x = k THEN ~scan.release ELSE kb_pressed[x]
    BY <1>2, <1>3, <2>2
  <2>4. \A l \in Locks : kb_locks'[l] = IF l = k /\ Toggles(scan, k)
                                          THEN ~kb_locks[l] ELSE kb_locks[l]
    BY <1>3, <2>2
  <2>5. CASE scan.release
    <3>1. {x \in Modifiers : kb_pressed'[x]} = {x \in Modifiers : kb_pressed[x]} \ {k}
      BY <2>3, <2>5
    <3>2. {l \in Locks : kb_locks'[l]} = {l \in Locks : kb_locks[l]}
      BY <2>4, <2>5 DEF Toggles
    <3> QED
      BY <1>4, <2>5, <3>1, <3>2 DEF After, DriverState, k
  <2>6. CASE ~scan.release
    <3> DEFINE held == {x \in Modifiers : kb_pressed[x]}
               on == {l \in Locks : kb_locks[l]}
    <3>1. {x \in Modifiers : kb_pressed'[x]} = held \cup {k}
      BY <1>4, <2>3, <2>6
    <3>2. {l \in Locks : kb_locks'[l]} = Turn(on, held, k)
      <4>1. Toggles(scan, k) <=> (k \in Locks /\ k \notin held)
        BY <1>4, <2>6 DEF Toggles
      <4> HIDE DEF held
      <4>2. CASE k \in Locks /\ k \notin held
        <5>1. \A l \in Locks : kb_locks'[l] = IF l = k THEN ~kb_locks[l] ELSE kb_locks[l]
          BY <2>4, <4>1, <4>2
        <5> QED
          BY <4>2, <5>1 DEF Turn
      <4>3. CASE k \notin Locks \/ k \in held
        <5>1. \A l \in Locks : kb_locks'[l] = kb_locks[l]
          BY <2>4, <4>1, <4>3
        <5> QED
          BY <4>3, <5>1 DEF Turn
      <4> QED
        BY <4>2, <4>3
    <3>3. DriverState = [held |-> held, on |-> on]
      BY DEF DriverState
    <3> HIDE DEF held, on
    <3>4. After(DriverState, scan) = [held |-> held \cup {k}, on |-> Turn(on, held, k)]
      BY <1>4, <2>6, <3>3 DEF After, k
    <3> QED
      BY <3>1, <3>2, <3>4 DEF DriverState
  <2> QED
    BY <2>5, <2>6
<1>5. CASE k \notin Modifiers
  <2>1. k \in Letters
    BY <1>1, <1>5 DEF Keys, Modifiers
  <2>2. ch \in Letters \X BOOLEAN
    <3>1. (kb_locks[CapsLock] \/ \E s \in Shifts : kb_pressed[s]) \in BOOLEAN
      BY <1>2 DEF Locks
    <3> QED
      BY <2>1, <3>1 DEF kb_scan2ch
  <2>3. ch \notin Modifiers
    BY <2>2, KeyboardAssumption DEF Modifiers
  <2> HIDE DEF ch, k
  <2>4. \A x \in Modifiers : kb_pressed'[x] = kb_pressed[x]
    BY <1>2, <1>3, <2>3
  <2>5. \A l \in Locks : kb_locks'[l] = kb_locks[l]
    BY <1>2, <1>3, <2>3
  <2>6. DriverState' = DriverState
    BY <2>4, <2>5 DEF DriverState
  <2> QED
    BY <1>5, <2>6 DEF After, k
<1> QED
  BY <1>4, <1>5

\* kb_getchar handles a scan code: the driver takes the next step.
LEMMA HandleFollows ==
  ASSUME QueueInv, Follows, HandleEvent
  PROVE  Follows'
<1>1. PICK h : History(h, typed) /\ h[W] = KeyboardState /\ h[R] = DriverState
  BY DEF Follows
<1>2. /\ UNCHANGED <<typed, down, toggled>> /\ W' = W /\ pc = "store" /\ pending = {}
      /\ read' = Append(read, cb.buf[head_reg])
      /\ KeyboardState' = KeyboardState
  BY DEF HandleEvent, device, W, KeyboardState
<1>3. /\ W \in Nat /\ R \in Nat /\ R + 1 <= W /\ head_reg = R % Capacity
  BY <1>2 DEF QueueInv, Behind, W, R, TypeOK, Counted
<1>4. R' = R + 1
  BY <1>2 DEF R, QueueInv, Behind
<1>5. cb.buf[head_reg] = typed[R + 1] /\ typed[R + 1] \in Scans
  <2>1. R \in R..(W - 1) /\ R + 1 \in 1..W
    BY <1>3
  <2> QED
    BY <1>3, <2>1 DEF QueueInv, Queued, Behind, W
<1>6. DriverState' = After(h[R], typed[R + 1])
  BY <1>1, <1>5, HandleStep
<1>7. h[R + 1] = After(h[R], typed[R + 1])
  <2>1. R \in 0..(Len(typed) - 1)
    BY <1>3 DEF W
  <2> QED
    BY <1>1, <2>1 DEF History
<1> QED
  BY <1>1, <1>2, <1>4, <1>6, <1>7 DEF Follows

\* Every step keeps the driver on the keyboard's history.
LEMMA NextModInv == MaxAhead <= Capacity /\ ModInv /\ [Next]_vars => ModInv'
<1> SUFFICES ASSUME MaxAhead <= Capacity, ModInv, [Next]_vars PROVE ModInv'
  OBVIOUS
<1> USE DEF ModInv
<1>1. QueueInv'
  BY NextQueueInv
<1>2. CASE \E k \in Keys : Press(k) \/ Repeat(k) \/ Release(k)
  BY <1>1, <1>2, KeyFollows
<1>3. CASE HandleEvent
  BY <1>1, <1>3, HandleFollows
<1>4. CASE Poll \/ LoadSize \/ LoadHead \/ StoreHead \/ StoreSize \/ UNCHANGED vars
  <2>1. UNCHANGED <<typed, read, down, toggled, kb_pressed, kb_locks>>
    BY <1>4 DEF Poll, LoadSize, LoadHead, StoreHead, StoreSize, vars, device
  <2>2. /\ W' = W /\ R' = R /\ KeyboardState' = KeyboardState
        /\ DriverState' = DriverState /\ typed' = typed
    BY <2>1 DEF W, R, KeyboardState, DriverState
  <2> QED
    BY <1>1, <2>2 DEF Follows
<1> QED
  BY <1>2, <1>3, <1>4 DEF Next, kb_getchar

(***************************************************************************)
(* For a queue and a keyboard of any size: as long as the typist is at     *)
(* most a queue ahead, a driver that has read all that was typed agrees    *)
(* with the keyboard on which shift and lock keys are down and which locks *)
(* are on, whatever repeats and changes of shift came in between.          *)
(***************************************************************************)
THEOREM KeyboardModifiersTrackKeys ==
  ASSUME MaxAhead <= Capacity PROVE Spec => []ModifiersTrackKeys
<1>1. Init => ModInv
  BY InitQueueInv, InitFollows DEF ModInv
<1>2. ModInv /\ [Next]_vars => ModInv'
  BY NextModInv
<1>3. ModInv => ModifiersTrackKeys
  <2> SUFFICES ASSUME ModInv, R = W PROVE ModifiersTrackKeys
    BY DEF ModifiersTrackKeys, R, W
  <2>1. KeyboardState = DriverState
    BY DEF ModInv, Follows
  <2>2. /\ down \cap Modifiers = {k \in Modifiers : kb_pressed[k]}
        /\ toggled = {l \in Locks : kb_locks[l]}
    BY <2>1 DEF KeyboardState, DriverState
  <2>3. \A k \in Modifiers : kb_pressed[k] <=> k \in down
    BY <2>2
  <2>4. \A l \in Locks : kb_locks[l] <=> l \in toggled
    BY <2>2
  <2> QED
    BY <2>3, <2>4 DEF ModifiersTrackKeys, Modifiers
<1> QED
  BY <1>1, <1>2, <1>3, PTL DEF Spec

-----------------------------------------------------------------------------
(***************************************************************************)
(* The circular buffer, as the keyboard, the terminal and the shell use it *)
(***************************************************************************)
\* The slot i places after slot h.
At(h, i) == (h + i) % Capacity

\* A remainder after at most one turn.
LEMMA OneTurn ==
  ASSUME NEW c \in Nat \ {0}, NEW x \in 0..(c - 1), NEW y \in 0..c
  PROVE  (x + y) % c = IF x + y < c THEN x + y ELSE x + y - c
<1> DEFINE a == x + y
<1>1. a \in 0..(2 * c - 1)
  OBVIOUS
<1> SUFFICES a % c = IF a < c THEN a ELSE a - c
  OBVIOUS
<1> HIDE DEF a
<1>2. CASE a < c
  BY <1>1, <1>2
<1>3. CASE ~(a < c)
  <2>1. a - c \in 0..(c - 1) /\ 1 \in Nat /\ a = c * 1 + (a - c)
    BY <1>1, <1>3
  <2>2. a % c = a - c
    BY <2>1, RemainderUnique
  <2> QED
    BY <1>3, <2>2
<1> QED
  BY <1>2, <1>3

LEMMA AtIs ==
  ASSUME NEW h \in Slots, NEW i \in 0..Capacity
  PROVE  /\ At(h, i) \in Slots
         /\ At(h, i) = IF h + i < Capacity THEN h + i ELSE h + i - Capacity
<1>1. Capacity \in Nat \ {0} /\ h \in 0..(Capacity - 1)
  BY CapacityAssumption DEF Slots
<1>2. At(h, i) = (h + i) % Capacity
  BY Zenon DEF At
<1>3. At(h, i) = IF h + i < Capacity THEN h + i ELSE h + i - Capacity
  BY <1>1, <1>2, OneTurn
<1> QED
  BY <1>1, <1>3 DEF Slots

\* The same with the two branches named, for any numbers.
Wrap(c, h, i) == IF h + i < c THEN h + i ELSE h + i - c

Before(c, h, p) == /\ p \in 0..(c - 1)
                   /\ p = IF h = 0 THEN c - 1 ELSE h - 1

LEMMA WrapBack ==
  ASSUME NEW c \in Nat \ {0}, NEW h \in 0..(c - 1), NEW i \in 0..(c - 1), NEW p,
         Before(c, h, p)
  PROVE  /\ Wrap(c, p, i + 1) = Wrap(c, h, i)
         /\ i < c - 1 => Wrap(c, h, i) # p
  BY DEF Wrap, Before

LEMMA WrapOn ==
  ASSUME NEW c \in Nat \ {0}, NEW h \in 0..(c - 1), NEW i \in 1..c, NEW n,
         n = IF h = c - 1 THEN 0 ELSE h + 1
  PROVE  Wrap(c, n, i - 1) = Wrap(c, h, i)
  BY DEF Wrap

\* One element more, and one less, from the same head on.
LEMMA WrapLonger ==
  ASSUME NEW c \in Nat \ {0}, NEW h \in 0..(c - 1), NEW i \in 0..(c - 1), NEW t \in 0..(c - 1),
         t = Wrap(c, h, i)
  PROVE  (IF t = c - 1 THEN 0 ELSE t + 1) = Wrap(c, h, i + 1)
  BY DEF Wrap

LEMMA WrapShorter ==
  ASSUME NEW c \in Nat \ {0}, NEW h \in 0..(c - 1), NEW i \in 1..c, NEW t \in 0..(c - 1),
         t = Wrap(c, h, i)
  PROVE  (IF t = 0 THEN c - 1 ELSE t - 1) = Wrap(c, h, i - 1)
  BY DEF Wrap

\* The steps of head and tail.
LEMMA Steps ==
  ASSUME NEW h \in Slots
  PROVE  /\ Increment(h) = At(h, 1) /\ Decrement(h) = At(h, Capacity - 1)
         /\ Increment(h) = IF h = Capacity - 1 THEN 0 ELSE h + 1
         /\ Decrement(h) = IF h = 0 THEN Capacity - 1 ELSE h - 1
         /\ Increment(h) \in Slots /\ Decrement(h) \in Slots
<1>1. Capacity \in Nat \ {0} /\ h \in 0..(Capacity - 1)
  BY CapacityAssumption DEF Slots
<1>2. 1 \in 0..Capacity /\ Capacity - 1 \in 0..Capacity
  BY <1>1
<1>3. Increment(h) = At(h, 1)
  BY DEF Increment, At
<1>4. Decrement(h) = At(h, Capacity - 1)
  <2>1. h + Capacity - 1 = h + (Capacity - 1)
    BY <1>1
  <2> QED
    BY <2>1, Zenon DEF Decrement, At
<1>5. /\ At(h, 1) \in Slots
      /\ At(h, 1) = IF h + 1 < Capacity THEN h + 1 ELSE h + 1 - Capacity
  BY <1>2, AtIs
<1>6. /\ At(h, Capacity - 1) \in Slots
      /\ At(h, Capacity - 1) = IF h + (Capacity - 1) < Capacity THEN h + (Capacity - 1)
                               ELSE h + (Capacity - 1) - Capacity
  BY <1>2, AtIs
<1> QED
  BY <1>1, <1>3, <1>4, <1>5, <1>6

\* Buffers of values in V; the tail is the slot behind the last element.
Buffers(V) == [buf : [Slots -> V], head : Slots, tail : Slots, size : 0..Capacity]
Formed(rb, V) == rb \in Buffers(V) /\ rb.tail = At(rb.head, rb.size)

\* What a buffer holds, from the head on.
Items(rb) == [i \in 1..rb.size |-> rb.buf[circ_buf_peekn_head(rb, i - 1)]]

LEMMA ItemsAre ==
  ASSUME NEW V, NEW rb \in Buffers(V)
  PROVE  /\ rb.size \in 0..Capacity /\ rb.head \in Slots /\ rb.tail \in Slots
         /\ rb.buf \in [Slots -> V] /\ Capacity \in Nat \ {0}
         /\ Items(rb) \in Seq(V) /\ Len(Items(rb)) = rb.size
         /\ \A i \in 1..rb.size : Items(rb)[i] = rb.buf[At(rb.head, i - 1)]
<1>1. /\ rb.size \in 0..Capacity /\ rb.head \in Slots /\ rb.tail \in Slots
      /\ rb.buf \in [Slots -> V] /\ Capacity \in Nat \ {0}
  BY CapacityAssumption DEF Buffers
<1>2. Items(rb) = [i \in 1..rb.size |-> rb.buf[At(rb.head, i - 1)]]
  BY DEF Items, circ_buf_peekn_head, At
<1>3. ASSUME NEW i \in 1..rb.size PROVE rb.buf[At(rb.head, i - 1)] \in V
  <2>1. i - 1 \in 0..Capacity
    BY <1>1
  <2> QED
    BY <1>1, <2>1, AtIs
<1>4. Items(rb) \in [1..rb.size -> V]
  BY <1>2, <1>3
<1>5. Items(rb) \in Seq(V) /\ Len(Items(rb)) = rb.size
  BY <1>1, <1>4
<1> QED
  BY <1>1, <1>2, <1>5

\* Sequences with the same elements are the same.
LEMMA SameItems ==
  ASSUME NEW V, NEW s \in Seq(V), NEW u \in Seq(V), Len(s) = Len(u),
         \A i \in 1..Len(s) : s[i] = u[i]
  PROVE  s = u
  BY SeqEqual

\* circ_buf_enqueue_tail: the first element goes when there is no room.
LEMMA EnqueueTail ==
  ASSUME NEW V, NEW rb, Formed(rb, V), NEW v \in V
  PROVE  LET e == circ_buf_enqueue_tail(rb, v)
         IN  /\ Formed(e, V)
             /\ Items(e) = Append(IF rb.size = Capacity THEN Tail(Items(rb)) ELSE Items(rb), v)
<1> DEFINE e == circ_buf_enqueue_tail(rb, v)
           full == rb.size = Capacity
           rest == IF full THEN Tail(Items(rb)) ELSE Items(rb)
<1>1. /\ rb.size \in 0..Capacity /\ rb.head \in Slots /\ rb.tail \in Slots
      /\ rb.buf \in [Slots -> V] /\ Capacity \in Nat \ {0}
      /\ Items(rb) \in Seq(V) /\ Len(Items(rb)) = rb.size
      /\ \A i \in 1..rb.size : Items(rb)[i] = rb.buf[At(rb.head, i - 1)]
      /\ rb.tail = At(rb.head, rb.size)
  BY ItemsAre DEF Formed
<1>2. /\ e.buf = [rb.buf EXCEPT ![rb.tail] = v]
      /\ e.tail = Increment(rb.tail)
      /\ e.size = IF full THEN rb.size ELSE rb.size + 1
      /\ e.head = IF full THEN Increment(rb.head) ELSE rb.head
      /\ e \in Buffers(V)
  <2>1. /\ Increment(rb.tail) \in Slots /\ Increment(rb.head) \in Slots
        /\ [rb.buf EXCEPT ![rb.tail] = v] \in [Slots -> V]
        /\ rb.size < Capacity <=> ~full
    BY <1>1, Steps
  <2>2. e = [rb EXCEPT !.buf = [rb.buf EXCEPT ![rb.tail] = v], !.tail = Increment(rb.tail),
                       !.size = IF full THEN rb.size ELSE rb.size + 1,
                       !.head = IF full THEN Increment(rb.head) ELSE rb.head]
    BY <2>1 DEF circ_buf_enqueue_tail
  <2>3. rb \in Buffers(V)
    BY DEF Formed
  <2>4. (IF full THEN rb.size ELSE rb.size + 1) \in 0..Capacity
    BY <1>1
  <2> HIDE DEF e
  <2> QED
    BY <2>1, <2>2, <2>3, <2>4 DEF Buffers
<1> HIDE DEF e
<1>3. Formed(e, V)
  <2>1. e.tail = At(e.head, e.size)
    <3>1. At(rb.head, rb.size) = IF rb.head + rb.size < Capacity THEN rb.head + rb.size
                                 ELSE rb.head + rb.size - Capacity
      BY <1>1, AtIs
    <3>2. At(e.head, e.size) = IF e.head + e.size < Capacity THEN e.head + e.size
                               ELSE e.head + e.size - Capacity
      BY <1>2, AtIs DEF Buffers
    <3>3. /\ Increment(rb.tail) = IF rb.tail = Capacity - 1 THEN 0 ELSE rb.tail + 1
          /\ Increment(rb.head) = IF rb.head = Capacity - 1 THEN 0 ELSE rb.head + 1
      BY <1>1, Steps
    <3>4. rb.head \in 0..(Capacity - 1) /\ rb.tail \in 0..(Capacity - 1)
      BY <1>1 DEF Slots
    <3>5. CASE full
      <4>1. e.head = Increment(rb.head) /\ e.size = Capacity /\ e.tail = Increment(rb.tail)
        BY <1>1, <1>2, <3>5
      <4>2. rb.tail = rb.head
        BY <1>1, <3>1, <3>4, <3>5
      <4> QED
        BY <1>1, <3>2, <3>3, <3>4, <4>1, <4>2
    <3>6. CASE ~full
      <4>1. e.head = rb.head /\ e.size = rb.size + 1 /\ e.tail = Increment(rb.tail)
        BY <1>1, <1>2, <3>6
      <4>2. rb.size \in 0..(Capacity - 1) /\ rb.tail = Wrap(Capacity, rb.head, rb.size)
        BY <1>1, <3>1, <3>6 DEF Wrap
      <4>3. e.tail = Wrap(Capacity, rb.head, rb.size + 1)
        BY <1>1, <3>3, <3>4, <4>1, <4>2, WrapLonger
      <4>4. At(e.head, e.size) = Wrap(Capacity, rb.head, rb.size + 1)
        BY <3>2, <4>1 DEF Wrap
      <4> QED
        BY <4>3, <4>4
    <3> QED
      BY <3>5, <3>6
  <2> QED
    BY <1>2, <2>1 DEF Formed
<1>4. /\ rest \in Seq(V) /\ Len(rest) = IF full THEN rb.size - 1 ELSE rb.size
      /\ \A i \in 1..Len(rest) : rest[i] = Items(rb)[IF full THEN i + 1 ELSE i]
  <2>1. CASE full
    <3>1. Items(rb) # <<>>
      BY <1>1, <2>1
    <3> QED
      BY <1>1, <2>1, <3>1, HeadTailProperties
  <2>2. CASE ~full
    BY <1>1, <2>2
  <2> QED
    BY <2>1, <2>2
<1> HIDE DEF rest
<1>5. /\ Append(rest, v) \in Seq(V) /\ Len(Append(rest, v)) = Len(rest) + 1
      /\ \A i \in 1..Len(rest) : Append(rest, v)[i] = rest[i]
      /\ Append(rest, v)[Len(rest) + 1] = v
  BY <1>4, AppendProperties
<1>6. /\ Items(e) \in Seq(V) /\ Len(Items(e)) = e.size
      /\ \A i \in 1..e.size : Items(e)[i] = e.buf[At(e.head, i - 1)]
  <2>1. e \in Buffers(V)
    BY <1>2
  <2> QED
    BY <2>1, ItemsAre
<1>7. Len(rest) \in Nat /\ e.size = Len(rest) + 1 /\ e.size \in 1..Capacity
  BY <1>1, <1>2, <1>4
<1>8. ASSUME NEW i \in 1..e.size PROVE Items(e)[i] = Append(rest, v)[i]
  <2>1. i - 1 \in 0..Capacity /\ e.head \in Slots
    BY <1>1, <1>2, <1>7 DEF Buffers
  <2>2. At(e.head, i - 1) = IF e.head + (i - 1) < Capacity THEN e.head + (i - 1)
                            ELSE e.head + (i - 1) - Capacity
    BY <2>1, AtIs
  <2>3. rb.tail = IF rb.head + rb.size < Capacity THEN rb.head + rb.size
                  ELSE rb.head + rb.size - Capacity
    BY <1>1, AtIs
  <2>4. Increment(rb.head) = IF rb.head = Capacity - 1 THEN 0 ELSE rb.head + 1
    BY <1>1, Steps
  <2>5. CASE i = e.size
    <3>1. At(e.head, i - 1) = rb.tail
      <4>1. rb.head \in 0..(Capacity - 1)
        BY <1>1 DEF Slots
      <4>2. At(e.head, i - 1) = Wrap(Capacity, e.head, i - 1)
            /\ rb.tail = Wrap(Capacity, rb.head, rb.size)
        BY <2>2, <2>3 DEF Wrap
      <4>3. CASE full
        <5>1. e.head = Increment(rb.head) /\ i - 1 = rb.size - 1 /\ rb.size \in 1..Capacity
          BY <1>1, <1>2, <2>5, <4>3
        <5>2. Wrap(Capacity, Increment(rb.head), rb.size - 1) = Wrap(Capacity, rb.head, rb.size)
          BY <2>4, <4>1, <5>1, CapacityAssumption, WrapOn
        <5> QED
          BY <4>2, <5>1, <5>2
      <4>4. CASE ~full
        <5>1. e.head = rb.head /\ i - 1 = rb.size
          BY <1>1, <1>2, <2>5, <4>4
        <5> QED
          BY <4>2, <5>1
      <4> QED
        BY <4>3, <4>4
    <3>2. Items(e)[i] = v
      BY <1>1, <1>2, <1>6, <3>1
    <3> QED
      BY <1>5, <1>7, <2>5, <3>2
  <2>6. CASE i # e.size
    <3>1. i \in 1..Len(rest)
      BY <1>7, <2>6
    <3> DEFINE j == IF full THEN i + 1 ELSE i
    <3>2. j \in 1..rb.size /\ j - 1 \in 0..Capacity
      BY <1>1, <1>4, <3>1
    <3>3. At(rb.head, j - 1) \in Slots
          /\ At(rb.head, j - 1) = IF rb.head + (j - 1) < Capacity THEN rb.head + (j - 1)
                                  ELSE rb.head + (j - 1) - Capacity
      BY <1>1, <3>2, AtIs
    <3>4. At(e.head, i - 1) = At(rb.head, j - 1) /\ At(rb.head, j - 1) # rb.tail
      <4>1. rb.head \in 0..(Capacity - 1)
        BY <1>1 DEF Slots
      <4>2. CASE full
        <5>1. e.head = Increment(rb.head) /\ rb.tail = rb.head /\ j = i + 1
              /\ rb.size = Capacity
          BY <1>1, <1>2, <2>3, <4>1, <4>2
        <5> HIDE DEF j
        <5> QED
          BY <1>1, <2>2, <2>4, <3>2, <3>3, <4>1, <5>1
      <4>3. CASE ~full
        <5>1. e.head = rb.head /\ j = i
          BY <1>2, <4>3
        <5> HIDE DEF j
        <5> QED
          BY <1>1, <2>2, <2>3, <3>2, <3>3, <4>1, <4>3, <5>1
      <4> QED
        BY <4>2, <4>3
    <3>5. Items(e)[i] = Items(rb)[j]
      <4> HIDE DEF j
      <4> QED
        BY <1>1, <1>2, <1>6, <3>2, <3>3, <3>4
    <3> QED
      BY <1>4, <1>5, <3>1, <3>5
  <2> QED
    BY <2>5, <2>6
<1>9. Items(e) = Append(rest, v)
  BY <1>5, <1>6, <1>7, <1>8, SameItems
<1> QED
  BY <1>3, <1>9 DEF e, rest

\* What Front leaves.
LEMMA FrontOf ==
  ASSUME NEW V, NEW s \in Seq(V), Len(s) > 0
  PROVE  /\ Front(s) \in Seq(V) /\ Len(Front(s)) = Len(s) - 1
         /\ \A i \in 1..(Len(s) - 1) : Front(s)[i] = s[i]
<1> DEFINE n == Len(s) - 1
<1>1. n \in Nat /\ \A i \in 1..n : s[i] \in V
  OBVIOUS
<1>2. Front(s) = SubSeq(s, 1, n)
  BY DEF Front
<1> HIDE DEF n
<1>3. /\ SubSeq(s, 1, n) \in Seq(V)
      /\ Len(SubSeq(s, 1, n)) = IF 1 <= n THEN n - 1 + 1 ELSE 0
      /\ \A i \in 1..(n - 1 + 1) : SubSeq(s, 1, n)[i] = s[1 + i - 1]
  BY <1>1, SubSeqProperties
<1>4. Len(SubSeq(s, 1, n)) = n /\ \A i \in 1..n : SubSeq(s, 1, n)[i] = s[i]
  BY <1>1, <1>3
<1> QED
  BY <1>2, <1>3, <1>4 DEF n

\* circ_buf_enqueue_head: the last element goes when there is no room.
LEMMA EnqueueHead ==
  ASSUME NEW V, NEW rb, Formed(rb, V), NEW v \in V
  PROVE  LET e == circ_buf_enqueue_head(rb, v)
         IN  /\ Formed(e, V)
             /\ Items(e) = <<v>> \o (IF rb.size = Capacity THEN Front(Items(rb)) ELSE Items(rb))
<1> DEFINE e == circ_buf_enqueue_head(rb, v)
           full == rb.size = Capacity
           rest == IF full THEN Front(Items(rb)) ELSE Items(rb)
<1>1. /\ rb.size \in 0..Capacity /\ rb.head \in Slots /\ rb.tail \in Slots
      /\ rb.buf \in [Slots -> V] /\ Capacity \in Nat \ {0}
      /\ Items(rb) \in Seq(V) /\ Len(Items(rb)) = rb.size
      /\ \A i \in 1..rb.size : Items(rb)[i] = rb.buf[At(rb.head, i - 1)]
      /\ rb.tail = At(rb.head, rb.size)
      /\ rb.head \in 0..(Capacity - 1) /\ rb.tail \in 0..(Capacity - 1)
  BY ItemsAre DEF Formed, Slots
<1> DEFINE h == Decrement(rb.head)
<1>2. /\ e.buf = [rb.buf EXCEPT ![h] = v]
      /\ e.head = h
      /\ e.size = IF full THEN rb.size ELSE rb.size + 1
      /\ e.tail = IF full THEN Decrement(rb.tail) ELSE rb.tail
      /\ e \in Buffers(V)
  <2>1. /\ Decrement(rb.tail) \in Slots /\ h \in Slots
        /\ [rb.buf EXCEPT ![h] = v] \in [Slots -> V]
        /\ rb.size < Capacity <=> ~full
    BY <1>1, Steps
  <2>2. e = [rb EXCEPT !.head = h, !.buf = [rb.buf EXCEPT ![h] = v],
                       !.size = IF full THEN rb.size ELSE rb.size + 1,
                       !.tail = IF full THEN Decrement(rb.tail) ELSE rb.tail]
    BY <2>1 DEF circ_buf_enqueue_head
  <2>3. rb \in Buffers(V)
    BY DEF Formed
  <2>4. (IF full THEN rb.size ELSE rb.size + 1) \in 0..Capacity
    BY <1>1
  <2> HIDE DEF e, h
  <2> QED
    BY <2>1, <2>2, <2>3, <2>4 DEF Buffers
<1>3. h = IF rb.head = 0 THEN Capacity - 1 ELSE rb.head - 1
  BY <1>1, Steps
<1> HIDE DEF e, h
<1>3a. Before(Capacity, rb.head, h)
  BY <1>1, <1>3 DEF Before
<1>4. rb.tail = IF rb.head + rb.size < Capacity THEN rb.head + rb.size
                ELSE rb.head + rb.size - Capacity
  BY <1>1, AtIs
<1>5. Formed(e, V)
  <2>1. At(e.head, e.size) = IF e.head + e.size < Capacity THEN e.head + e.size
                             ELSE e.head + e.size - Capacity
    BY <1>2, AtIs DEF Buffers
  <2>2. Decrement(rb.tail) = IF rb.tail = 0 THEN Capacity - 1 ELSE rb.tail - 1
    BY <1>1, Steps
  <2>3. CASE full
    <3>1. e.tail = Decrement(rb.tail) /\ e.size = Capacity /\ e.head = h /\ rb.tail = rb.head
      BY <1>1, <1>2, <1>4, <2>3
    <3>2. e.tail = At(e.head, e.size)
      BY <1>1, <1>3, <2>1, <2>2, <3>1
    <3> QED
      BY <1>2, <3>2 DEF Formed
  <2>4. CASE ~full
    <3>1. e.tail = rb.tail /\ e.size = rb.size + 1 /\ e.head = h
      BY <1>1, <1>2, <2>4
    <3>2. e.tail = At(e.head, e.size)
      <4>1. rb.size \in 0..(Capacity - 1)
        BY <1>1, <2>4
      <4>2. Wrap(Capacity, h, rb.size + 1) = Wrap(Capacity, rb.head, rb.size)
        BY <1>1, <1>3a, <4>1, WrapBack
      <4>3. rb.tail = Wrap(Capacity, rb.head, rb.size)
        BY <1>4 DEF Wrap
      <4>4. At(e.head, e.size) = Wrap(Capacity, h, rb.size + 1)
        BY <2>1, <3>1 DEF Wrap
      <4> QED
        BY <3>1, <4>2, <4>3, <4>4
    <3> QED
      BY <1>2, <3>2 DEF Formed
  <2> QED
    BY <2>3, <2>4
<1>6. /\ rest \in Seq(V) /\ Len(rest) = IF full THEN rb.size - 1 ELSE rb.size
      /\ \A i \in 1..Len(rest) : rest[i] = Items(rb)[i]
  <2>1. CASE full
    <3>1. Len(Items(rb)) > 0
      BY <1>1, <2>1
    <3> QED
      BY <1>1, <2>1, <3>1, FrontOf
  <2>2. CASE ~full
    BY <1>1, <2>2
  <2> QED
    BY <2>1, <2>2
<1> HIDE DEF rest
<1>7. /\ <<v>> \o rest \in Seq(V) /\ Len(<<v>> \o rest) = Len(rest) + 1
      /\ (<<v>> \o rest)[1] = v
      /\ \A i \in 2..(Len(rest) + 1) : (<<v>> \o rest)[i] = rest[i - 1]
  <2>1. <<v>> \in Seq(V) /\ Len(<<v>>) = 1 /\ <<v>>[1] = v /\ Len(rest) \in Nat
    BY <1>6
  <2>2. /\ <<v>> \o rest \in Seq(V)
        /\ Len(<<v>> \o rest) = Len(<<v>>) + Len(rest)
        /\ \A i \in 1..(Len(<<v>>) + Len(rest)) :
             (<<v>> \o rest)[i] = IF i <= Len(<<v>>) THEN <<v>>[i] ELSE rest[i - Len(<<v>>)]
    BY <1>6, <2>1, ConcatProperties
  <2> QED
    BY <2>1, <2>2
<1>8. /\ Items(e) \in Seq(V) /\ Len(Items(e)) = e.size
      /\ \A i \in 1..e.size : Items(e)[i] = e.buf[At(e.head, i - 1)]
  <2>1. e \in Buffers(V)
    BY <1>2
  <2> QED
    BY <2>1, ItemsAre
<1>9. Len(rest) \in Nat /\ e.size = Len(rest) + 1 /\ e.size \in 1..Capacity
  BY <1>1, <1>2, <1>6
<1>10. ASSUME NEW i \in 1..e.size PROVE Items(e)[i] = (<<v>> \o rest)[i]
  <2>1. i - 1 \in 0..Capacity /\ h \in Slots
    BY <1>1, <1>2, <1>9 DEF Buffers
  <2>2. At(h, i - 1) = IF h + (i - 1) < Capacity THEN h + (i - 1) ELSE h + (i - 1) - Capacity
    BY <2>1, AtIs
  <2>3. Items(e)[i] = e.buf[At(h, i - 1)]
    BY <1>2, <1>8
  <2>4. CASE i = 1
    <3>1. At(h, i - 1) = h
      BY <1>1, <1>3, <2>2, <2>4
    <3> QED
      BY <1>1, <1>2, <1>7, <2>1, <2>3, <2>4, <3>1
  <2>5. CASE i # 1
    <3> DEFINE j == i - 1
    <3>1. j \in 1..Len(rest) /\ j \in 1..rb.size /\ j - 1 \in 0..Capacity /\ i = j + 1
      BY <1>1, <1>6, <1>9, <2>5
    <3> HIDE DEF j
    <3>2. /\ At(rb.head, j - 1) \in Slots
          /\ At(rb.head, j - 1) = IF rb.head + (j - 1) < Capacity THEN rb.head + (j - 1)
                                  ELSE rb.head + (j - 1) - Capacity
      BY <1>1, <3>1, AtIs
    <3>3. j < Capacity
      BY <1>1, <1>9, <3>1
    <3>4. At(h, i - 1) = At(rb.head, j - 1) /\ At(rb.head, j - 1) # h
      <4>1. j - 1 \in 0..(Capacity - 1) /\ j - 1 < Capacity - 1 /\ i - 1 = (j - 1) + 1
        BY <1>1, <3>1, <3>3
      <4>2. /\ Wrap(Capacity, h, (j - 1) + 1) = Wrap(Capacity, rb.head, j - 1)
            /\ Wrap(Capacity, rb.head, j - 1) # h
        BY <1>1, <1>3a, <4>1, WrapBack
      <4>3. At(rb.head, j - 1) = Wrap(Capacity, rb.head, j - 1)
        BY <3>2 DEF Wrap
      <4>4. At(h, i - 1) = Wrap(Capacity, h, i - 1)
        BY <2>2 DEF Wrap
      <4> QED
        BY <4>1, <4>2, <4>3, <4>4
    <3>5. Items(e)[i] = Items(rb)[j]
      BY <1>1, <1>2, <2>3, <3>1, <3>2, <3>4
    <3>6. (<<v>> \o rest)[i] = rest[j]
      BY <1>7, <1>9, <3>1
    <3> QED
      BY <1>6, <3>1, <3>5, <3>6
  <2> QED
    BY <2>4, <2>5
<1>11. Items(e) = <<v>> \o rest
  BY <1>7, <1>8, <1>9, <1>10, SameItems
<1> QED
  BY <1>5, <1>11 DEF e, rest

\* circ_buf_dequeue takes the first element, circ_buf_dequeue_tail the last.
LEMMA Dequeues ==
  ASSUME NEW V, NEW rb, Formed(rb, V), rb.size > 0
  PROVE  LET d == circ_buf_dequeue_head(rb)
             l == circ_buf_dequeue_tail(rb)
         IN  /\ Formed(d, V) /\ Items(d) = Tail(Items(rb))
             /\ Formed(l, V) /\ Items(l) = Front(Items(rb))
<1> DEFINE d == circ_buf_dequeue_head(rb)
           l == circ_buf_dequeue_tail(rb)
<1>1. /\ rb.size \in 1..Capacity /\ rb.head \in Slots /\ rb.tail \in Slots
      /\ rb.buf \in [Slots -> V] /\ Capacity \in Nat \ {0}
      /\ Items(rb) \in Seq(V) /\ Len(Items(rb)) = rb.size
      /\ \A i \in 1..rb.size : Items(rb)[i] = rb.buf[At(rb.head, i - 1)]
      /\ rb.tail = At(rb.head, rb.size)
      /\ rb.head \in 0..(Capacity - 1) /\ rb.tail \in 0..(Capacity - 1)
  BY ItemsAre DEF Formed, Slots
<1>2. /\ Increment(rb.head) = IF rb.head = Capacity - 1 THEN 0 ELSE rb.head + 1
      /\ Decrement(rb.tail) = IF rb.tail = 0 THEN Capacity - 1 ELSE rb.tail - 1
      /\ Increment(rb.head) \in Slots /\ Decrement(rb.tail) \in Slots
  BY <1>1, Steps
<1>3. /\ d.buf = rb.buf /\ d.head = Increment(rb.head) /\ d.tail = rb.tail
      /\ d.size = rb.size - 1 /\ d \in Buffers(V)
  <2>1. rb \in Buffers(V) /\ rb.size - 1 \in 0..Capacity
    BY <1>1 DEF Formed
  <2> QED
    BY <1>2, <2>1 DEF circ_buf_dequeue_head, Buffers
<1>4. /\ l.buf = rb.buf /\ l.head = rb.head /\ l.tail = Decrement(rb.tail)
      /\ l.size = rb.size - 1 /\ l \in Buffers(V)
  <2>1. rb \in Buffers(V) /\ rb.size - 1 \in 0..Capacity
    BY <1>1 DEF Formed
  <2> QED
    BY <1>2, <2>1 DEF circ_buf_dequeue_tail, Buffers
<1> HIDE DEF d, l
<1>5. rb.tail = Wrap(Capacity, rb.head, rb.size)
  <2>1. rb.head \in Slots /\ rb.size \in 0..Capacity
    BY <1>1
  <2>2. At(rb.head, rb.size) = Wrap(Capacity, rb.head, rb.size)
    BY <2>1, AtIs DEF Wrap
  <2> QED
    BY <1>1, <2>2
<1>6. Formed(d, V) /\ Formed(l, V)
  <2>1. rb.size - 1 \in 0..Capacity
    BY <1>1
  <2>2. At(d.head, d.size) = IF d.head + d.size < Capacity THEN d.head + d.size
                             ELSE d.head + d.size - Capacity
    BY <1>2, <1>3, <2>1, AtIs
  <2>3. At(l.head, l.size) = IF l.head + l.size < Capacity THEN l.head + l.size
                             ELSE l.head + l.size - Capacity
    BY <1>1, <1>4, <2>1, AtIs
  <2>4. d.tail = At(d.head, d.size)
    <3>1. rb.size \in 1..Capacity
      BY <1>1
    <3>2. Wrap(Capacity, Increment(rb.head), rb.size - 1) = Wrap(Capacity, rb.head, rb.size)
      BY <1>1, <1>2, <3>1, WrapOn
    <3>3. d.tail = Wrap(Capacity, rb.head, rb.size)
      BY <1>3, <1>5
    <3>4. At(d.head, d.size) = Wrap(Capacity, Increment(rb.head), rb.size - 1)
      BY <1>3, <2>2 DEF Wrap
    <3> QED
      BY <3>2, <3>3, <3>4
  <2>5. l.tail = At(l.head, l.size)
    <3>1. rb.size \in 1..Capacity
      BY <1>1
    <3>2. Decrement(rb.tail) = Wrap(Capacity, rb.head, rb.size - 1)
      BY <1>1, <1>2, <1>5, <3>1, WrapShorter
    <3>3. At(l.head, l.size) = Wrap(Capacity, rb.head, rb.size - 1)
      BY <1>4, <2>3 DEF Wrap
    <3> QED
      BY <1>4, <3>2, <3>3
  <2> QED
    BY <1>3, <1>4, <2>4, <2>5 DEF Formed
<1>7. /\ Tail(Items(rb)) \in Seq(V) /\ Len(Tail(Items(rb))) = rb.size - 1
      /\ \A i \in 1..(rb.size - 1) : Tail(Items(rb))[i] = Items(rb)[i + 1]
  <2>1. Items(rb) # <<>>
    BY <1>1
  <2> QED
    BY <1>1, <2>1, HeadTailProperties
<1>8. /\ Front(Items(rb)) \in Seq(V) /\ Len(Front(Items(rb))) = rb.size - 1
      /\ \A i \in 1..(rb.size - 1) : Front(Items(rb))[i] = Items(rb)[i]
  BY <1>1, FrontOf
<1>9. /\ Items(d) \in Seq(V) /\ Len(Items(d)) = rb.size - 1
      /\ \A i \in 1..(rb.size - 1) : Items(d)[i] = rb.buf[At(Increment(rb.head), i - 1)]
  BY <1>3, ItemsAre
<1>10. /\ Items(l) \in Seq(V) /\ Len(Items(l)) = rb.size - 1
       /\ \A i \in 1..(rb.size - 1) : Items(l)[i] = rb.buf[At(rb.head, i - 1)]
  BY <1>4, ItemsAre
<1>11. ASSUME NEW i \in 1..(rb.size - 1)
       PROVE  Items(d)[i] = Tail(Items(rb))[i] /\ Items(l)[i] = Front(Items(rb))[i]
  <2>1. /\ i - 1 \in 0..Capacity /\ i \in 0..Capacity /\ i \in 1..rb.size
        /\ i + 1 \in 1..rb.size /\ (i + 1) - 1 = i
    BY <1>1
  <2>2. At(Increment(rb.head), i - 1) = At(rb.head, i)
    <3>1. At(rb.head, i) = IF rb.head + i < Capacity THEN rb.head + i
                           ELSE rb.head + i - Capacity
      BY <1>1, <2>1, AtIs
    <3> DEFINE n == Increment(rb.head)
    <3>2. n \in Slots /\ n = IF rb.head = Capacity - 1 THEN 0 ELSE rb.head + 1
      BY <1>2
    <3> HIDE DEF n
    <3>3. At(n, i - 1) = IF n + (i - 1) < Capacity THEN n + (i - 1) ELSE n + (i - 1) - Capacity
      BY <2>1, <3>2, AtIs
    <3>4. At(n, i - 1) = At(rb.head, i)
      BY <1>1, <2>1, <3>1, <3>2, <3>3
    <3> QED
      BY <3>4 DEF n
  <2>3. Items(rb)[i + 1] = rb.buf[At(rb.head, i)] /\ Items(rb)[i] = rb.buf[At(rb.head, i - 1)]
    <3>1. Items(rb)[i + 1] = rb.buf[At(rb.head, (i + 1) - 1)]
      BY <1>1, <2>1
    <3> QED
      BY <1>1, <2>1, <3>1
  <2> QED
    BY <1>7, <1>8, <1>9, <1>10, <2>2, <2>3
<1>12. Items(d) = Tail(Items(rb))
  BY <1>7, <1>9, <1>11, SameItems
<1>13. Items(l) = Front(Items(rb))
  BY <1>8, <1>10, <1>11, SameItems
<1> QED
  BY <1>6, <1>12, <1>13 DEF d, l

\* circ_buf_init gives a buffer without elements.
LEMMA Empty ==
  ASSUME NEW V, NEW bytes \in [Slots -> V]
  PROVE  LET rb == circ_buf_init(bytes)
         IN  Formed(rb, V) /\ Items(rb) = <<>>
<1> DEFINE rb == circ_buf_init(bytes)
<1>1. /\ rb \in Buffers(V) /\ rb.head = 0 /\ rb.tail = 0 /\ rb.size = 0
  BY CapacityAssumption DEF circ_buf_init, Buffers, Slots
<1>2. At(0, 0) = 0
  <2>1. 0 \in Slots /\ 0 \in 0..Capacity /\ 0 < Capacity
    BY CapacityAssumption DEF Slots
  <2> QED
    BY <2>1, AtIs
<1> HIDE DEF rb
<1>3. Len(Items(rb)) = 0 /\ Items(rb) \in Seq(V)
  BY <1>1, ItemsAre
<1> QED
  BY <1>1, <1>2, <1>3 DEF Formed, rb

(***************************************************************************)
(* For a buffer of any capacity and values of any kind, circ_buf.c is a    *)
(* bounded deque: it starts empty; adding at an end of a full buffer drops *)
(* exactly the element at the other end; taking leaves the rest in order.  *)
(* Head, tail and size stay consistent, so the same holds after every      *)
(* sequence of these operations.                                           *)
(***************************************************************************)
THEOREM RingIsDeque ==
  ASSUME NEW V, NEW v \in V
  PROVE  /\ \A bytes \in [Slots -> V] :
              LET rb == circ_buf_init(bytes)
              IN  Formed(rb, V) /\ Items(rb) = <<>>
         /\ \A rb \in Buffers(V) : Formed(rb, V) =>
              LET kept == Items(rb)
                  full == Len(kept) = Capacity
                  append == circ_buf_enqueue_tail(rb, v)
                  push == circ_buf_enqueue_head(rb, v)
                  first == circ_buf_dequeue_head(rb)
                  last == circ_buf_dequeue_tail(rb)
              IN  /\ Formed(append, V)
                  /\ Items(append) = Append(IF full THEN Tail(kept) ELSE kept, v)
                  /\ Formed(push, V)
                  /\ Items(push) = <<v>> \o (IF full THEN Front(kept) ELSE kept)
                  /\ kept # <<>> => /\ Formed(first, V) /\ Items(first) = Tail(kept)
                                    /\ Formed(last, V) /\ Items(last) = Front(kept)
<1>1. ASSUME NEW rb \in Buffers(V)
      PROVE  Len(Items(rb)) = rb.size /\ (Items(rb) # <<>> => rb.size > 0)
  BY ItemsAre
<1> QED
  BY <1>1, Empty, EnqueueTail, EnqueueHead, Dequeues
=============================================================================
