------------------------------ MODULE Keyboard ------------------------------
(***************************************************************************)
(* The keyboard driver: the interrupt handler keyboard_isr puts scan codes *)
(* into kb_event_queue while kb_getchar, in the shell's process and with   *)
(* interrupts enabled, takes them out.  The handler runs to completion     *)
(* between any two instructions of kb_getchar; the loads and stores of     *)
(* circ_buf_dequeue are therefore separate steps, and the two stores come  *)
(* in either order, since nothing keeps the compiler from swapping them.   *)
(***************************************************************************)
EXTENDS CircBuf, Sequences, SequencesExt

CONSTANTS Letters,     \* keys with two characters
          Shifts,      \* left and right shift
          CapsLock,    \* the lock keys: caps lock ...
          OtherLocks,  \* ... num lock and scroll lock
          NoScan,      \* what a slot holds before it is written
          MaxTyped,    \* bound: scan codes the keyboard sends in a run
          MaxAhead     \* bound: how far the typist may get ahead of the reader

Locks == {CapsLock} \cup OtherLocks
Keys == Letters \cup Shifts \cup Locks

\* A scan code: the key and its release bit 0x80.
Scans == [key : Keys, release : BOOLEAN]

\* The characters of the layout: letters have one in each half.
Chars == (Letters \X BOOLEAN) \cup Shifts \cup Locks

\* kb_us_layout has no character for two different keys.
ASSUME KeyboardAssumption ==
  /\ MaxTyped \in Nat /\ MaxAhead \in Nat /\ NoScan \notin Scans
  /\ (Letters \cup (Letters \X BOOLEAN)) \cap (Shifts \cup Locks) = {}

VARIABLES
  cb,              \* kb_event_queue
  down,            \* the keys held down
  typed,           \* ghost: the scan codes sent, in order
  read,            \* ghost: the scan codes kb_dequeue_event returned
  toggled,         \* ghost: lock keys pressed an odd number of times
  kb_pressed, kb_locks,   \* kb_pressed[]; kb_caps_lock and the other two
  pc, size_reg, head_reg, \* where kb_getchar is, and its registers
  pending                 \* the stores of circ_buf_dequeue still to come

device == <<down, typed, toggled>>
reader == <<read, kb_pressed, kb_locks, pc, size_reg, head_reg, pending>>
vars == <<cb, down, typed, toggled, read, kb_pressed, kb_locks, pc, size_reg,
          head_reg, pending>>

-----------------------------------------------------------------------------
\* kb_init
Init ==
  /\ cb = circ_buf_init([s \in Slots |-> NoScan])
  /\ down = {} /\ typed = <<>> /\ read = <<>> /\ toggled = {}
  /\ kb_pressed = [c \in Chars |-> FALSE]
  /\ kb_locks = [l \in Locks |-> FALSE]
  /\ pc = "poll" /\ size_reg = 0 /\ head_reg = 0 /\ pending = {}

\* Mutant: the newest scan code is put in front, as the shell's history does.
kb_enqueue_event_Push(scan) == cb' = circ_buf_enqueue_head(cb, scan)

kb_enqueue_event(scan) == cb' = circ_buf_enqueue_tail(cb, scan)

(***************************************************************************)
(* A scan code arrives: main_isr calls keyboard_isr, which reads it from   *)
(* the controller, puts it into the queue and acknowledges the interrupt.  *)
(* Until then the interrupt controller holds the next one back.            *)
(***************************************************************************)
keyboard_isr(scan) ==
  /\ Len(typed) < MaxTyped
  /\ Len(typed) - Len(read) < MaxAhead
  /\ kb_enqueue_event(scan)
  /\ typed' = Append(typed, scan)
  /\ UNCHANGED reader

Press(k) == /\ k \notin down
            /\ down' = down \cup {k}
            /\ toggled' = IF k \notin Locks THEN toggled
                          ELSE IF k \in toggled THEN toggled \ {k}
                          ELSE toggled \cup {k}
            /\ keyboard_isr([key |-> k, release |-> FALSE])

\* A key that is held down repeats its press code.
Repeat(k) == /\ k \in down
             /\ keyboard_isr([key |-> k, release |-> FALSE])
             /\ UNCHANGED <<down, toggled>>

Release(k) == /\ k \in down
              /\ down' = down \ {k}
              /\ keyboard_isr([key |-> k, release |-> TRUE])
              /\ UNCHANGED toggled

-----------------------------------------------------------------------------
\* Mutant: the last event is left in the queue.
Poll_OffByOne ==
  /\ pc = "poll" /\ cb.size > 1
  /\ pc' = "size"
  /\ UNCHANGED <<cb, device, read, kb_pressed, kb_locks, size_reg, head_reg, pending>>

\* kb_getchar: while (true) if (kb_event_queue->size > 0) ...
Poll == /\ pc = "poll" /\ cb.size > 0
        /\ pc' = "size"
        /\ UNCHANGED <<cb, device, read, kb_pressed, kb_locks, size_reg, head_reg, pending>>

\* circ_buf_dequeue_head: if (cb->size > 0), else NULL is dereferenced.
LoadSize == /\ pc = "size"
            /\ size_reg' = cb.size
            /\ pc' = IF cb.size > 0 THEN "head" ELSE "null"
            /\ UNCHANGED <<cb, device, read, kb_pressed, kb_locks, head_reg, pending>>

LoadHead == /\ pc = "head"
            /\ head_reg' = cb.head
            /\ pc' = "store" /\ pending' = {"head", "size"}
            /\ UNCHANGED <<cb, device, read, kb_pressed, kb_locks, size_reg>>

\* circ_buf_increment_head(cb)
StoreHead == /\ pc = "store" /\ "head" \in pending
             /\ cb' = [cb EXCEPT !.head = Increment(head_reg)]
             /\ pending' = pending \ {"head"}
             /\ UNCHANGED <<device, read, kb_pressed, kb_locks, pc, size_reg, head_reg>>

\* Mutant: the count stays.
StoreSize_Kept == /\ pc = "store" /\ "size" \in pending
                  /\ pending' = pending \ {"size"}
                  /\ UNCHANGED <<cb, device, read, kb_pressed, kb_locks, pc,
                                 size_reg, head_reg>>

\* cb->size--
StoreSize == /\ pc = "store" /\ "size" \in pending
             /\ cb' = [cb EXCEPT !.size = size_reg - 1]
             /\ pending' = pending \ {"size"}
             /\ UNCHANGED <<device, read, kb_pressed, kb_locks, pc, size_reg, head_reg>>

\* kb_scan2ch: modifiers are the same in both halves of kb_us_layout.
kb_scan2ch(key, pressed, locks) ==
  IF key \notin Letters THEN key
  ELSE <<key, locks[CapsLock] \/ \E s \in Shifts : pressed[s]>>

\* Mutant: a lock is toggled by every press code.
Toggles_OnRepeat(scan, ch) == ~scan.release /\ ch \in Locks

\* Only the first press code of a key toggles its lock.
Toggles(scan, ch) == ~scan.release /\ ~kb_pressed[ch] /\ ch \in Locks

(***************************************************************************)
(* kb_dequeue_event dereferences the pointer to the slot it released, then *)
(* kb_getchar looks up the character and updates the keys' state.          *)
(* The int it reads is four slots wide; the masks 0x7F and 0x80 leave the  *)
(* first one.                                                              *)
(***************************************************************************)
HandleEvent ==
  /\ pc = "store" /\ pending = {}
  /\ LET scan == cb.buf[head_reg]
         ch == kb_scan2ch(scan.key, kb_pressed, kb_locks)
     IN  /\ read' = Append(read, scan)
         /\ kb_pressed' = [kb_pressed EXCEPT ![ch] = ~scan.release]
         /\ kb_locks' = [l \in Locks |-> IF l = ch /\ Toggles(scan, ch)
                                           THEN ~kb_locks[l] ELSE kb_locks[l]]
  /\ pc' = "poll"
  /\ UNCHANGED <<cb, device, size_reg, head_reg, pending>>

kb_getchar == Poll \/ LoadSize \/ LoadHead \/ StoreHead \/ StoreSize \/ HandleEvent

Next == (\E k \in Keys : Press(k) \/ Repeat(k) \/ Release(k)) \/ kb_getchar

(***************************************************************************)
(* The shell's process gets the processor again and again: pit_isr         *)
(* switches between the two processes at every tick.  Nobody has to type.  *)
(***************************************************************************)
Spec == Init /\ [][Next]_vars /\ WF_vars(kb_getchar)

-----------------------------------------------------------------------------
\* Type invariant.
TypeOK ==
  /\ cb \in [buf : [Slots -> Scans \cup {NoScan}], head : Slots, tail : Slots,
             size : 0..Capacity]
  /\ down \subseteq Keys /\ toggled \subseteq Locks
  /\ kb_pressed \in [Chars -> BOOLEAN] /\ kb_locks \in [Locks -> BOOLEAN]
  /\ pc \in {"poll", "size", "head", "store", "null"}
  /\ size_reg \in 0..Capacity /\ head_reg \in Slots
  /\ pending \subseteq {"head", "size"}

(***************************************************************************)
(* The queue's count may fall behind the scan codes in it: an interrupt    *)
(* between the load and the store of size-- loses its size++.  It never    *)
(* runs ahead of them, whatever the interleaving; otherwise kb_getchar     *)
(* would read a slot again that it has released.  And the size seen        *)
(* positive by kb_getchar still is when circ_buf_dequeue tests it, so      *)
(* kb_dequeue_event dereferences no NULL.                                  *)
(***************************************************************************)
CountNeverAhead ==
  /\ TypeOK
  /\ pc # "null"
  /\ pc = "poll" => cb.size <= Len(typed) - Len(read)

(***************************************************************************)
(* While the reader is less than a queue behind, the interrupts between    *)
(* the instructions of circ_buf_dequeue neither reorder, duplicate nor     *)
(* corrupt a scan code: what was read is a prefix of what was typed.       *)
(***************************************************************************)
ReadInOrder == IsPrefix(read, typed)

(***************************************************************************)
(* Once all that was typed is read, the driver's idea of the modifiers is  *)
(* the keyboard's: a shift is pressed iff its key is down, and a lock is   *)
(* on iff its key went down an odd number of times, whatever repeats and   *)
(* changes of shift came in between.                                       *)
(***************************************************************************)
ModifiersTrackKeys ==
  (pc = "poll" /\ Len(read) = Len(typed)) =>
     /\ \A k \in Shifts \cup Locks : kb_pressed[k] <=> k \in down
     /\ \A l \in Locks : kb_locks[l] <=> l \in toggled

(***************************************************************************)
(* The reader catches up with the count: whenever the queue shows events   *)
(* and the typist pauses, kb_getchar empties it.                           *)
(***************************************************************************)
QueueDrains == (cb.size > 0) ~> (cb.size = 0)
=============================================================================
