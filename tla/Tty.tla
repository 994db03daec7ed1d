-------------------------------- MODULE Tty --------------------------------
(***************************************************************************)
(* The terminal: a circular buffer of characters, a circular buffer of the *)
(* addresses at which the lines begin in it, and the screen, which shows   *)
(* the lines from rptr on.  The functions are operators on the terminal t, *)
(* since the shell calls several of them in one step.                      *)
(***************************************************************************)
EXTENDS Strings, FiniteSetsExt

CONSTANTS tty_width, tty_height,
          TTY_BUFFER_SIZE, TTY_LINE_LIMIT, TAB_LENGTH,
          PosBits    \* the bits of a cursor position: 32

ASSUME TtyAssumption ==
  /\ {tty_width, tty_height, TAB_LENGTH, PosBits} \subseteq Nat \ {0}
  /\ TTY_LINE_LIMIT \in Nat /\ TTY_LINE_LIMIT > tty_height
  /\ TTY_BUFFER_SIZE \in Nat /\ TTY_BUFFER_SIZE > (tty_width + 1) * tty_height

Ring == INSTANCE CircBuf WITH Capacity <- TTY_LINE_LIMIT

\* Control characters.
BACKSPACE == 8
TAB == 9
NEWLINE == 10

U32(v) == v % 2^PosBits

Cells == 0..(tty_width * tty_height - 1)
Blank == [p \in Cells |-> SPACE]

\* ttyd->put_char: what is written behind the screen is not seen.
put_char(t, x, y, c) ==
  [t EXCEPT !.screen = [p \in Cells |-> IF p = y * tty_width + x THEN c ELSE @[p]]]

\* A store through the write pointer, and its step to the next character.
Store(t, c) == [t EXCEPT !.buf = [a \in DOMAIN @ |-> IF a = t.wptr THEN c ELSE @[a]]]
circ_buf_ptr_increment(t) ==
  [t EXCEPT !.wptr = IF @ = NULL THEN @ ELSE (@ + 1) % TTY_BUFFER_SIZE]

\* The line in row y; a slot that was never used holds NULL.
LineAt(t, y) == t.lines.buf[(t.rptr + y) % TTY_LINE_LIMIT]

tty_cursorxy_to_buf_wptr(t, x, y) ==
  IF LineAt(t, y) = NULL THEN NULL ELSE (LineAt(t, y) + x) % TTY_BUFFER_SIZE

tty_set_cursor_pos_xy(t, x, y) ==
  [t EXCEPT !.cx = x, !.cy = y, !.wptr = tty_cursorxy_to_buf_wptr(t, x, y)]

tty_set_cursor_pos(t, pos) ==
  tty_set_cursor_pos_xy(t, pos % tty_width, pos \div tty_width)

tty_get_cursor_pos(t) == U32(t.cy * tty_width + t.cx)

-----------------------------------------------------------------------------
\* Mutant: the oldest line is never given up.
DropReached_Never(t) == t

\* The oldest line goes when the write pointer comes to its first character.
DropReached(t) ==
  IF t.lines.size > 1 /\ t.wptr = t.lines.buf[Ring!circ_buf_peekn_head(t.lines, 0)]
  THEN [t EXCEPT !.lines = Ring!circ_buf_dequeue_head(@)] ELSE t

tty_buf_write_null_terminator(t) == Store(DropReached(t), NUL)

tty_buf_enqueue_line(t) ==
  tty_buf_write_null_terminator(
    [t EXCEPT !.lines = Ring!circ_buf_enqueue_tail(@, t.wptr)])

\* A character behind the last column begins a line of its own.
tty_buf_write(t, c) ==
  LET s == DropReached(t)
      wrapped == IF t.cx = tty_width
                 THEN tty_buf_enqueue_line(circ_buf_ptr_increment(s)) ELSE s
  IN  IF c = NEWLINE
      THEN tty_buf_enqueue_line(circ_buf_ptr_increment(Store(s, NUL)))
      ELSE tty_buf_write_null_terminator(circ_buf_ptr_increment(Store(wrapped, c)))

\* The characters of a line, up to its terminator.
Line(t, a) ==
  LET At(k) == t.buf[(a + k) % TTY_BUFFER_SIZE]
      ends == {k \in 0..(TTY_BUFFER_SIZE - 1) : At(k) = NUL}
  IN  IF a = NULL \/ ends = {} THEN <<>> ELSE [k \in 1..Min(ends) |-> At(k - 1)]

-----------------------------------------------------------------------------
\* The states of a terminal.
Terminals == [buf : [0..(TTY_BUFFER_SIZE - 1) -> Int],
              lines : [buf : [Ring!Slots -> Int], head : Int, tail : Int, size : Int],
              wptr : Int, rptr : Int, cx : Int, cy : Int, line : Int,
              screen : [Cells -> Int], missed : BOOLEAN]

\* The view one line further down.
Scrolled(t) == [t EXCEPT !.line = U32(@ + 1), !.rptr = Ring!Increment(@)]

\* The column a tabulator leads to from column x.
TabFrom(x) == LET stop == x + TAB_LENGTH - 1 - (x % TAB_LENGTH)
              IN  IF stop < tty_width - 1 THEN stop + 1 ELSE stop

(***************************************************************************)
(* Mutual recursion: a line that does not fit scrolls the screen it is     *)
(* drawn on, so tty_putchar_raw and tty_flush are one recursive function,  *)
(* with the name of the one that is called.  A flush draws all rows again  *)
(* from their lines; the cursor goes back to its place.                    *)
(***************************************************************************)
Draw[f \in {"putchar_raw", "flush"}, t \in Terminals, c \in Int] ==
  LET Put(s, d) == Draw["putchar_raw", s, d]
      Row(s, i) == FoldLeft(Put, s, Line(s, LineAt(s, i)))
      RowOn(s, i) == IF i = tty_height - 1 THEN Row(s, i) ELSE Put(Row(s, i), NEWLINE)
      drawn == FoldLeft(RowOn, tty_set_cursor_pos_xy([t EXCEPT !.screen = Blank], 0, 0),
                        [i \in 1..tty_height |-> i - 1])
      line == IF t.cy = tty_height - 1
              THEN Draw["flush", Scrolled([t EXCEPT !.cx = 0]), NUL]
              ELSE [t EXCEPT !.cx = 0, !.cy = @ + 1]
      s == IF t.cx = tty_width THEN line ELSE t
      put == CASE c = TAB -> [t EXCEPT !.cx = TabFrom(@)]
               [] c = BACKSPACE -> [t EXCEPT !.cx = IF @ = 0 THEN 0 ELSE @ - 1]
               [] c = NEWLINE -> line
               [] OTHER -> [put_char(s, s.cx, s.cy, c) EXCEPT !.cx = @ + 1]
  IN  IF f = "flush" THEN tty_set_cursor_pos_xy(drawn, t.cx, t.cy)
      ELSE tty_set_cursor_pos_xy(put, put.cx, put.cy)

tty_putchar_raw(t, c) == Draw["putchar_raw", t, c]

tty_flush(t) == Draw["flush", t, NUL]

tty_scroll_up_force(t) ==
  tty_flush([t EXCEPT !.line = U32(@ - 1), !.rptr = Ring!Decrement(@)])

tty_scroll_down_force(t) == tty_flush(Scrolled(t))

tty_putchar(t, c) == tty_putchar_raw(tty_buf_write(t, c), c)

tty_write(t, data) == FoldLeft(tty_putchar, t, data)

tty_scroll_up(t) == IF t.rptr # t.lines.head THEN tty_scroll_up_force(t) ELSE t

\* At tail 0 the slot in front of the tail is no slot of the buffer.
tty_scroll_down(t) ==
  IF (t.rptr + t.cy) % TTY_LINE_LIMIT # t.lines.tail - 1
  THEN tty_scroll_down_force(t) ELSE t

-----------------------------------------------------------------------------
\* The storage of the lines and of the characters keeps what it held.
tty_clear(t) ==
  LET empty == [t EXCEPT !.lines = Ring!circ_buf_init(@.buf), !.wptr = 0, !.rptr = 0,
                         !.missed = FALSE]
      first == tty_buf_enqueue_line(empty)
  IN  [tty_set_cursor_pos_xy([first EXCEPT !.screen = Blank], 0, 0) EXCEPT !.line = 0]

tty_init ==
  tty_clear([buf |-> [a \in 0..(TTY_BUFFER_SIZE - 1) |-> 7],
             lines |-> Ring!circ_buf_init([i \in Ring!Slots |-> NULL]),
             wptr |-> 0, rptr |-> 0, cx |-> 0, cy |-> 0, line |-> 0,
             screen |-> Blank, missed |-> FALSE])

\* What lies in front of the first slot is no address of a character.
OUTSIDE == -2
TailLine(t) == IF t.lines.tail = 0 THEN OUTSIDE ELSE t.lines.buf[t.lines.tail - 1]

LastLine(t) == t.lines.buf[Ring!Decrement(t.lines.tail)]

DropTail(t) == IF t.lines.size > 0
               THEN [t EXCEPT !.lines = Ring!circ_buf_dequeue_tail(@)] ELSE t

\* Mutant: a line that the cursor leaves backwards stays in the list.
DeleteOne_KeepsLine(d, i) ==
  LET back == tty_set_cursor_pos(d.t, U32(tty_get_cursor_pos(d.t) - 1))
  IN  [t |-> Store(put_char(back, back.cx, back.cy, SPACE), NUL), tail |-> d.tail]

\* One character: d.tail is the begin of the last line as it was last read.
\* The ghost t.missed notes that a line stayed since this was read outside.
DeleteOne(d, i) ==
  LET t == IF d.t.wptr = d.tail THEN DropTail(d.t) ELSE d.t
      back == tty_set_cursor_pos(t, U32(tty_get_cursor_pos(t) - 1))
      missed == d.t.wptr # d.tail /\ d.tail = OUTSIDE /\ d.t.wptr = LastLine(d.t)
  IN  [t |-> [Store(put_char(back, back.cx, back.cy, SPACE), NUL)
                EXCEPT !.missed = @ \/ missed],
       tail |-> IF d.t.wptr = d.tail THEN TailLine(t) ELSE d.tail]

tty_delete(t, n) ==
  FoldLeft(DeleteOne, [t |-> t, tail |-> TailLine(t)], [i \in 1..n |-> i]).t
=============================================================================
