------------------------------- MODULE Shell -------------------------------
(***************************************************************************)
(* The shell on the terminal: one action per key of sh_handle_input, and   *)
(* the idle process, which prints a line on the same terminal from time to *)
(* time.  The command that is typed and the history lie in one array of    *)
(* bytes, mem, in slots of SH_MAX_COMMAND bytes that a circular buffer     *)
(* hands out; a command that fills its slot ends in the next one.  A key   *)
(* and a line of the idle process are one step each.                       *)
(***************************************************************************)
EXTENDS Tty

CONSTANTS SH_MAX_HISTORY, SH_MAX_COMMAND,
          Typed,       \* the characters that are typed
          Meaning(_),  \* what the first word of a command line asks for
          MaxKeys,     \* bound: the keys that are pressed
          MaxMovedKeys, \* bound: the same, once an arrow was among them
          MaxIdle      \* bound: the lines of the idle process

ASSUME ShellAssumption == /\ SH_MAX_HISTORY \in Nat \ {0}
                          /\ SH_MAX_COMMAND \in Nat \ {0}
                          /\ Typed \subseteq Nat
                          /\ MaxKeys \in Nat /\ MaxMovedKeys \in Nat /\ MaxIdle \in Nat

VARIABLES t,          \* the terminal
          mem,        \* sh_history_buf
          history,    \* the indices of sh_history_circ_buf
          sh_prompt_limit, sh_history_idx, sh_command_idx,
          running,    \* sh_exit was not called, and no byte written outside
          keys, idle, \* how many keys were pressed, lines printed by idle_main
          moved,      \* ghost: an arrow moved the cursor or the view, or a command
                      \* that was disturbed was deleted from or replaced
          filled,     \* ghost: a command filled its slot
          disturbed,  \* ghost: since the prompt idle_main printed, or a command
                      \* that had begun above the screen was replaced
          entered     \* ghost: the commands entered

shell == <<mem, history, sh_prompt_limit, sh_history_idx, sh_command_idx>>
vars == <<t, shell, running, keys, idle, moved, filled, disturbed, entered>>

History == INSTANCE CircBuf WITH Capacity <- SH_MAX_HISTORY + 1

-----------------------------------------------------------------------------
PROMPT == 4
OUT == 5
UNWRITTEN == 7

\* circ_buf_peekn: the address of the n-th slot from the head.
SlotAt(ring, n) == SH_MAX_COMMAND * History!circ_buf_peekn_head(ring, n)
sh_command_buffer == SlotAt(history, 0)

\* The bytes behind the terminator of "\0" that circ_buf_push copies.
Pushed(m, ring) ==
  [a \in DOMAIN m |-> IF a = SlotAt(ring, 0) THEN NUL
                      ELSE IF a > SlotAt(ring, 0) /\ a < SlotAt(ring, 0) + SH_MAX_COMMAND
                      THEN UNWRITTEN ELSE m[a]]

TextAt(m, a) == [i \in 1..strlen(m, a) |-> m[a + i - 1]]

\* Mutant: the limit stays where it was when the screen scrolls.
sh_command_printf_Stays(s, limit, text) == [t |-> tty_write(s, text), limit |-> limit]

\* The terminal and the prompt limit after a text was printed.
sh_command_printf(s, limit, text) ==
  LET after == tty_write(s, text)
  IN  [t |-> after,
       limit |-> IF after.line > s.line
                 THEN U32(limit - tty_width * (after.line - s.line)) ELSE limit]

PromptShown(s) ==
  LET line == IF tty_get_cursor_pos(s) % tty_width # 0 THEN tty_write(s, <<NEWLINE>>) ELSE s
  IN  tty_write(line, <<PROMPT, SPACE>>)

\* sh_prompt on terminal s.
sh_prompt(s) == /\ t' = PromptShown(s)
                /\ sh_prompt_limit' = tty_get_cursor_pos(PromptShown(s))
                /\ sh_history_idx' = 0
                /\ sh_command_idx' = 0
                /\ disturbed' = FALSE

Init ==
  LET welcome == PromptShown(tty_write(tty_init, <<OUT, NEWLINE, NEWLINE>>))
      ring == History!circ_buf_enqueue_head(
                History!circ_buf_init([i \in History!Slots |-> 0]), 0)
  IN  /\ t = welcome
      /\ history = ring
      /\ mem = Pushed([a \in 0..((SH_MAX_HISTORY + 1) * (SH_MAX_COMMAND + 1) - 1) |-> NUL],
                      ring)
      /\ sh_prompt_limit = tty_get_cursor_pos(welcome)
      /\ sh_history_idx = 0 /\ sh_command_idx = 0
      /\ running = TRUE /\ keys = 0 /\ idle = 0
      /\ moved = FALSE /\ filled = FALSE /\ disturbed = FALSE /\ entered = <<>>

\* Bound: a line of idle_main stands for two keys.
KeyLimit == (IF moved THEN MaxMovedKeys ELSE MaxKeys) - 2 * idle

Key == /\ running
       /\ keys < KeyLimit
       /\ keys' = keys + 1
       /\ UNCHANGED idle

\* The idle process gets the terminal between two keys.
idle_main == /\ running /\ idle < MaxIdle
             /\ idle' = idle + 1
             /\ t' = tty_write(t, <<OUT, NEWLINE>>)
             /\ disturbed' = TRUE
             /\ UNCHANGED <<shell, running, keys, moved, filled, entered>>

-----------------------------------------------------------------------------
\* What printf("%c") puts on the screen: NUL counts as no character, and the
\* precision of 1 pads it with a blank.
Glyph(ch) == IF ch = NUL THEN SPACE ELSE ch

Type(ch) ==
  /\ Key
  /\ \/ /\ sh_command_idx < SH_MAX_COMMAND
        /\ LET shown == sh_command_printf(t, sh_prompt_limit, <<Glyph(ch)>>)
           IN  t' = shown.t /\ sh_prompt_limit' = shown.limit
        /\ mem' = [mem EXCEPT ![sh_command_buffer + sh_command_idx] = ch]
        /\ sh_command_idx' = sh_command_idx + 1
        /\ UNCHANGED <<history, sh_history_idx>>
     \/ sh_command_idx >= SH_MAX_COMMAND /\ UNCHANGED <<t, shell>>
  /\ UNCHANGED <<running, moved, filled, disturbed, entered>>

\* At index 0 the unsigned index wraps, the byte written lies 2^32 - 1 bytes
\* behind the command, outside of mem, and the model ends.  Once the limit has
\* wrapped, no cursor on the screen is above it, and nothing is deleted.
sh_backspace ==
  /\ Key
  /\ \/ /\ tty_get_cursor_pos(t) > sh_prompt_limit /\ sh_command_idx > 0
        /\ sh_command_idx' = sh_command_idx - 1
        /\ mem' = [mem EXCEPT ![sh_command_buffer + sh_command_idx'] = NUL]
        /\ t' = tty_delete(t, 1)
        /\ moved' = (moved \/ disturbed)
        /\ UNCHANGED <<history, sh_prompt_limit, sh_history_idx, running>>
     \/ /\ tty_get_cursor_pos(t) > sh_prompt_limit /\ sh_command_idx = 0
        /\ running' = FALSE
        /\ UNCHANGED <<t, shell, moved>>
     \/ tty_get_cursor_pos(t) <= sh_prompt_limit /\ UNCHANGED <<t, shell, running, moved>>
  /\ UNCHANGED <<filled, disturbed, entered>>

\* The command line that history entry idx stands for is put in place.  When
\* the old one began above the screen, tty_delete takes the cursor past its top.
sh_pull_history(idx) ==
  LET command == sh_command_buffer
      pulled == IF idx = 0 THEN [mem EXCEPT ![command] = NUL]
                ELSE strcpy(mem, command, SlotAt(history, idx))
      cleared == tty_set_cursor_pos(tty_delete(t, sh_command_idx), sh_prompt_limit)
      shown == sh_command_printf(cleared, sh_prompt_limit, TextAt(pulled, command))
  IN  /\ sh_history_idx' = idx
      /\ mem' = pulled
      /\ sh_command_idx' = strlen(pulled, command)
      /\ t' = shown.t /\ sh_prompt_limit' = shown.limit
      /\ disturbed' = (disturbed \/ tty_get_cursor_pos(t) < sh_command_idx)
      /\ moved' = (moved \/ disturbed')
      /\ UNCHANGED history

sh_up_arrow ==
  /\ Key
  /\ \/ /\ sh_history_idx > 0 \/ sh_command_idx = 0
        /\ sh_history_idx < history.size - 1
        /\ sh_pull_history(sh_history_idx + 1)
     \/ /\ \/ sh_history_idx = 0 /\ sh_command_idx # 0
           \/ sh_history_idx >= history.size - 1
        /\ UNCHANGED <<t, shell, moved, disturbed>>
  /\ UNCHANGED <<running, filled, entered>>

sh_down_arrow ==
  /\ Key
  /\ \/ sh_history_idx > 0 /\ sh_pull_history(sh_history_idx - 1)
     \/ sh_history_idx = 0 /\ UNCHANGED <<t, shell, moved, disturbed>>
  /\ UNCHANGED <<running, filled, entered>>

\* With the option key the arrows scroll.
ScrollKey == /\ Key
             /\ \/ t' = tty_scroll_up(t)
                \/ t' = tty_scroll_down(t)
             /\ moved' = (moved \/ t' # t)
             /\ UNCHANGED <<shell, running, filled, disturbed, entered>>

sh_left_arrow ==
  LET pos == tty_get_cursor_pos(t)
  IN  /\ Key
      /\ t' = CASE pos = 0 -> tty_set_cursor_pos(tty_scroll_up(t), tty_width - 1)
                [] pos # 0 /\ pos > sh_prompt_limit -> tty_set_cursor_pos(t, pos - 1)
                [] OTHER -> tty_set_cursor_pos(t, pos)
      /\ moved' = TRUE
      /\ UNCHANGED <<shell, running, filled, disturbed, entered>>

\* Mutant: the right arrow leads behind the command.
sh_right_arrow_Beyond ==
  /\ Key
  /\ t' = tty_set_cursor_pos(t, tty_get_cursor_pos(t) + 1)
  /\ moved' = TRUE
  /\ UNCHANGED <<shell, running, filled, disturbed, entered>>

\* The last cell of the screen does not lead to the next one.
sh_right_arrow ==
  LET pos == tty_get_cursor_pos(t)
      last == tty_height * tty_width - 1
  IN  /\ Key
      /\ t' = CASE pos = last -> tty_set_cursor_pos(tty_scroll_down(t),
                                                    (tty_height - 1) * tty_width)
                [] pos # last /\ pos < U32(sh_prompt_limit + sh_command_idx) ->
                     tty_set_cursor_pos(t, pos + 1)
                [] OTHER -> tty_set_cursor_pos(t, pos)
      /\ moved' = TRUE
      /\ UNCHANGED <<shell, running, filled, disturbed, entered>>

-----------------------------------------------------------------------------
\* Mutant: every command is kept, also one that repeats the last.
sh_push_history_Always(m) ==
  /\ history' = History!circ_buf_enqueue_head(history, 0)
  /\ mem' = Pushed(m, history')

\* The slot of the command is kept, and a new one taken, unless it repeats the last.
sh_push_history(m) ==
  \/ /\ ~strequ(m, sh_command_buffer, SlotAt(history, 1))
     /\ history' = History!circ_buf_enqueue_head(history, 0)
     /\ mem' = Pushed(m, history')
  \/ /\ strequ(m, sh_command_buffer, SlotAt(history, 1))
     /\ mem' = m /\ UNCHANGED history

\* sh_print_history: a number, the command and a new line for every entry.
HistoryText(m) ==
  FlattenSeq([i \in 1..(history.size - 1) |->
                <<OUT>> \o TextAt(m, SlotAt(history, i)) \o <<NEWLINE>>])

\* What a command leaves on terminal s; m holds the history that it prints.
CommandOutput(meaning, s, m) ==
  CASE meaning = "clear" -> tty_clear(s)
    [] meaning = "history" -> tty_write(s, HistoryText(m))
    [] meaning \in {"exit", "not found"} -> tty_write(s, <<OUT>>)
    [] OTHER -> tty_write(s, <<OUT, NEWLINE>>)

\* The words of a copy of the line, which strsplit cuts at the blanks.
Words(line) ==
  LET n == Len(line)
      copy == [a \in 0..(n + 2) |-> IF a < n THEN line[a + 1]
                                    ELSE IF a = n + 1 THEN SPACE ELSE NUL]
      args == strsplit(copy, 0, n + 1)
  IN  [i \in 1..args.split.length |-> TextAt(args.m, args.split.items[i])]

\* Bound: no slot is used again once a command has filled one.
SlotsFresh == filled \/ sh_command_idx = SH_MAX_COMMAND => history.size <= SH_MAX_HISTORY

(***************************************************************************)
(* Enter: the line is ended, split at the blanks and executed.  A line of  *)
(* blanks has no words and is not kept.                                    *)
(***************************************************************************)
sh_execute ==
  LET ended == tty_write(t, <<NEWLINE>>)
      m == [mem EXCEPT ![sh_command_buffer + sh_command_idx] = NUL]
      line == TextAt(m, sh_command_buffer)
  IN  \E words \in {Words(line)} :
        LET meaning == Meaning(words[1])
        IN  /\ Key
            /\ filled' = (filled \/ sh_command_idx = SH_MAX_COMMAND)
            /\ \/ /\ words = <<>>
                  /\ sh_prompt(ended) /\ mem' = m
                  /\ UNCHANGED <<history, running, moved, entered>>
               \/ /\ words # <<>> /\ meaning = "exit"
                  /\ t' = CommandOutput(meaning, ended, m) /\ mem' = m /\ running' = FALSE
                  /\ UNCHANGED <<history, sh_prompt_limit, sh_history_idx, sh_command_idx,
                                 moved, disturbed, entered>>
               \/ /\ words # <<>> /\ meaning # "exit"
                  /\ SlotsFresh
                  /\ sh_push_history(m)
                  /\ sh_prompt(CommandOutput(meaning, ended, m))
                  /\ entered' = Append(entered, line)
                  /\ moved' = (moved /\ meaning # "clear")
                  /\ UNCHANGED running

Next == \/ \E ch \in Typed : Type(ch)
        \/ sh_backspace \/ sh_up_arrow \/ sh_down_arrow \/ ScrollKey
        \/ sh_left_arrow \/ sh_right_arrow \/ sh_execute
        \/ idle_main

Spec == Init /\ [][Next]_vars

-----------------------------------------------------------------------------
Cursor == tty_get_cursor_pos(t)

\* The cell in which the command begins: a negative one once the screen has
\* scrolled it off its top, where sh_prompt_limit has wrapped.
PromptAt == IF sh_prompt_limit < 2^(PosBits - 1) THEN sh_prompt_limit
            ELSE sh_prompt_limit - 2^PosBits

(***************************************************************************)
(* Until an arrow moves the cursor or the idle process prints, the screen  *)
(* shows the command behind the prompt, with the cursor at its end: over   *)
(* line breaks, scrolling, deleting and recalling other commands, and      *)
(* again from the next prompt on.  Of a command that is longer than the    *)
(* screen, it shows the end.  A NUL, which a key without a character       *)
(* sends, is shown as a blank, although Enter runs only what is before it. *)
(* sh_prompt_limit, sh_command_idx, the cursor, the screen and the bytes   *)
(* of the command are kept by five different functions.  Recalling a       *)
(* command while one is in place that began above the screen ends this     *)
(* until the screen is cleared.                                            *)
(***************************************************************************)
CommandShown ==
  running /\ ~moved /\ ~disturbed =>
    /\ Cursor = PromptAt + sh_command_idx
    /\ \A i \in 0..(sh_command_idx - 1) :
         PromptAt + i >= 0 =>
           t.screen[PromptAt + i] = Glyph(mem[sh_command_buffer + i])
    /\ PromptAt >= 2 => t.screen[PromptAt - 2] = PROMPT

RowText(y) == [x \in 1..tty_width |-> t.screen[y * tty_width + x - 1]]
Padded(text) == [x \in 1..tty_width |-> IF x <= Len(text) THEN text[x] ELSE SPACE]

(***************************************************************************)
(* Until an arrow moves something, what the screen shows is what scrolling *)
(* would draw again: row by row the lines that the buffers hold, the       *)
(* cursor in the last of them, also when the idle process printed in the   *)
(* middle of a command.                                                    *)
(***************************************************************************)
ScreenShowsLines ==
  ~moved /\ ~t.missed =>
            /\ \A y \in 0..t.cy : RowText(y) = Padded(Line(t, LineAt(t, y)))
            /\ \A y \in (t.cy + 1)..(tty_height - 1) : RowText(y) = Padded(<<>>)
            /\ (t.rptr + t.cy + 1) % TTY_LINE_LIMIT = t.lines.tail

\* The texts of the lines above the row of the prompt, the oldest first.
Above == LET count == (t.rptr + PromptAt \div tty_width - t.lines.head)
                      % TTY_LINE_LIMIT
         IN  [i \in 1..count |-> Line(t, t.lines.buf[(t.lines.head + i - 1) % TTY_LINE_LIMIT])]

(***************************************************************************)
(* The lines above the prompt stay as they are until the oldest are given  *)
(* up: writing on around the end of the character buffer and of the list   *)
(* of lines never changes one that can still be scrolled to.               *)
(***************************************************************************)
ScrollbackKept ==
  [][~moved' /\ ~disturbed /\ ~disturbed' /\ ~t'.missed /\ Above' # <<>> =>
       LET PromptRow == t.line + PromptAt \div tty_width
           kept == Len(Above') - (PromptRow' - PromptRow)
       IN  /\ kept <= Len(Above)
           /\ SubSeq(Above', 1, kept) = SubSeq(Above, Len(Above) - kept + 1, Len(Above))]_vars

\* A sequence without the elements that repeat the one before.
NoRepeats(s) ==
  LET kept[i \in 0..Len(s)] == IF i = 0 THEN <<>>
                               ELSE IF i > 1 /\ s[i] = s[i - 1] THEN kept[i - 1]
                               ELSE Append(kept[i - 1], s[i])
  IN  kept[Len(s)]

(***************************************************************************)
(* The history holds the commands that were entered, the last first,       *)
(* without repetitions and as many as there is room for, however much was  *)
(* recalled and edited in between.  A command that fills its slot destroys *)
(* the one before it: its terminator is the other's first byte.            *)
(***************************************************************************)
HistoryKept ==
  ~filled =>
    LET kept == NoRepeats(entered)
    IN  /\ history.size - 1 = Min({Len(kept), SH_MAX_HISTORY})
        /\ \A i \in 1..(history.size - 1) :
             TextAt(mem, SlotAt(history, i)) = kept[Len(kept) + 1 - i]

(***************************************************************************)
(* The cursor is never further behind the prompt than the command is long, *)
(* whatever the arrows did: sh_backspace, which tests only the cursor,     *)
(* never takes sh_command_idx below 0, and no key writes outside the slot. *)
(* A limit that has wrapped lies behind the cursor.  A line of the idle    *)
(* process breaks this until the next prompt, and so does replacing a      *)
(* command that began above the screen.                                    *)
(***************************************************************************)
CommandFits == /\ sh_command_idx <= SH_MAX_COMMAND
               /\ running /\ ~disturbed => Cursor <= sh_prompt_limit + sh_command_idx
=============================================================================
