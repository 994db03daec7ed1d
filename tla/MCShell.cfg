SPECIFICATION Spec
CONSTANTS
  tty_width = 3
  tty_height = 2
  TTY_BUFFER_SIZE = 12
  TTY_LINE_LIMIT = 5
  TAB_LENGTH = 2
  PosBits = 8
  SH_MAX_HISTORY = 2
  SH_MAX_COMMAND = 5
  Typed <- MCTyped
  Meaning <- MCMeaning
  MaxKeys = 8
  MaxMovedKeys = 6
  MaxIdle = 1
INVARIANTS
  CommandShown
  ScreenShowsLines
  HistoryKept
  CommandFits
PROPERTY
  ScrollbackKept
CHECK_DEADLOCK FALSE
