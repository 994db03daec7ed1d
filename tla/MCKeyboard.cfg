\* The reader is never more than a queue behind.  The run ends when MaxTyped
\* scan codes were sent.
CONSTANTS
  Capacity = 3
  Letters = {a}
  Shifts = {shift}
  CapsLock = caps
  OtherLocks = {}
  NoScan = none
  MaxTyped = 5
  MaxAhead = 3
SPECIFICATION Spec
INVARIANTS CountNeverAhead ReadInOrder ModifiersTrackKeys
PROPERTY QueueDrains
CHECK_DEADLOCK FALSE
