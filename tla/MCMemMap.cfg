\* The kernel stops for good when it panics.
CONSTANTS
  MaxAddr = 5
  Types = {boot, t1, t2}
  Boot = boot
  BootMaps <- MCBootMaps
  Engulfing = FALSE
  Abutting = FALSE
SPECIFICATION Spec
INVARIANTS SortedDisjoint LookupTellsLatest
PROPERTY PanicIffOverlap
CHECK_DEADLOCK FALSE
