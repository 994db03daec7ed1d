\* Claims of every kind.  The kernel stops for good when it panics.
CONSTANTS
  MaxAddr = 5
  Types = {boot, t1, t2}
  Boot = boot
  BootMaps <- MCBootMaps
  Engulfing = TRUE
  Abutting = TRUE
SPECIFICATION Spec
PROPERTY PanicIffOverlap
CHECK_DEADLOCK FALSE
