SPECIFICATION Spec
CONSTANTS
  MaxBits = 6
  IntBits = 4
  MAXIMUM_VALUE_CHARACTERS = 6
  PCI_MAX_DEVICE = 1
  PCI_MAX_FUNCTION = 2
  BarBits = 6
  MaxLen = 3
  MaxSplit = 5
  Letters <- MCLetters
  Magnitudes <- MCMagnitudes
  Widths <- MCWidths
  SlotBuses <- MCSlotBuses
  BarValues <- MCBarValues
  RingCapacity = 3
  MaxOps = 7
INVARIANTS
  RingExact
  SearchesExact
  CopiesExact
  TokensExact
  NumbersExact
  PrintfExact
  ClassNamesExact
  DevicesFound
CHECK_DEADLOCK FALSE
