\* The kernel is not followed after a page manager has run out.
CONSTANTS
  PT = 13
  PDT = 2
  PDPT = 2
  PML4T = 2
  LowPages = {6, 7, 8, 9, 10, 11}
  MainPages = {12, 104, 105, 106, 107}
  Ranges4k <- MCRanges4k
  Ranges2m <- MCRanges2m
  Allocated <- MCAllocated
  Faulting <- MCFaulting
SPECIFICATION Spec
INVARIANTS LatestMapping PagesNotShared
CHECK_DEADLOCK FALSE
