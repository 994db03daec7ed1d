\* Two lists and four nodes that keep stale pointers when they move between
\* them.  The kernel stops for good when an assert fails.
CONSTANTS
  Lists = {l1, l2}
  Nodes = {n1, n2, n3, n4}
  NULL = NULL
SPECIFICATION Spec
INVARIANTS BackPointersMirror
PROPERTY ImplementsSequences
SYMMETRY Symmetry
CHECK_DEADLOCK FALSE
