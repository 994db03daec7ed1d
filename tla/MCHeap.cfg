CONSTANTS
  ALIGN = 2
  HEADER_SIZE = 2
  MIN_SIZE = 2
  NUM_SIZES = 5
  HeapSize = 28
  CounterMod = 32
  Requests = {0, 3, 5, 8}
  NULL = NULL
SPECIFICATION Spec
INVARIANTS ChunksTileHeap FreeListsExact NoAdjacentFree LiveBlocksKept MetaExact
PROPERTIES FailsOnlyWhenShort ImplementsArena
