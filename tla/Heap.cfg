\* Pages of 8 units, an initial heap of two pages, at most five.
SPECIFICATION Spec
CONSTANTS
  PageSize = 8
  InitialSize = 16
  MaxSize = 40
  Sizes = {1, 4, 6, 8}
  NULL = NULL
INVARIANTS
  BlocksTileHeap
  FreeListSound
  HeldBlocksAreUsed
PROPERTY
  OthersUndisturbed
