\* Which free blocks are on the free list.
SPECIFICATION Spec
CONSTANTS
  PageSize = 8
  InitialSize = 16
  MaxSize = 32
  Sizes = {1, 4}
  NULL = NULL
INVARIANT FreeBlocksAreListed
