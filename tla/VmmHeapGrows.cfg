\* 2 pages of kernel, tables of 8 entries, a heap of 2 to 9 pages.
SPECIFICATION VirtSpec
CONSTANTS
  TotalPages = 18
  KernelEndPage = 2
  TableSize = 8
  HeapInitial = 2
  HeapMax = 9
  Requests = {1, 2}
  NULL = NULL
  Data = Data
  Lost = Lost
INVARIANT
  HeapGrowsSoundly
CHECK_DEADLOCK FALSE
