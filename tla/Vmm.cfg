\* 2 pages of kernel, tables of 9 entries, a heap of 2 to 10 pages.
SPECIFICATION VirtSpec
CONSTANTS
  TotalPages = 18
  KernelEndPage = 2
  TableSize = 9
  HeapInitial = 2
  HeapMax = 10
  Requests = {1, 2}
  NULL = NULL
  Data = Data
  Lost = Lost
INVARIANTS
  PagesApart
  HeapReachable
  WalksAgree
CHECK_DEADLOCK FALSE
