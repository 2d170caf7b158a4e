\* Eight pages, two of them the kernel's: every order of six allocations and frees.
SPECIFICATION Spec
CONSTANTS
  TotalPages = 8
  KernelEndPage = 2
INVARIANTS
  FreeCountExact
  HintIsLowerBound
  BitmapAccountsForHolders
PROPERTIES
  AllocIsFirstFit
  ImplementsPageAllocator
