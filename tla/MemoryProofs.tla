---------------------------- MODULE MemoryProofs ----------------------------
(***************************************************************************)
(* Proofs about memory.                                                    *)
(*                                                                         *)
(* pmm.c, for every size of memory and of the kernel: the invariants of    *)
(* Pmm, and that the bitmap with its counter and hint implements           *)
(* PageAllocator.  The invariants are inductive together: the counter      *)
(* stays a number of pages only because it equals the number of clear      *)
(* bits, a page below the hint stays used only because the scan starts at  *)
(* the hint, and a freed page is a client's only because the bitmap        *)
(* accounts for the holders.                                               *)
(*                                                                         *)
(* vmm.c, for every size of tables and of the heap: page directories,      *)
(* page tables and heap stay apart, and within reach as long as the pages  *)
(* in use lie in the first table.                                          *)
(***************************************************************************)
EXTENDS Vmm, FiniteSetTheorems, TLAPS

IInv ==
  /\ TypeOK
  /\ FreeCountExact
  /\ HintIsLowerBound
  /\ BitmapAccountsForHolders

-----------------------------------------------------------------------------
(* Sets of pages are finite, and no larger than memory.                    *)
LEMMA PageSetsFinite ==
  ASSUME NEW S \in SUBSET Page
  PROVE  /\ IsFiniteSet(S)
         /\ Cardinality(S) \in 0 .. TotalPages
<1>1. IsFiniteSet(Page) /\ Cardinality(Page) = TotalPages
  BY PmmAssumption, FS_Interval DEF Page
<1>2. IsFiniteSet(S) /\ Cardinality(S) <= TotalPages
  BY <1>1, FS_Subset
<1>3. Cardinality(S) \in Nat
  BY <1>2, FS_CardinalityType
<1> QED BY <1>2, <1>3, PmmAssumption

(* What find_free_page returns is a page whose bit is clear, and, since no *)
(* page below the hint is free, the lowest one.                            *)
LEMMA FoundPageIsLowestFree ==
  ASSUME TypeOK, HintIsLowerBound, NEW p \in Page, FindFreePage(p)
  PROVE  /\ p \notin memory_bitmap
         /\ first_free_page <= p
         /\ \A q \in Page \ memory_bitmap : p <= q
BY PmmAssumption DEF TypeOK, HintIsLowerBound, FindFreePage, ScanStopsAt, Page

(* The counter is zero, or the scan finds nothing, only when every bit is  *)
(* set.                                                                    *)
LEMMA RefusalMeansFull ==
  ASSUME TypeOK, FreeCountExact, free_pages = 0 \/ FindsNothing
  PROVE  memory_bitmap = Page
<1>1. CASE FindsNothing
  <2>1. ASSUME NEW p \in Page
        PROVE  p \in memory_bitmap
    <3>1. p \in first_free_page .. TotalPages - 1 \/ p \in 0 .. first_free_page - 1
      BY PmmAssumption DEF TypeOK, Page
    <3> QED BY <1>1, <3>1 DEF FindsNothing, ScanFails
  <2> QED BY <2>1 DEF TypeOK
<1>2. CASE free_pages = 0
  <2>1. IsFiniteSet(Page) /\ Cardinality(Page) = TotalPages
    BY PmmAssumption, FS_Interval DEF Page
  <2>2. Cardinality(memory_bitmap) = TotalPages
    BY <1>2, PageSetsFinite, PmmAssumption DEF TypeOK, FreeCountExact
  <2> QED BY <2>1, <2>2, FS_Subset DEF TypeOK
<1> QED BY <1>1, <1>2

-----------------------------------------------------------------------------
LEMMA InitIInv == Init => IInv
<1> SUFFICES ASSUME Init PROVE IInv
  OBVIOUS
<1> USE PmmAssumption DEF Init
<1>1. TypeOK
  BY DEF TypeOK, Page, KernelPage, NoPage
<1>2. FreeCountExact
  BY FS_Interval DEF FreeCountExact, KernelPage
<1>3. HintIsLowerBound
  BY DEF HintIsLowerBound, Page, KernelPage
<1>4. BitmapAccountsForHolders
  BY DEF BitmapAccountsForHolders
<1> QED BY <1>1, <1>2, <1>3, <1>4 DEF IInv

LEMMA AllocIInv ==
  ASSUME IInv, NEW p \in Page, Alloc(p)
  PROVE  IInv'
<1> USE PmmAssumption DEF IInv, Alloc, SetBit
<1>1. p \notin memory_bitmap /\ first_free_page <= p
  BY FoundPageIsLowestFree
<1>2. Cardinality(memory_bitmap') = Cardinality(memory_bitmap) + 1
  BY <1>1, PageSetsFinite, FS_AddElement DEF TypeOK
<1>3. TypeOK'
  BY DEF TypeOK, Page, HintAfterAlloc
<1>4. FreeCountExact'
  BY <1>2, PageSetsFinite DEF TypeOK, FreeCountExact
<1>5. HintIsLowerBound'
  BY DEF TypeOK, HintIsLowerBound, HintAfterAlloc, Page
<1>6. BitmapAccountsForHolders'
  BY <1>1 DEF BitmapAccountsForHolders
<1> QED BY <1>3, <1>4, <1>5, <1>6

LEMMA FreeIInv ==
  ASSUME IInv, NEW p \in Returnable, Free(p)
  PROVE  IInv'
<1> USE PmmAssumption DEF IInv, Free, Freeable, ClearBit
<1>1. p \in memory_bitmap /\ p \in held /\ p \in Page
  BY DEF Returnable, TypeOK
<1>2. Cardinality(memory_bitmap') = Cardinality(memory_bitmap) - 1
  BY <1>1, PageSetsFinite, FS_RemoveElement DEF TypeOK
<1>3. Cardinality(memory_bitmap) # 0
  BY <1>1, PageSetsFinite, FS_EmptySet DEF TypeOK
<1>4. TypeOK'
  BY <1>1, <1>3, PageSetsFinite DEF TypeOK, FreeCountExact, Page, HintAfterFree
<1>5. FreeCountExact'
  BY <1>2, PageSetsFinite DEF TypeOK, FreeCountExact
<1>6. HintIsLowerBound'
  BY <1>1 DEF TypeOK, HintIsLowerBound, HintAfterFree, Page
<1>7. BitmapAccountsForHolders'
  BY <1>1 DEF BitmapAccountsForHolders
<1> QED BY <1>4, <1>5, <1>6, <1>7

LEMMA NextIInv == IInv /\ [Next]_vars => IInv'
<1> SUFFICES ASSUME IInv, [Next]_vars PROVE IInv'
  OBVIOUS
<1> USE DEF IInv, TypeOK, FreeCountExact, HintIsLowerBound, BitmapAccountsForHolders
<1>1. CASE \E p \in Page : Alloc(p)
  BY <1>1, AllocIInv
<1>2. CASE AllocFails
  BY <1>2, PmmAssumption DEF AllocFails, NoPage, Page
<1>3. CASE \E p \in Returnable : Free(p)
  BY <1>3, FreeIInv
<1>4. CASE \E p \in Returnable : FreeIgnored(p)
  BY <1>4 DEF FreeIgnored, vars
<1>5. CASE UNCHANGED vars
  BY <1>5 DEF vars
<1> QED BY <1>1, <1>2, <1>3, <1>4, <1>5 DEF Next

(* Every reachable state of the memory manager satisfies the invariants.   *)
THEOREM InvariantsHold == Spec => []IInv
BY InitIInv, NextIInv, PTL DEF Spec

(* pmm.c: the counter is the number of clear bits.                         *)
THEOREM FreeCountCorrect == Spec => []FreeCountExact
<1>1. IInv => FreeCountExact
  BY DEF IInv
<1> QED BY <1>1, InvariantsHold, PTL

(* pmm.c: no free page lies below the hint of find_free_page.              *)
THEOREM HintCorrect == Spec => []HintIsLowerBound
<1>1. IInv => HintIsLowerBound
  BY DEF IInv
<1> QED BY <1>1, InvariantsHold, PTL

(* pmm.c: a set bit is a kernel page or a page some client holds.          *)
THEOREM BitmapCorrect == Spec => []BitmapAccountsForHolders
<1>1. IInv => BitmapAccountsForHolders
  BY DEF IInv
<1> QED BY <1>1, InvariantsHold, PTL

-----------------------------------------------------------------------------
(* pmm_alloc_page hands out the lowest page nobody holds, and answers 0    *)
(* only when somebody holds every page.                                    *)
THEOREM FirstFit == Spec => AllocIsFirstFit
<1> DEFINE Lowest == \A p \in held' \ held : p \in Unowned /\ \A q \in Unowned : p <= q
           Refusal == result # NoPage /\ result' = NoPage => Unowned = {}
<1>1. ASSUME IInv, [Next]_vars
      PROVE  [Lowest /\ Refusal]_vars
  <2>0. Unowned = Page \ memory_bitmap
    BY <1>1 DEF IInv, BitmapAccountsForHolders, Unowned
  <2>1. ASSUME NEW p \in Page, Alloc(p)
        PROVE  Lowest /\ Refusal
    <3>1. p \in Unowned /\ \A q \in Unowned : p <= q
      BY <1>1, <2>0, <2>1, FoundPageIsLowestFree DEF IInv, Alloc
    <3>2. p # NoPage
      BY <3>1, PmmAssumption DEF Unowned, KernelPage, NoPage
    <3> QED BY <2>1, <3>1, <3>2 DEF Alloc
  <2>2. CASE AllocFails
    <3>1. Unowned = {}
      BY <1>1, <2>0, <2>2, RefusalMeansFull DEF IInv, AllocFails
    <3> QED BY <2>2, <3>1 DEF AllocFails
  <2>3. ASSUME NEW p \in Returnable, Free(p)
        PROVE  Lowest /\ Refusal
    BY <2>3 DEF Free
  <2>4. ASSUME NEW p \in Returnable, FreeIgnored(p)
        PROVE  UNCHANGED vars
    BY <2>4 DEF FreeIgnored
  <2> QED BY <1>1, <2>1, <2>2, <2>3, <2>4 DEF Next
<1> QED BY <1>1, InvariantsHold, PTL DEF Spec, AllocIsFirstFit

-----------------------------------------------------------------------------
(* A step of Pmm is a step of the abstract allocator or changes nothing    *)
(* that it sees.                                                           *)
LEMMA StepRefines ==
  IInv /\ [Next]_vars =>
    [Abstract!Grant \/ Abstract!Refuse \/ Abstract!Return]_<<held, result>>
<1> SUFFICES ASSUME IInv, [Next]_vars
             PROVE  [Abstract!Grant \/ Abstract!Refuse \/ Abstract!Return]_<<held, result>>
  OBVIOUS
<1> DEFINE Available == Page \ (KernelPage \cup held)
<1>0. Available = Page \ memory_bitmap
  BY DEF IInv, BitmapAccountsForHolders
<1>1. ASSUME NEW p \in Page, Alloc(p)
      PROVE  Abstract!Grant
  <2>1. p \in Available
    BY <1>0, <1>1, FoundPageIsLowestFree DEF IInv, Alloc
  <2> QED BY <2>1, <1>1 DEF Alloc, Abstract!Grant, Abstract!Available
<1>2. CASE AllocFails
  <2>1. Available = {}
    BY <1>0, <1>2, RefusalMeansFull DEF IInv, AllocFails
  <2> QED BY <2>1, <1>2 DEF AllocFails, Abstract!Refuse, Abstract!Available
<1>3. ASSUME NEW p \in Returnable, Free(p)
      PROVE  Abstract!Return
  <2>1. p \in held
    BY <1>3 DEF IInv, TypeOK, Free, Freeable, Returnable, Page
  <2> QED BY <2>1, <1>3 DEF Free, Abstract!Return
<1>4. ASSUME NEW p \in Returnable, FreeIgnored(p)
      PROVE  UNCHANGED <<held, result>>
  BY <1>4 DEF FreeIgnored, vars
<1>5. CASE UNCHANGED vars
  BY <1>5 DEF vars
<1> QED BY <1>1, <1>2, <1>3, <1>4, <1>5 DEF Next

(* pmm.c implements the abstract allocator: every page is granted to one   *)
(* holder at a time and a request is refused only when memory is full.     *)
THEOREM PmmImplementsPageAllocator == Spec => ImplementsPageAllocator
<1>1. Init => Abstract!Init
  BY DEF Init, Abstract!Init
<1> QED BY <1>1, StepRefines, InvariantsHold, PTL
        DEF Spec, ImplementsPageAllocator, Abstract!Spec

-----------------------------------------------------------------------------
(***************************************************************************)
(* vmm.c.  Every page that was handed out has a role: D is the set of page *)
(* directories, F that of the tables of the first addresses, T that of the *)
(* other tables, and H that of the pages of the heap.  The kernel writes   *)
(* to tables by their physical addresses; once the CPU translates those,   *)
(* the contents of the table of[q] may be found in the page q of a heap.   *)
(***************************************************************************)
VirtualPage == 0 .. TableSize * TableSize - 1
HeapAddress == TableSize .. TableSize * TableSize - 1
Memory == [Page -> Table \cup {Data}]
Blank == [i \in Index |-> NULL]

Shaped(m, D, F, T, H, of, q) ==
  /\ of[q] \in D \cup F \cup T
  /\ IF q \in H THEN of[q] \in HeapAddress ELSE of[q] = q
  /\ of[q] \in D => \A i \in Index : m[q][i] \in (IF i = 0 THEN F ELSE T) \cup {NULL}
  /\ of[q] \in F => \A i \in Index : m[q][i] \in {i, NULL}
  /\ of[q] \in T => \A i \in Index : m[q][i] \in H \cup {NULL}

\* What the contents of K refer to, they refer to once.
Once(m, of, K) ==
  \A p, q \in Page : m[p] # Data /\ m[q] # Data /\ of[p] \in K /\ of[q] \in K =>
    \A i, j \in Index : m[p][i] = m[q][j] /\ m[p][i] # NULL => p = q /\ i = j

\* The contents of a table that are in a heap can be reached at the address
\* of that table only.
Alias(m, D, H, of) ==
  \A q \in H : m[q] # Data => \A c \in D : \A v \in HeapAddress : Walk(m, c, v) = q => v = of[q]

\* A translation that the CPU has cached leads to a page of the heap, to
\* which no other address leads.
Stale(m, D, H, of, k) ==
  \A v \in DOMAIN k :
    /\ v \in HeapAddress /\ k[v] \in H
    /\ m[k[v]] # Data => of[k[v]] = v
    /\ \A c \in D, w \in HeapAddress : Walk(m, c, w) = k[v] => w = v
    /\ \A w \in DOMAIN k : k[w] = k[v] => w = v

Apart(m, D, F, T, H, of, cached) ==
  /\ m \in Memory /\ of \in [Page -> Page]
  /\ D \cup F \cup T \cup H \subseteq Page
  /\ D \cap (F \cup T \cup H) = {} /\ F \cap (T \cup H) = {} /\ T \cap H = {}
  /\ \A q \in Page : m[q] # Data => Shaped(m, D, F, T, H, of, q)
  /\ Once(m, of, D) /\ Once(m, of, T)
  /\ Alias(m, D, H, of) /\ Stale(m, D, H, of, cached)

\* A page for the heap that is not mapped yet, and a table that is not.
Spare(m, T, H, of, e, cached) ==
  /\ e \in H /\ m[e] = Data
  /\ \A q \in Page : m[q] # Data /\ of[q] \in T => \A i \in Index : m[q][i] # e
  /\ \A v \in DOMAIN cached : cached[v] # e
Unlinked(m, D, of, t) ==
  /\ m[t] = Data \/ m[t] = Blank
  /\ \A q \in Page : m[q] # Data /\ of[q] \in D => \A i \in Index : m[q][i] # t

-----------------------------------------------------------------------------
LEMMA SizeFacts ==
  /\ TableSize \in Nat \ {0} /\ TotalPages \in Nat /\ 2 * TableSize <= TotalPages
  /\ TotalPages <= TableSize * TableSize /\ HeapMax \in Nat
  /\ HeapStart + HeapMax + 1 < TableSize * TableSize
  /\ KernelEndPage \in Nat \ {0} /\ KernelEndPage <= TableSize
  /\ Page \subseteq VirtualPage /\ VirtualPage \subseteq Nat /\ HeapAddress \subseteq VirtualPage
  /\ Index \subseteq Page /\ 0 \in Index
  /\ NULL \notin Int /\ Data \notin Int /\ NULL # Data /\ NULL \notin Page /\ Data \notin Page
  /\ Data \notin Table /\ Lost \notin Memory
BY SMTT(30), PmmAssumption, VmmAssumption DEF Page, VirtualPage, HeapAddress, Index, Memory, HeapStart

LEMMA AddressFacts ==
  ASSUME NEW v \in VirtualPage
  PROVE  /\ v \div TableSize \in Index /\ v % TableSize \in Index
         /\ v = TableSize * (v \div TableSize) + (v % TableSize)
         /\ v < TableSize => v \div TableSize = 0 /\ v % TableSize = v
         /\ v \div TableSize = 0 => v < TableSize
         /\ v >= TableSize <=> v \in HeapAddress
<1> DEFINE i == v \div TableSize
           j == v % TableSize
<1>1. TableSize \in Nat \ {0} /\ v \in Nat /\ v < TableSize * TableSize
  BY SizeFacts DEF VirtualPage
<1>2. v = TableSize * i + j /\ i \in Nat /\ j \in 0 .. TableSize - 1
  BY <1>1
<1>3. v < TableSize => i = 0 /\ j = v
  BY <1>1
<1> HIDE DEF i, j
<1>4. i < TableSize
  <2> SUFFICES ASSUME i >= TableSize PROVE FALSE
    BY <1>1, <1>2
  <2>1. TableSize * i >= TableSize * TableSize
    BY <1>1, <1>2
  <2>2. TableSize * i \in Nat /\ TableSize * TableSize \in Nat
    BY <1>1, <1>2
  <2> QED BY <1>1, <1>2, <2>1, <2>2
<1>5. i = 0 => v < TableSize
  BY <1>1, <1>2
<1>6. v >= TableSize <=> v \in HeapAddress
  BY <1>1 DEF HeapAddress, VirtualPage
<1> QED BY <1>1, <1>2, <1>3, <1>4, <1>5, <1>6 DEF Index, i, j

(* The contents of a page are Data or a table with its shape.              *)
LEMMA ContentFacts ==
  ASSUME NEW m, NEW D, NEW F, NEW T, NEW H, NEW of, NEW cached, Apart(m, D, F, T, H, of, cached),
         NEW q \in Page
  PROVE  /\ m[q] \in Table \cup {Data}
         /\ m[q] # Data => /\ m[q] \in Table /\ of[q] \in D \cup F \cup T
                           /\ q \notin H => of[q] = q
                           /\ q \in H => of[q] \in HeapAddress
                           /\ \A i \in Index :
                                /\ of[q] \in D /\ i = 0 => m[q][i] \in F \cup {NULL}
                                /\ of[q] \in D /\ i # 0 => m[q][i] \in T \cup {NULL}
                                /\ of[q] \in F => m[q][i] \in {i, NULL}
                                /\ of[q] \in T => m[q][i] \in H \cup {NULL}
<1>1. m[q] \in Table \cup {Data} /\ (m[q] # Data => Shaped(m, D, F, T, H, of, q))
  BY DEF Apart, Memory
<1> QED BY <1>1 DEF Shaped

(* The walk of the CPU: an address in the first table leads to itself, any *)
(* other one to the heap.                                                  *)
LEMMA CpuWalk ==
  ASSUME NEW m, NEW D, NEW F, NEW T, NEW H, NEW of, NEW cached, Apart(m, D, F, T, H, of, cached),
         NEW c \in D, NEW v \in VirtualPage, NEW q \in Page, Walk(m, c, v) = q
  PROVE  /\ m[c] # Data /\ of[c] = c /\ c \in Page
         /\ v < TableSize => q = v
         /\ v >= TableSize =>
              /\ m[c][v \div TableSize] \in T /\ m[c][v \div TableSize] \in Page
              /\ m[m[c][v \div TableSize]] # Data
              /\ of[m[c][v \div TableSize]] = m[c][v \div TableSize]
              /\ q = m[m[c][v \div TableSize]][v % TableSize] /\ q \in H
<1> DEFINE i == v \div TableSize
           j == v % TableSize
           t == m[c][i]
<1>1. /\ i \in Index /\ j \in Index /\ (v < TableSize <=> i = 0) /\ (v < TableSize => j = v)
      /\ v \in Nat /\ TableSize \in Nat
  BY AddressFacts, SizeFacts
<1>2. c \in Page /\ c \notin H /\ c \notin F /\ c \notin T
  BY DEF Apart
<1>3. q = IF Entry(m, c, i) \in Page THEN Entry(m, Entry(m, c, i), j) ELSE Entry(m, c, i)
  BY DEF Walk
<1> HIDE DEF i, j
<1>4. m[c] # Data
  BY <1>3, SizeFacts DEF Entry
<1>5. of[c] = c /\ t \in (IF i = 0 THEN F ELSE T) \cup {NULL}
  BY <1>1, <1>2, <1>4, ContentFacts
<1>6. Entry(m, c, i) = t
  BY <1>4 DEF Entry
<1> HIDE DEF t
<1>7. t \in Page /\ t # NULL
  BY <1>3, <1>5, <1>6, SizeFacts DEF Apart
<1>8. q = Entry(m, t, j)
  BY <1>3, <1>6, <1>7
<1>9. m[t] # Data /\ q = m[t][j]
  BY <1>8, SizeFacts DEF Entry
<1>10. CASE i = 0
  <2>1. t \in F /\ t \notin H /\ t \notin D /\ t \notin T
    BY <1>5, <1>7, <1>10 DEF Apart
  <2>2. of[t] = t /\ q \in {j, NULL}
    BY <1>1, <1>7, <1>9, <2>1, ContentFacts
  <2> QED BY <1>1, <1>2, <1>4, <1>5, <1>10, <2>2, SizeFacts
<1>11. CASE i # 0
  <2>1. t \in T /\ t \notin H /\ t \notin D /\ t \notin F
    BY <1>5, <1>7, <1>11 DEF Apart
  <2>2. of[t] = t /\ q \in H \cup {NULL}
    BY <1>1, <1>7, <1>9, <2>1, ContentFacts
  <2> QED BY <1>1, <1>2, <1>4, <1>5, <1>7, <1>9, <1>11, <2>1, <2>2, SizeFacts DEF t, i, j
<1> QED BY <1>10, <1>11

(* A page of the heap is at one address, in one directory.                 *)
LEMMA OneWay ==
  ASSUME NEW m, NEW D, NEW F, NEW T, NEW H, NEW of, NEW cached, Apart(m, D, F, T, H, of, cached),
         NEW c \in D, NEW d \in D, NEW v \in HeapAddress, NEW w \in HeapAddress, NEW q \in Page,
         Walk(m, c, v) = q, Walk(m, d, w) = q
  PROVE  c = d /\ v = w
<1> DEFINE i == v \div TableSize
           j == v % TableSize
           k == w \div TableSize
           l == w % TableSize
           s == m[c][i]
           t == m[d][k]
<1>1. v \in VirtualPage /\ w \in VirtualPage /\ v >= TableSize /\ w >= TableSize
  BY SizeFacts, AddressFacts
<1>2. i \in Index /\ j \in Index /\ k \in Index /\ l \in Index
      /\ v = TableSize * i + j /\ w = TableSize * k + l
  BY <1>1, AddressFacts
<1>3. /\ m[c] # Data /\ of[c] = c /\ c \in Page
      /\ s \in T /\ s \in Page /\ m[s] # Data /\ of[s] = s /\ q = m[s][j]
  BY <1>1, CpuWalk
<1>4. /\ m[d] # Data /\ of[d] = d /\ d \in Page
      /\ t \in T /\ t \in Page /\ m[t] # Data /\ of[t] = t /\ q = m[t][l]
  BY <1>1, CpuWalk
<1> HIDE DEF i, j, k, l
<1>5. q # NULL /\ s # NULL
  BY <1>3, SizeFacts
<1>6. s = t /\ j = l
  <2>1. Once(m, of, T)
    BY DEF Apart
  <2>2. /\ s \in Page /\ t \in Page /\ j \in Index /\ l \in Index
        /\ m[s] # Data /\ m[t] # Data /\ of[s] \in T /\ of[t] \in T
        /\ m[s][j] = m[t][l] /\ m[s][j] # NULL
    BY <1>2, <1>3, <1>4, <1>5
  <2> HIDE DEF s, t
  <2> QED BY <2>1, <2>2 DEF Once
<1>7. c = d /\ i = k
  <2>1. Once(m, of, D) /\ m[c][i] = m[d][k] /\ m[c][i] # NULL
    BY <1>5, <1>6 DEF Apart
  <2> QED BY <1>2, <1>3, <1>4, <2>1 DEF Once
<1> QED BY <1>2, <1>6, <1>7

(* Where the kernel finds a page, by its physical address, that is not of  *)
(* the heap: in that page, or in one of the heap that has its contents.    *)
LEMMA Meant ==
  ASSUME NEW m, NEW D, NEW F, NEW T, NEW H, NEW of, Apart(m, D, F, T, H, of, tlb),
         cr3 \in D \cup {NULL}, NEW x \in Page \ H, NEW q \in Page, Reach(m, x) = q
  PROVE  /\ m[q] # Data => of[q] = x
         /\ q \notin H => q = x
         /\ q \in H => /\ x \in HeapAddress
                       /\ \/ cr3 \in D /\ Walk(m, cr3, x) = q
                          \/ x \in DOMAIN tlb /\ tlb[x] = q
<1>1. x \in VirtualPage
  BY SizeFacts
<1>2. CASE cr3 = NULL
  <2>1. q = x
    BY <1>2 DEF Reach
  <2> QED BY <2>1, ContentFacts
<1>3. CASE cr3 # NULL /\ ~Cached(x)
  <2>1. cr3 \in D /\ Walk(m, cr3, x) = q
    BY <1>3 DEF Reach
  <2>2. CASE x < TableSize
    <3>1. q = x
      BY <1>1, <2>1, <2>2, CpuWalk
    <3> QED BY <3>1, ContentFacts
  <2>3. CASE x >= TableSize
    <3>1. q \in H /\ x \in HeapAddress
      BY <1>1, <2>1, <2>3, CpuWalk, AddressFacts
    <3>2. m[q] # Data => of[q] = x
      BY <2>1, <3>1 DEF Apart, Alias
    <3> QED BY <2>1, <3>1, <3>2
  <2> QED BY <1>1, <2>2, <2>3, SizeFacts
<1>4. CASE cr3 # NULL /\ Cached(x)
  <2>1. q = tlb[x] /\ x \in DOMAIN tlb
    BY <1>4 DEF Reach, Cached
  <2> QED BY <2>1 DEF Apart, Stale
<1> QED BY <1>2, <1>3, <1>4

-----------------------------------------------------------------------------
(* What the kernel writes keeps everything apart.                          *)
Written(m, q, x) == [m EXCEPT ![q] = x]

LEMMA WalkParts ==
  ASSUME NEW m, NEW c, NEW v
  PROVE  LET t == m[c][v \div TableSize]
             found == m[c] # Data /\ t \in Page /\ m[t] # Data
         IN /\ Walk(m, c, v) \in Page => found
            /\ found => Walk(m, c, v) = m[t][v % TableSize]
BY SizeFacts DEF Walk, Entry

LEMMA WrittenFacts ==
  ASSUME NEW m \in Memory, NEW q \in Page, NEW x \in Table \cup {Data}, NEW g, g = Written(m, q, x)
  PROVE  g \in Memory /\ g[q] = x /\ \A p \in Page : p # q => g[p] = m[p]
BY DEF Memory, Written

(* Data over anything.                                                     *)
LEMMA UseKeeps ==
  ASSUME NEW m, NEW D, NEW F, NEW T, NEW H, NEW of, NEW cached, Apart(m, D, F, T, H, of, cached),
         NEW q \in Page, NEW g, g = Written(m, q, Data)
  PROVE  /\ Apart(g, D, F, T, H, of, cached)
         /\ \A e \in Page : Spare(m, T, H, of, e, cached) => Spare(g, T, H, of, e, cached)
         /\ \A t \in Page : Unlinked(m, D, of, t) => Unlinked(g, D, of, t)
<1>1. /\ m \in Memory /\ D \subseteq Page /\ H \subseteq Page
      /\ Once(m, of, D) /\ Once(m, of, T) /\ Alias(m, D, H, of)
      /\ \A p \in Page : m[p] # Data => Shaped(m, D, F, T, H, of, p)
  BY DEF Apart
<1>2. g \in Memory /\ g[q] = Data /\ \A p \in Page : p # q => g[p] = m[p]
  BY <1>1, WrittenFacts
<1>3. \A p \in Page : g[p] # Data => g[p] = m[p] /\ m[p] # Data
  BY <1>2
<1>4. \A p \in Page : g[p] # Data => Shaped(g, D, F, T, H, of, p)
  BY <1>1, <1>3 DEF Shaped
<1>5. Once(g, of, D) /\ Once(g, of, T)
  BY <1>1, <1>3 DEF Once
<1>6. ASSUME NEW c \in D, NEW v \in HeapAddress, NEW p \in Page, Walk(g, c, v) = p
      PROVE  Walk(m, c, v) = p
  <2>1. c \in Page
    BY <1>1
  <2> DEFINE t == g[c][v \div TableSize]
  <2>2. g[c] # Data /\ t \in Page /\ g[t] # Data /\ p = g[t][v % TableSize]
    BY <1>6, <2>1, WalkParts
  <2>3. m[c] = g[c] /\ m[t] = g[t]
    BY <1>3, <2>1, <2>2
  <2>4. m[c][v \div TableSize] = t /\ p = m[t][v % TableSize]
    BY <2>2, <2>3
  <2> HIDE DEF t
  <2> QED BY <2>2, <2>3, <2>4, WalkParts
<1>6a. Alias(g, D, H, of)
  BY <1>1, <1>3, <1>6 DEF Alias
<1>6b. Stale(g, D, H, of, cached)
  <2>1. Stale(m, D, H, of, cached)
    BY DEF Apart
  <2> QED BY <1>1, <1>3, <1>6, <2>1 DEF Stale
<1>7. Apart(g, D, F, T, H, of, cached)
  BY <1>2, <1>4, <1>5, <1>6a, <1>6b DEF Apart
<1>8. \A e \in Page : Spare(m, T, H, of, e, cached) => Spare(g, T, H, of, e, cached)
  BY <1>2, <1>3 DEF Spare
<1>9. \A t \in Page : Unlinked(m, D, of, t) => Unlinked(g, D, of, t)
  BY <1>2, <1>3 DEF Unlinked
<1> QED BY <1>7, <1>8, <1>9

(* A new directory or table is cleared.                                    *)
LEMMA ClearKeeps ==
  ASSUME NEW m, NEW D, NEW F, NEW T, NEW H, NEW of, Apart(m, D, F, T, H, of, tlb),
         cr3 \in D \cup {NULL},
         NEW x \in Page \ (D \cup F \cup T \cup H), NEW q \in Page, Reach(m, x) = q,
         NEW g, g = Written(m, q, Blank),
         NEW D2, NEW F2, NEW T2,
         \/ D2 = D \cup {x} /\ F2 = F /\ T2 = T
         \/ D2 = D /\ F2 = F \cup {x} /\ T2 = T
         \/ D2 = D /\ F2 = F /\ T2 = T \cup {x},
         NEW of2, of2 = Written(of, q, x)
  PROVE  /\ Apart(g, D2, F2, T2, H, of2, tlb)
         /\ Unlinked(g, D2, of2, x)
         /\ \A e \in Page : Spare(m, T, H, of, e, tlb) /\ e # q => Spare(g, T2, H, of2, e, tlb)
<1>1. /\ m \in Memory /\ D \cup F \cup T \cup H \subseteq Page /\ of \in [Page -> Page]
      /\ D \cap (F \cup T \cup H) = {} /\ F \cap (T \cup H) = {} /\ T \cap H = {}
      /\ Once(m, of, D) /\ Once(m, of, T) /\ Alias(m, D, H, of)
      /\ \A p \in Page : m[p] # Data => Shaped(m, D, F, T, H, of, p)
  BY DEF Apart
<1>2. Blank \in Table /\ Blank # Data /\ \A i \in Index : Blank[i] = NULL
  BY SizeFacts DEF Blank, Table
<1> HIDE DEF Blank
<1>3. g \in Memory /\ g[q] = Blank /\ \A p \in Page : p # q => g[p] = m[p]
  BY <1>1, <1>2, WrittenFacts
<1>4. of2 \in [Page -> Page] /\ of2[q] = x /\ \A p \in Page : p # q => of2[p] = of[p]
  BY <1>1 DEF Written
<1>5. /\ q \notin H => q = x
      /\ q \in H => /\ x \in HeapAddress
                    /\ \/ cr3 \in D /\ Walk(m, cr3, x) = q
                       \/ x \in DOMAIN tlb /\ tlb[x] = q
  BY Meant
<1>6. /\ D2 \cup F2 \cup T2 \cup H \subseteq Page
      /\ D2 \cap (F2 \cup T2 \cup H) = {} /\ F2 \cap (T2 \cup H) = {} /\ T2 \cap H = {}
      /\ D \subseteq D2 /\ F \subseteq F2 /\ T \subseteq T2 /\ x \in D2 \cup F2 \cup T2
      /\ D2 \subseteq D \cup {x} /\ F2 \subseteq F \cup {x} /\ T2 \subseteq T \cup {x}
  BY <1>1
<1>7. m[x] = Data
  BY ContentFacts
<1>8. \A p \in Page : p # q /\ g[p] # Data => /\ g[p] = m[p] /\ m[p] # Data /\ of2[p] = of[p]
                                              /\ of[p] \in D \cup F \cup T /\ of[p] # x
  BY <1>1, <1>3, <1>4 DEF Shaped
<1>9. ASSUME NEW p \in Page, g[p] # Data PROVE Shaped(g, D2, F2, T2, H, of2, p)
  <2>1. CASE p = q
    BY <1>2, <1>3, <1>4, <1>5, <1>6, <2>1 DEF Shaped
  <2>2. CASE p # q
    BY <1>1, <1>6, <1>8, <1>9, <2>2 DEF Shaped
  <2> QED BY <2>1, <2>2
<1>10. Once(g, of2, D2) /\ Once(g, of2, T2)
  <2>1. \A p \in Page, i \in Index : g[p] # Data /\ g[p][i] # NULL => p # q
    BY <1>2, <1>3
  <2>2. Once(g, of2, D2)
    BY <1>1, <1>6, <1>8, <2>1 DEF Once
  <2>3. Once(g, of2, T2)
    BY <1>1, <1>6, <1>8, <2>1 DEF Once
  <2> QED BY <2>2, <2>3
<1>11. ASSUME NEW c \in D2, NEW v \in HeapAddress, NEW p \in Page, Walk(g, c, v) = p
       PROVE  c \in D /\ Walk(m, c, v) = p
  <2>1. c \in Page /\ p # NULL
    BY <1>1, <1>6, SizeFacts
  <2>2. v \in VirtualPage /\ v \div TableSize \in Index /\ v % TableSize \in Index
    BY SizeFacts, AddressFacts
  <2> DEFINE t == g[c][v \div TableSize]
  <2>3. g[c] # Data /\ t \in Page /\ g[t] # Data /\ p = g[t][v % TableSize]
    BY <1>11, <2>1, WalkParts
  <2>4. c # q /\ t # q
    BY <1>2, <1>3, <2>1, <2>2, <2>3, SizeFacts
  <2>5. g[c] = m[c] /\ m[c] # Data /\ g[t] = m[t] /\ m[t] # Data /\ c \in D
    BY <1>3, <1>6, <1>7, <2>1, <2>3, <2>4
  <2>6. m[c][v \div TableSize] = t /\ p = m[t][v % TableSize]
    BY <2>3, <2>5
  <2> HIDE DEF t
  <2> QED BY <2>3, <2>5, <2>6, WalkParts
<1>11a. Stale(m, D, H, of, tlb)
  BY DEF Apart
<1>11b. Alias(g, D2, H, of2)
  <2> SUFFICES ASSUME NEW p \in H, g[p] # Data, NEW c \in D2, NEW v \in HeapAddress, Walk(g, c, v) = p
               PROVE  v = of2[p]
    BY DEF Alias
  <2>1. p \in Page /\ c \in D /\ Walk(m, c, v) = p
    BY <1>1, <1>11
  <2>2. CASE p = q
    <3>1. x = v
      BY <1>5, <1>11a, <2>1, <2>2, OneWay DEF Stale
    <3> QED BY <1>4, <2>2, <3>1
  <2>3. CASE p # q
    BY <1>1, <1>8, <2>1, <2>3 DEF Alias
  <2> QED BY <2>2, <2>3
<1>11c. Stale(g, D2, H, of2, tlb)
  <2> SUFFICES ASSUME NEW v \in DOMAIN tlb
               PROVE  /\ v \in HeapAddress /\ tlb[v] \in H
                      /\ g[tlb[v]] # Data => of2[tlb[v]] = v
                      /\ \A c \in D2, w \in HeapAddress : Walk(g, c, w) = tlb[v] => w = v
                      /\ \A w \in DOMAIN tlb : tlb[w] = tlb[v] => w = v
    BY DEF Stale
  <2>1. /\ v \in HeapAddress /\ tlb[v] \in H /\ tlb[v] \in Page
        /\ m[tlb[v]] # Data => of[tlb[v]] = v
        /\ \A c \in D, w \in HeapAddress : Walk(m, c, w) = tlb[v] => w = v
        /\ \A w \in DOMAIN tlb : tlb[w] = tlb[v] => w = v
    BY <1>1, <1>11a DEF Stale
  <2>2. \A c \in D2, w \in HeapAddress : Walk(g, c, w) = tlb[v] => w = v
    BY <1>11, <2>1
  <2>3. tlb[v] = q => x = v
    BY <1>5, <2>1
  <2>4. g[tlb[v]] # Data => of2[tlb[v]] = v
    BY <1>4, <1>8, <2>1, <2>3
  <2> QED BY <2>1, <2>2, <2>4
<1>12. Apart(g, D2, F2, T2, H, of2, tlb)
  BY <1>3, <1>4, <1>6, <1>9, <1>10, <1>11b, <1>11c DEF Apart
<1>13. Unlinked(g, D2, of2, x)
  <2>1. g[x] = Data \/ g[x] = Blank
    BY <1>3, <1>7
  <2>2. ASSUME NEW p \in Page, g[p] # Data, of2[p] \in D2, NEW i \in Index PROVE g[p][i] # x
    <3>1. CASE p = q
      BY <1>2, <1>3, <3>1, SizeFacts
    <3>2. CASE p # q
      <4>1. g[p] = m[p] /\ m[p] # Data /\ of[p] \in D
        BY <1>6, <1>8, <2>2, <3>2
      <4> QED BY <4>1, ContentFacts, SizeFacts
    <3> QED BY <3>1, <3>2
  <2> QED BY <2>1, <2>2 DEF Unlinked
<1>14. ASSUME NEW e \in Page, Spare(m, T, H, of, e, tlb), e # q PROVE Spare(g, T2, H, of2, e, tlb)
  <2>1. e \in H /\ g[e] = Data
    BY <1>3, <1>14 DEF Spare
  <2>2. ASSUME NEW p \in Page, g[p] # Data, of2[p] \in T2, NEW i \in Index PROVE g[p][i] # e
    <3>1. CASE p = q
      BY <1>2, <1>3, <3>1, SizeFacts
    <3>2. CASE p # q
      BY <1>6, <1>8, <1>14, <2>2, <3>2 DEF Spare
    <3> QED BY <3>1, <3>2
  <2> QED BY <1>14, <2>1, <2>2 DEF Spare
<1> QED BY <1>12, <1>13, <1>14

(* A spare page is in no table, so the kernel does not find anything there. *)
LEMMA SpareUnseen ==
  ASSUME NEW m, NEW D, NEW F, NEW T, NEW H, NEW of, Apart(m, D, F, T, H, of, tlb),
         cr3 \in D \cup {NULL}, NEW x \in Page \ H, NEW e \in Page, Spare(m, T, H, of, e, tlb)
  PROVE  Reach(m, x) # e
<1> SUFFICES ASSUME Reach(m, x) = e PROVE FALSE
  OBVIOUS
<1>1. cr3 \in D /\ x \in HeapAddress /\ Walk(m, cr3, x) = e
  BY Meant DEF Spare
<1>2. x \in VirtualPage /\ x >= TableSize /\ x % TableSize \in Index
  BY <1>1, SizeFacts, AddressFacts
<1> QED BY <1>1, <1>2, CpuWalk DEF Spare

-----------------------------------------------------------------------------
Stored(m, q, i, e) == Written(m, q, [m[q] EXCEPT ![i] = e])

\* What the kernel enters in the page q: a table into a directory, the page
\* itself into a table of the first addresses, a page of the heap into
\* another table.
Fits(m, D, F, T, H, of, cached, q, i, e) ==
  \/ of[q] \in D /\ e \in (IF i = 0 THEN F ELSE T) /\ Unlinked(m, D, of, e)
  \/ of[q] \in F /\ e = i
  \/ of[q] \in T /\ Spare(m, T, H, of, e, cached)

LEMMA StoredFacts ==
  ASSUME NEW m \in Memory, NEW q \in Page, m[q] # Data, NEW i \in Index, NEW e \in Page,
         NEW g, g = Stored(m, q, i, e)
  PROVE  /\ g \in Memory
         /\ g[q] # Data /\ g[q][i] = e
         /\ \A j \in Index : j # i => g[q][j] = m[q][j]
         /\ \A p \in Page : p # q => g[p] = m[p]
<1> DEFINE y == [m[q] EXCEPT ![i] = e]
<1>1. m[q] \in Table
  BY DEF Memory
<1>2. y \in Table /\ y[i] = e /\ \A j \in Index : j # i => y[j] = m[q][j]
  BY <1>1 DEF Table
<1>3. g = Written(m, q, y)
  BY DEF Stored
<1> HIDE DEF y
<1>4. y # Data
  BY <1>2, SizeFacts
<1>5. g \in Memory /\ g[q] = y /\ \A p \in Page : p # q => g[p] = m[p]
  BY <1>2, <1>3, WrittenFacts
<1> QED BY <1>2, <1>4, <1>5

LEMMA StoreKeeps ==
  ASSUME NEW m, NEW D, NEW F, NEW T, NEW H, NEW of, NEW cached, Apart(m, D, F, T, H, of, cached),
         NEW q \in Page, m[q] # Data, NEW i \in Index, NEW e \in Page,
         Fits(m, D, F, T, H, of, cached, q, i, e),
         NEW g, g = Stored(m, q, i, e)
  PROVE  /\ Apart(g, D, F, T, H, of, cached)
         /\ of[q] \notin T => \A s \in Page : Spare(m, T, H, of, s, cached) => Spare(g, T, H, of, s, cached)
<1>1. /\ m \in Memory /\ D \cup F \cup T \cup H \subseteq Page /\ of \in [Page -> Page]
      /\ D \cap (F \cup T \cup H) = {} /\ F \cap (T \cup H) = {} /\ T \cap H = {}
      /\ Once(m, of, D) /\ Once(m, of, T) /\ Alias(m, D, H, of)
      /\ \A p \in Page : m[p] # Data => Shaped(m, D, F, T, H, of, p)
  BY DEF Apart
<1>2. /\ g \in Memory /\ g[q] # Data /\ g[q][i] = e
      /\ \A j \in Index : j # i => g[q][j] = m[q][j]
      /\ \A p \in Page : p # q => g[p] = m[p]
  BY <1>1, StoredFacts
<1>3. \A p \in Page : g[p] # Data <=> m[p] # Data
  BY <1>2
<1>4. e # NULL
  BY SizeFacts
<1>5. ASSUME NEW p \in Page, g[p] # Data PROVE Shaped(g, D, F, T, H, of, p)
  <2>1. Shaped(m, D, F, T, H, of, p)
    BY <1>1, <1>3, <1>5
  <2>2. CASE p # q
    BY <1>2, <2>1, <2>2 DEF Shaped
  <2>3. CASE p = q
    <3>1. of[q] \in D => e \in (IF i = 0 THEN F ELSE T)
      BY <1>1 DEF Fits
    <3>2. of[q] \in F => e = i
      BY <1>1 DEF Fits
    <3>3. of[q] \in T => e \in H
      BY <1>1 DEF Fits, Spare
    <3>4. of[q] \in D => \A j \in Index : g[q][j] \in (IF j = 0 THEN F ELSE T) \cup {NULL}
      BY <1>2, <2>1, <2>3, <3>1 DEF Shaped
    <3>5. of[q] \in F => \A j \in Index : g[q][j] \in {j, NULL}
      BY <1>2, <2>1, <2>3, <3>2 DEF Shaped
    <3>6. of[q] \in T => \A j \in Index : g[q][j] \in H \cup {NULL}
      BY <1>2, <2>1, <2>3, <3>3 DEF Shaped
    <3> QED BY <2>1, <2>3, <3>4, <3>5, <3>6 DEF Shaped
  <2> QED BY <2>2, <2>3
<1>6. \A p \in Page, j \in Index : g[p] # Data /\ (p # q \/ j # i) => g[p][j] = m[p][j]
  BY <1>2
<1>7. Once(g, of, D)
  <2>1. CASE of[q] \notin D
    BY <1>1, <1>3, <1>6, <2>1 DEF Once
  <2>2. CASE of[q] \in D
    <3>1. \A p \in Page : m[p] # Data /\ of[p] \in D => \A j \in Index : m[p][j] # e
      BY <1>1, <2>2 DEF Fits, Unlinked
    <3> QED BY <1>1, <1>2, <1>3, <1>6, <3>1 DEF Once
  <2> QED BY <2>1, <2>2
<1>8. Once(g, of, T)
  <2>1. CASE of[q] \notin T
    BY <1>1, <1>3, <1>6, <2>1 DEF Once
  <2>2. CASE of[q] \in T
    <3>1. \A p \in Page : m[p] # Data /\ of[p] \in T => \A j \in Index : m[p][j] # e
      BY <1>1, <2>2 DEF Fits, Spare
    <3> QED BY <1>1, <1>2, <1>3, <1>6, <3>1 DEF Once
  <2> QED BY <2>1, <2>2
<1>9. ASSUME NEW c \in D, NEW v \in HeapAddress, NEW p \in Page, Walk(g, c, v) = p
      PROVE  Walk(m, c, v) = p \/ (p = e /\ Spare(m, T, H, of, e, cached))
  <2>1. c \in Page /\ p # NULL /\ c \notin H
    BY <1>1, SizeFacts
  <2> DEFINE k == v \div TableSize
             l == v % TableSize
             t == g[c][k]
  <2>2. k \in Index /\ l \in Index /\ k # 0
    <3>1. v \in VirtualPage /\ v \in Nat /\ TableSize \in Nat /\ v >= TableSize
      BY <1>9, SizeFacts DEF HeapAddress
    <3> QED BY <3>1, AddressFacts
  <2>3. g[c] # Data /\ t \in Page /\ g[t] # Data /\ p = g[t][l]
    BY <1>9, <2>1, WalkParts
  <2> HIDE DEF k, l
  <2>4. of[c] = c /\ t \in T /\ t \notin H /\ t # NULL
    BY <1>1, <1>5, <2>1, <2>2, <2>3, SizeFacts DEF Shaped
  <2>5. of[t] = t
    BY <1>5, <2>3, <2>4 DEF Shaped
  <2>6. CASE t = m[c][k] /\ p = m[t][l]
    <3>1. Walk(m, c, v) = p
      <4>1. m[c] # Data /\ m[t] # Data
        BY <1>3, <2>1, <2>3
      <4>2. t = m[c][v \div TableSize] /\ p = m[t][v % TableSize]
        BY <2>6 DEF k, l
      <4> HIDE DEF t
      <4> QED BY <2>3, <4>1, <4>2, WalkParts
    <3> QED BY <3>1
  <2>7. CASE c = q /\ k = i
    <3>1. t = e /\ Unlinked(m, D, of, e) /\ t # q
      BY <1>1, <1>2, <2>4, <2>7 DEF Fits
    <3>2. m[e] = Blank /\ g[t] = Blank
      BY <1>2, <1>3, <2>3, <3>1 DEF Unlinked
    <3> QED BY <2>1, <2>2, <2>3, <3>2 DEF Blank
  <2>8. CASE t = q /\ l = i
    <3>1. p = e
      BY <1>2, <2>3, <2>8
    <3>2. Spare(m, T, H, of, e, cached)
      BY <1>1, <2>4, <2>5, <2>8 DEF Fits
    <3> QED BY <3>1, <3>2
  <2> QED BY <1>6, <2>1, <2>2, <2>3, <2>6, <2>7, <2>8
<1>9a. Alias(g, D, H, of)
  <2> SUFFICES ASSUME NEW p \in H, g[p] # Data, NEW c \in D, NEW v \in HeapAddress, Walk(g, c, v) = p
               PROVE  v = of[p]
    BY DEF Alias
  <2>1. p \in Page /\ m[p] # Data
    BY <1>1, <1>3
  <2>2. Walk(m, c, v) = p
    BY <1>9, <2>1 DEF Spare
  <2> QED BY <1>1, <2>1, <2>2 DEF Alias
<1>9b. Stale(g, D, H, of, cached)
  <2> SUFFICES ASSUME NEW v \in DOMAIN cached
               PROVE  /\ v \in HeapAddress /\ cached[v] \in H
                      /\ g[cached[v]] # Data => of[cached[v]] = v
                      /\ \A c \in D, w \in HeapAddress : Walk(g, c, w) = cached[v] => w = v
                      /\ \A w \in DOMAIN cached : cached[w] = cached[v] => w = v
    BY DEF Stale
  <2>1. /\ v \in HeapAddress /\ cached[v] \in H /\ cached[v] \in Page
        /\ m[cached[v]] # Data => of[cached[v]] = v
        /\ \A c \in D, w \in HeapAddress : Walk(m, c, w) = cached[v] => w = v
        /\ \A w \in DOMAIN cached : cached[w] = cached[v] => w = v
    BY <1>1 DEF Apart, Stale
  <2>2. ASSUME NEW c \in D, NEW w \in HeapAddress, Walk(g, c, w) = cached[v]
        PROVE  w = v
    <3>1. Walk(m, c, w) = cached[v]
      BY <1>9, <2>1, <2>2 DEF Spare
    <3> QED BY <2>1, <3>1
  <2> QED BY <1>3, <2>1, <2>2
<1>10. ASSUME of[q] \notin T, NEW s \in Page, Spare(m, T, H, of, s, cached) PROVE Spare(g, T, H, of, s, cached)
  BY <1>2, <1>3, <1>6, <1>10 DEF Spare
<1>11. Apart(g, D, F, T, H, of, cached)
  BY <1>1, <1>2, <1>5, <1>7, <1>8, <1>9a, <1>9b DEF Apart
<1> QED BY <1>10, <1>11

-----------------------------------------------------------------------------
(* Write, Clear, Use and Store of Vmm in these terms.                      *)
LEMMA Accesses ==
  ASSUME NEW m \in Memory, NEW x, NEW i, NEW e
  PROVE  LET q == Reach(m, x)
         IN /\ q \in Page => /\ Clear(m, x) = Written(m, q, Blank)
                             /\ Use(m, x) = Written(m, q, Data)
                             /\ m[q] # Data => Store(m, x, i, e) = Stored(m, q, i, e)
                             /\ m[q] = Data => Store(m, x, i, e) = Written(m, q, Data)
            /\ q \notin Page => Clear(m, x) = Lost /\ Use(m, x) = Lost /\ Store(m, x, i, e) = Lost
<1>1. m # Lost
  BY SizeFacts
<1> QED BY <1>1 DEF Clear, Use, Store, Write, Written, Stored, Blank

LEMMA LostStays ==
  ASSUME NEW x, NEW i, NEW e
  PROVE  Clear(Lost, x) = Lost /\ Use(Lost, x) = Lost /\ Store(Lost, x, i, e) = Lost
BY DEF Clear, Use, Store, Write

Roots(D) == cr3 \in D \cup {NULL}

LEMMA UseApart ==
  ASSUME NEW m, NEW D, NEW F, NEW T, NEW H, NEW of, Apart(m, D, F, T, H, of, tlb),
         NEW v, NEW g, g = Use(m, v), g # Lost
  PROVE  /\ Apart(g, D, F, T, H, of, tlb)
         /\ \A e \in Page : Spare(m, T, H, of, e, tlb) => Spare(g, T, H, of, e, tlb)
<1>1. m \in Memory
  BY DEF Apart
<1>2. Reach(m, v) \in Page /\ g = Written(m, Reach(m, v), Data)
  BY <1>1, Accesses
<1> QED BY <1>2, UseKeeps

LEMMA ClearApart ==
  ASSUME NEW m, NEW D, NEW F, NEW T, NEW H, NEW of, Apart(m, D, F, T, H, of, tlb), Roots(D),
         NEW x \in Page \ (D \cup F \cup T \cup H),
         NEW g, g = Clear(m, x), g # Lost,
         NEW D2, NEW F2, NEW T2,
         \/ D2 = D \cup {x} /\ F2 = F /\ T2 = T
         \/ D2 = D /\ F2 = F \cup {x} /\ T2 = T
         \/ D2 = D /\ F2 = F /\ T2 = T \cup {x}
  PROVE  \E of2 : /\ Apart(g, D2, F2, T2, H, of2, tlb)
                  /\ Unlinked(g, D2, of2, x)
                  /\ \A e \in Page : Spare(m, T, H, of, e, tlb) => Spare(g, T2, H, of2, e, tlb)
<1>1. m \in Memory
  BY DEF Apart
<1>2. Reach(m, x) \in Page /\ g = Written(m, Reach(m, x), Blank)
  BY <1>1, Accesses
<1>3. \A e \in Page : Spare(m, T, H, of, e, tlb) => e # Reach(m, x)
  BY SpareUnseen DEF Roots
<1> DEFINE q == Reach(m, x)
           of2 == Written(of, q, x)
<1>4. /\ Apart(g, D2, F2, T2, H, of2, tlb) /\ Unlinked(g, D2, of2, x)
      /\ \A e \in Page : Spare(m, T, H, of, e, tlb) /\ e # q => Spare(g, T2, H, of2, e, tlb)
  <2>0. of2 = Written(of, q, x)
    OBVIOUS
  <2> HIDE DEF q, of2
  <2>1. q \in Page /\ Reach(m, x) = q /\ g = Written(m, q, Blank) /\ cr3 \in D \cup {NULL}
    BY <1>2 DEF q, Roots
  <2> QED BY <2>0, <2>1, ClearKeeps
<1> QED BY <1>3, <1>4

\* What the kernel enters in the table at the address x.
Enters(m, D, F, T, H, of, cached, x, i, e) ==
  \/ x \in D /\ e \in (IF i = 0 THEN F ELSE T) /\ Unlinked(m, D, of, e)
  \/ x \in F /\ e = i
  \/ x \in T /\ Spare(m, T, H, of, e, cached)

LEMMA StoreApart ==
  ASSUME NEW m, NEW D, NEW F, NEW T, NEW H, NEW of, Apart(m, D, F, T, H, of, tlb), Roots(D),
         NEW cached, Apart(m, D, F, T, H, of, cached),
         NEW x, NEW i \in Index, NEW e \in Page, Enters(m, D, F, T, H, of, cached, x, i, e),
         NEW g, g = Store(m, x, i, e), g # Lost
  PROVE  /\ Apart(g, D, F, T, H, of, cached)
         /\ x \notin T => \A s \in Page : Spare(m, T, H, of, s, cached) => Spare(g, T, H, of, s, cached)
<1> DEFINE q == Reach(m, x)
<1>1. m \in Memory
  BY DEF Apart
<1>2. q \in Page
  BY <1>1, Accesses
<1>3. x \in Page \ H
  BY DEF Enters, Apart
<1> HIDE DEF q
<1>4. m[q] # Data => of[q] = x
  BY <1>2, <1>3, Meant DEF q, Roots
<1>5. CASE m[q] = Data
  <2>1. g = Written(m, q, Data)
    BY <1>1, <1>2, <1>5, Accesses DEF q
  <2> QED BY <1>2, <2>1, UseKeeps
<1>6. CASE m[q] # Data
  <2>1. g = Stored(m, q, i, e)
    BY <1>1, <1>2, <1>6, Accesses DEF q
  <2>2. Fits(m, D, F, T, H, of, cached, q, i, e)
    BY <1>4, <1>6 DEF Fits, Enters
  <2> QED BY <1>2, <1>4, <1>6, <2>1, <2>2, StoreKeeps
<1> QED BY <1>5, <1>6

-----------------------------------------------------------------------------
(* While the pages in use are those of the first table, and mapped there,  *)
(* the kernel finds each table where it looks for it.                      *)
Near(m, D, F, T) ==
  /\ D \cup F \cup T \subseteq Index
  /\ \A p \in D \cup F \cup T : m[p] # Data
  /\ cr3 # NULL => \A v \in Index : Walk(m, cr3, v) \in Page

KeepsWalks(m, g, D) ==
  \A c \in D, v \in VirtualPage : Walk(m, c, v) \in Page => Walk(g, c, v) \in Page

LEMMA NearReach ==
  ASSUME NEW m, NEW D, NEW F, NEW T, NEW H, NEW of, Apart(m, D, F, T, H, of, tlb), Roots(D),
         Near(m, D, F, T), NEW x \in Index
  PROVE  Reach(m, x) = x /\ x \in Page
<1>1. x \in Page /\ x \in VirtualPage /\ x < TableSize
  BY SizeFacts DEF Index
<1>2. CASE cr3 = NULL
  BY <1>1, <1>2 DEF Reach
<1>3. ~Cached(x)
  <2>1. x \notin HeapAddress
    BY SizeFacts DEF HeapAddress, Index
  <2> QED BY <2>1 DEF Apart, Stale, Cached
<1>4. CASE cr3 # NULL
  <2>1. cr3 \in D /\ Walk(m, cr3, x) \in Page
    BY <1>4 DEF Roots, Near
  <2>2. Walk(m, cr3, x) = x
    BY <1>1, <2>1, CpuWalk
  <2> QED BY <1>1, <1>3, <1>4, <2>2 DEF Reach
<1> QED BY <1>2, <1>4

(* A walk goes through a directory and a table.                            *)
LEMMA WalkTables ==
  ASSUME NEW m, NEW D, NEW F, NEW T, NEW H, NEW of, NEW cached, Apart(m, D, F, T, H, of, cached),
         NEW c \in D, NEW v \in VirtualPage, Walk(m, c, v) \in Page
  PROVE  LET t == m[c][v \div TableSize]
         IN /\ c \in Page /\ of[c] = c /\ m[c] # Data
            /\ t \in F \cup T /\ t \in Page /\ m[t] # Data /\ Walk(m, c, v) = m[t][v % TableSize]
<1> DEFINE i == v \div TableSize
           t == m[c][i]
<1>1. c \in Page /\ c \notin H
  BY DEF Apart
<1>2. m[c] # Data /\ t \in Page /\ m[t] # Data /\ Walk(m, c, v) = m[t][v % TableSize]
  BY WalkParts
<1>3. i \in Index
  BY AddressFacts
<1> HIDE DEF i
<1>4. of[c] = c /\ t \in F \cup T \cup {NULL}
  BY <1>1, <1>2, <1>3, ContentFacts
<1> QED BY <1>1, <1>2, <1>4, SizeFacts DEF i

LEMMA WrittenElsewhere ==
  ASSUME NEW m, NEW D, NEW F, NEW T, NEW H, NEW of, NEW cached, Apart(m, D, F, T, H, of, cached),
         NEW q \in Page \ (D \cup F \cup T), NEW x \in Table \cup {Data}, NEW g, g = Written(m, q, x)
  PROVE  KeepsWalks(m, g, D)
<1> SUFFICES ASSUME NEW c \in D, NEW v \in VirtualPage, Walk(m, c, v) \in Page
             PROVE  Walk(g, c, v) \in Page
  BY DEF KeepsWalks
<1> DEFINE t == m[c][v \div TableSize]
<1>1. c \in Page /\ m[c] # Data /\ t \in F \cup T /\ t \in Page /\ m[t] # Data
      /\ Walk(m, c, v) = m[t][v % TableSize]
  BY WalkTables
<1>2. g[c] = m[c] /\ g[t] = m[t]
  BY <1>1, WrittenFacts DEF Apart
<1> QED BY <1>1, <1>2, WalkParts

LEMMA StoredOverNothing ==
  ASSUME NEW m, NEW D, NEW F, NEW T, NEW H, NEW of, NEW cached, Apart(m, D, F, T, H, of, cached),
         NEW q \in Page, m[q] # Data, NEW i \in Index, NEW e \in Page,
         q \in D => m[q][i] = NULL,
         NEW g, g = Stored(m, q, i, e)
  PROVE  KeepsWalks(m, g, D)
<1> SUFFICES ASSUME NEW c \in D, NEW v \in VirtualPage, Walk(m, c, v) \in Page
             PROVE  Walk(g, c, v) \in Page
  BY DEF KeepsWalks
<1> DEFINE k == v \div TableSize
           l == v % TableSize
           t == m[c][k]
<1>0. k \in Index /\ l \in Index
  BY AddressFacts
<1>1. c \in Page /\ m[c] # Data /\ t \in Page /\ m[t] # Data /\ Walk(m, c, v) = m[t][l]
  BY WalkTables
<1>2. /\ g[q] # Data /\ g[q][i] = e
      /\ \A j \in Index : j # i => g[q][j] = m[q][j]
      /\ \A p \in Page : p # q => g[p] = m[p]
  BY StoredFacts DEF Apart
<1>3. g[c] # Data /\ g[t] # Data
  BY <1>1, <1>2
<1> HIDE DEF k, l
<1>4. g[c][k] = t
  BY <1>0, <1>1, <1>2, SizeFacts
<1>5. g[t][l] \in Page
  BY <1>0, <1>1, <1>2
<1> QED BY <1>1, <1>3, <1>4, <1>5, WalkParts DEF k, l

LEMMA UseNear ==
  ASSUME NEW m, NEW D, NEW F, NEW T, NEW H, NEW of, Apart(m, D, F, T, H, of, tlb), Roots(D),
         Near(m, D, F, T), NEW v \in HeapAddress, Reach(m, v) \in Page,
         NEW g, g = Use(m, v)
  PROVE  g # Lost /\ Near(g, D, F, T) /\ KeepsWalks(m, g, D)
<1> DEFINE q == Reach(m, v)
<1>1. m \in Memory /\ D \cup F \cup T \subseteq Page
  BY DEF Apart
<1>2. g = Written(m, q, Data)
  BY <1>1, Accesses
<1>3. q \in Page /\ v \in VirtualPage /\ v >= TableSize /\ v \notin Index
  <2>1. v \in VirtualPage
    BY SizeFacts
  <2> QED BY <2>1, SizeFacts, AddressFacts DEF HeapAddress, Index
<1>4. q \notin D \cup F \cup T
  <2>1. CASE cr3 = NULL
    BY <1>3, <2>1 DEF Reach, Near
  <2>2. CASE cr3 # NULL /\ ~Cached(v)
    <3>1. cr3 \in D /\ Walk(m, cr3, v) = q
      BY <2>2 DEF Reach, Roots
    <3>2. q \in H
      BY <1>3, <3>1, CpuWalk
    <3> QED BY <3>2 DEF Apart
  <2>3. CASE cr3 # NULL /\ Cached(v)
    BY <2>3 DEF Reach, Cached, Apart, Stale
  <2> QED BY <2>1, <2>2, <2>3
<1> HIDE DEF q
<1>5. g \in Memory /\ \A p \in Page : p # q => g[p] = m[p]
  BY <1>1, <1>2, <1>3, WrittenFacts
<1>6. KeepsWalks(m, g, D)
  BY <1>2, <1>3, <1>4, WrittenElsewhere
<1>7. Near(g, D, F, T)
  <2>1. \A p \in D \cup F \cup T : g[p] # Data
    BY <1>1, <1>4, <1>5 DEF Near
  <2>2. cr3 # NULL => \A w \in Index : Walk(g, cr3, w) \in Page
    BY <1>6, SizeFacts DEF Near, KeepsWalks, Roots
  <2> QED BY <2>1, <2>2 DEF Near
<1> QED BY <1>5, <1>6, <1>7, SizeFacts

LEMMA ClearNear ==
  ASSUME NEW m, NEW D, NEW F, NEW T, NEW H, NEW of, Apart(m, D, F, T, H, of, tlb), Roots(D),
         Near(m, D, F, T),
         NEW x \in Index \ (D \cup F \cup T \cup H),
         NEW g, g = Clear(m, x),
         NEW D2, NEW F2, NEW T2, D2 \cup F2 \cup T2 = D \cup F \cup T \cup {x}
  PROVE  /\ g # Lost /\ Near(g, D2, F2, T2) /\ KeepsWalks(m, g, D)
         /\ g = Written(m, x, Blank)
<1>1. m \in Memory /\ D \cup F \cup T \subseteq Page
  BY DEF Apart
<1>2. Reach(m, x) = x /\ x \in Page
  BY NearReach
<1>3. g = Written(m, x, Blank)
  BY <1>1, <1>2, Accesses
<1>4. Blank \in Table /\ Blank # Data
  BY SizeFacts DEF Blank, Table
<1>5. g \in Memory /\ g[x] = Blank /\ \A p \in Page : p # x => g[p] = m[p]
  BY <1>1, <1>2, <1>3, <1>4, WrittenFacts
<1>6. KeepsWalks(m, g, D)
  BY <1>2, <1>3, <1>4, WrittenElsewhere
<1>7. Near(g, D2, F2, T2)
  <2>1. D2 \cup F2 \cup T2 \subseteq Index
    BY DEF Near
  <2>2. \A p \in D2 \cup F2 \cup T2 : g[p] # Data
    BY <1>1, <1>4, <1>5 DEF Near
  <2>3. cr3 # NULL => \A v \in Index : Walk(g, cr3, v) \in Page
    BY <1>6, SizeFacts DEF Near, KeepsWalks, Roots
  <2> QED BY <2>1, <2>2, <2>3 DEF Near
<1> QED BY <1>3, <1>5, <1>6, <1>7, SizeFacts

LEMMA StoreNear ==
  ASSUME NEW m, NEW D, NEW F, NEW T, NEW H, NEW of, Apart(m, D, F, T, H, of, tlb), Roots(D),
         Near(m, D, F, T),
         NEW x \in D \cup F \cup T, NEW i \in Index, NEW e \in Page,
         x \in D => m[x][i] = NULL,
         NEW g, g = Store(m, x, i, e)
  PROVE  /\ g # Lost /\ Near(g, D, F, T) /\ KeepsWalks(m, g, D)
         /\ g = Stored(m, x, i, e)
<1>1. m \in Memory /\ D \cup F \cup T \subseteq Page
  BY DEF Apart
<1>2. x \in Index /\ m[x] # Data
  BY DEF Near
<1>3. Reach(m, x) = x /\ x \in Page
  BY <1>2, NearReach
<1>4. g = Stored(m, x, i, e)
  BY <1>1, <1>2, <1>3, Accesses
<1>5. g \in Memory /\ g[x] # Data /\ \A p \in Page : p # x => g[p] = m[p]
  BY <1>1, <1>2, <1>3, <1>4, StoredFacts
<1>6. KeepsWalks(m, g, D)
  BY <1>2, <1>3, <1>4, StoredOverNothing
<1>7. Near(g, D, F, T)
  BY <1>1, <1>5, <1>6, SizeFacts DEF Near, KeepsWalks, Roots
<1> QED BY <1>4, <1>5, <1>6, <1>7, SizeFacts

-----------------------------------------------------------------------------
(* No page is given back, so the pages in use come before the free ones.   *)
Contiguous == memory_bitmap = 0 .. first_free_page - 1

LEMMA AllocNext ==
  ASSUME IInv, Contiguous, NEW p \in Page, Alloc(p)
  PROVE  /\ p = first_free_page /\ first_free_page' = p + 1 /\ p \notin held
         /\ held' = held \cup {p} /\ IInv' /\ Contiguous'
<1>1. p \notin memory_bitmap /\ first_free_page <= p /\ \A q \in Page \ memory_bitmap : p <= q
  BY FoundPageIsLowestFree DEF Alloc, IInv
<1>2. p \in Nat /\ TotalPages \in Nat /\ p < TotalPages /\ first_free_page \in Nat
  BY PmmAssumption DEF Page, IInv, TypeOK
<1>3. first_free_page \in Page \ memory_bitmap
  BY <1>1, <1>2 DEF Contiguous, Page
<1>4. p = first_free_page
  BY <1>1, <1>2, <1>3
<1>5. memory_bitmap' = memory_bitmap \cup {p} /\ first_free_page' = p + 1 /\ held' = held \cup {p}
  BY <1>4 DEF Alloc, SetBit, HintAfterAlloc
<1>6. Contiguous'
  BY <1>2, <1>4, <1>5 DEF Contiguous
<1>7. p \notin held
  BY <1>1 DEF IInv, BitmapAccountsForHolders
<1> QED BY <1>4, <1>5, <1>6, <1>7, AllocIInv

LEMMA FailsNext ==
  ASSUME IInv, Contiguous, AllocFails
  PROVE  /\ first_free_page = TotalPages /\ first_free_page' = first_free_page
         /\ held' = held /\ IInv' /\ Contiguous'
<1>1. memory_bitmap = Page
  BY RefusalMeansFull DEF IInv, AllocFails
<1>2. first_free_page = TotalPages
  <2>1. first_free_page \in Nat /\ first_free_page <= TotalPages /\ TotalPages \in Nat
    BY PmmAssumption DEF IInv, TypeOK
  <2> QED BY <1>1, <2>1 DEF Contiguous, Page
<1>3. UNCHANGED <<memory_bitmap, free_pages, first_free_page, held>> /\ result' = NoPage
  BY DEF AllocFails
<1>4. IInv'
  BY <1>3, NextIInv DEF Next
<1>5. Contiguous'
  BY <1>3 DEF Contiguous
<1> QED BY <1>2, <1>3, <1>4, <1>5

LEMMA SameNext ==
  ASSUME IInv, Contiguous, UNCHANGED vars
  PROVE  first_free_page' = first_free_page /\ held' = held /\ IInv' /\ Contiguous'
<1>1. IInv'
  BY NextIInv
<1> QED BY <1>1 DEF vars, Contiguous

-----------------------------------------------------------------------------
(* vmm_map_page.                                                           *)
Mapping(D, F, T, H, of, v, e) ==
  /\ IInv /\ Contiguous
  /\ Apart(memory, D, F, T, H, of, tlb) /\ Roots(D) /\ current_page_directory \in D
  /\ D \cup F \cup T \cup H = held
  /\ v \in VirtualPage /\ e \in Page
  /\ v < TableSize => cr3 # current_page_directory
  /\ IF v < TableSize THEN e = v ELSE Spare(memory, T, H, of, e, tlb)

New == held' \ held
Firsts(F, v) == IF v < TableSize THEN F \cup New ELSE F
Others(T, v) == IF v < TableSize THEN T ELSE T \cup New

\* The table that the kernel finds, if it finds one.
LEMMA FoundTable ==
  ASSUME NEW D, NEW F, NEW T, NEW H, NEW of, NEW v, NEW e, Mapping(D, F, T, H, of, v, e)
  PROVE  LET i == TableIndex(v)
         IN /\ i \in Index /\ PageIndex(v) \in Index
            /\ v < TableSize => i = 0 /\ PageIndex(v) = v
            /\ v >= TableSize => i # 0
            /\ TableOf(v) # Data => TableOf(v) \in (IF i = 0 THEN F ELSE T) \cup {NULL}
            /\ Near(memory, D, F, T) => TableOf(v) # Data /\ TableOf(v) = memory[current_page_directory][i]
<1> DEFINE d == current_page_directory
           i == TableIndex(v)
           q == Reach(memory, d)
<1>1. v \in VirtualPage /\ d \in D
  BY DEF Mapping
<1>2. /\ i \in Index /\ PageIndex(v) \in Index
      /\ v < TableSize => i = 0 /\ PageIndex(v) = v
      /\ v >= TableSize => i # 0
  <2>1. v \in Nat /\ TableSize \in Nat
    BY <1>1, SizeFacts
  <2> QED BY <1>1, <2>1, AddressFacts DEF TableIndex, PageIndex
<1>3. d \in Page \ H
  BY <1>1 DEF Mapping, Apart
<1>4. TableOf(v) = IF q \in Page THEN (IF memory[q] = Data THEN Data ELSE memory[q][i]) ELSE Data
  BY DEF TableOf, Load, Entry
<1> HIDE DEF i
<1>5. TableOf(v) # Data => TableOf(v) \in (IF i = 0 THEN F ELSE T) \cup {NULL}
  <2> SUFFICES ASSUME TableOf(v) # Data PROVE TableOf(v) \in (IF i = 0 THEN F ELSE T) \cup {NULL}
    OBVIOUS
  <2>1. q \in Page /\ memory[q] # Data /\ TableOf(v) = memory[q][i]
    BY <1>4
  <2>2. of[q] = d
    BY <1>3, <2>1, Meant DEF Mapping, Roots
  <2> HIDE DEF q, d
  <2> QED BY <1>1, <1>2, <2>1, <2>2, ContentFacts DEF Mapping
<1>6. ASSUME Near(memory, D, F, T)
      PROVE  TableOf(v) # Data /\ TableOf(v) = memory[d][i]
  <2>1. d \in Index /\ memory[d] # Data
    BY <1>1, <1>6 DEF Near
  <2>2. q = d /\ d \in Page
    BY <1>6, <2>1, NearReach DEF Mapping
  <2>3. memory[d][i] # Data
    <3>1. memory[d] \in Table
      BY <2>1, <2>2 DEF Mapping, Apart, Memory
    <3> QED BY <1>2, <3>1, SizeFacts DEF Table
  <2> QED BY <1>4, <2>1, <2>2, <2>3
<1> QED BY <1>2, <1>5, <1>6 DEF i

(* A new table is cleared and entered into the directory.                  *)
LEMMA NewTableApart ==
  ASSUME NEW D, NEW F, NEW T, NEW H, NEW of, NEW v, NEW e, Mapping(D, F, T, H, of, v, e),
         NEW t \in Page, t \notin held,
         NEW F2, F2 = IF v < TableSize THEN F \cup {t} ELSE F,
         NEW T2, T2 = IF v < TableSize THEN T ELSE T \cup {t},
         NEW m1, m1 = Clear(memory, t), m1 # Lost,
         NEW m2, m2 = Store(m1, current_page_directory, TableIndex(v), t)
  PROVE  \E of2 : /\ Apart(m1, D, F2, T2, H, of2, tlb)
                  /\ m2 # Lost =>
                       /\ Apart(m2, D, F2, T2, H, of2, tlb)
                       /\ Enters(m2, D, F2, T2, H, of2, tlb, t, PageIndex(v), e)
<1> DEFINE d == current_page_directory
           i == TableIndex(v)
<1>1. /\ Apart(memory, D, F, T, H, of, tlb) /\ Roots(D) /\ d \in D /\ D \cup F \cup T \cup H = held
      /\ e \in Page /\ v \in VirtualPage
      /\ IF v < TableSize THEN e = v ELSE Spare(memory, T, H, of, e, tlb)
  BY DEF Mapping
<1>2. /\ i \in Index /\ (v < TableSize => i = 0 /\ PageIndex(v) = v) /\ (v >= TableSize => i # 0)
      /\ PageIndex(v) \in Index
  BY FoundTable
<1>3. t \in Page \ (D \cup F \cup T \cup H)
  BY <1>1
<1>4. \/ D = D /\ F2 = F \cup {t} /\ T2 = T
      \/ D = D /\ F2 = F /\ T2 = T \cup {t}
  OBVIOUS
<1>5. PICK of2 : /\ Apart(m1, D, F2, T2, H, of2, tlb) /\ Unlinked(m1, D, of2, t)
                 /\ \A s \in Page : Spare(memory, T, H, of, s, tlb) => Spare(m1, T2, H, of2, s, tlb)
  BY <1>1, <1>3, <1>4, ClearApart
<1>6. ASSUME m2 # Lost
      PROVE  Apart(m2, D, F2, T2, H, of2, tlb) /\ Enters(m2, D, F2, T2, H, of2, tlb, t, PageIndex(v), e)
  <2>1. t \in IF i = 0 THEN F2 ELSE T2
    <3>1. v \in Nat /\ TableSize \in Nat
      BY <1>1, SizeFacts
    <3> QED BY <1>2, <3>1
  <2>2. Enters(m1, D, F2, T2, H, of2, tlb, d, i, t)
    BY <1>1, <1>5, <2>1 DEF Enters
  <2>3. d \notin T2 /\ m2 = Store(m1, d, i, t)
    BY <1>1, <1>5 DEF Apart
  <2> HIDE DEF d, i
  <2>4. /\ Apart(m2, D, F2, T2, H, of2, tlb)
        /\ \A s \in Page : Spare(m1, T2, H, of2, s, tlb) => Spare(m2, T2, H, of2, s, tlb)
    BY <1>1, <1>2, <1>5, <1>6, <2>2, <2>3, StoreApart
  <2>5. Enters(m2, D, F2, T2, H, of2, tlb, t, PageIndex(v), e)
    BY <1>1, <1>2, <1>5, <2>4 DEF Enters
  <2> QED BY <2>4, <2>5
<1> QED BY <1>5, <1>6

(* The entry that is replaced may stay cached: it led to a page of the     *)
(* heap that no other address led to.                                      *)
LEMMA StaleKeeps ==
  ASSUME NEW D, NEW F, NEW T, NEW H, NEW of, NEW v, NEW e, Mapping(D, F, T, H, of, v, e)
  PROVE  /\ Apart(memory, D, F, T, H, of, WithStale(v))
         /\ Spare(memory, T, H, of, e, tlb) => Spare(memory, T, H, of, e, WithStale(v))
<1> DEFINE q == Walk(memory, cr3, v)
           new == [w \in DOMAIN tlb \cup {v} |-> IF Cached(w) THEN tlb[w] ELSE q]
<1>1. /\ Apart(memory, D, F, T, H, of, tlb) /\ Roots(D) /\ current_page_directory \in D
      /\ v \in VirtualPage /\ (v < TableSize => cr3 # current_page_directory)
  BY DEF Mapping
<1>2. CASE ~(cr3 = current_page_directory /\ q \in Page)
  <2>1. WithStale(v) = tlb
    BY <1>2 DEF WithStale
  <2> QED BY <1>1, <2>1
<1>3. CASE cr3 = current_page_directory /\ q \in Page
  <2>1. WithStale(v) = new
    BY <1>3 DEF WithStale
  <2>2. /\ DOMAIN new = DOMAIN tlb \cup {v}
        /\ \A w \in DOMAIN tlb : new[w] = tlb[w]
        /\ v \notin DOMAIN tlb => new[v] = q
    BY DEF Cached
  <2>3. cr3 \in D /\ v >= TableSize /\ v \in HeapAddress
    <3>1. v \in Nat /\ TableSize \in Nat
      BY <1>1, SizeFacts
    <3> QED BY <1>1, <1>3, <3>1, AddressFacts
  <2> DEFINE t == memory[cr3][v \div TableSize]
  <2>4. /\ t \in T /\ t \in Page /\ memory[t] # Data /\ of[t] = t
        /\ q = memory[t][v % TableSize] /\ q \in H
    <3> HIDE DEF q
    <3>1. Walk(memory, cr3, v) = q /\ q \in Page
      BY <1>3 DEF q
    <3> QED BY <1>1, <2>3, <3>1, CpuWalk
  <2>5. memory[q] # Data => of[q] = v
    BY <1>1, <2>3, <2>4 DEF Apart, Alias
  <2>6. ASSUME NEW c \in D, NEW w \in HeapAddress, Walk(memory, c, w) = q PROVE w = v
    BY <1>1, <1>3, <2>3, <2>6, OneWay
  <2>7. Stale(memory, D, H, of, tlb)
    BY <1>1 DEF Apart
  <2> HIDE DEF new, q, t
  <2>8. \A w \in DOMAIN tlb : tlb[w] = q => w = v
    BY <2>3, <2>7 DEF Stale, q
  <2>9. Stale(memory, D, H, of, new)
    <3> SUFFICES ASSUME NEW w \in DOMAIN new
                 PROVE  /\ w \in HeapAddress /\ new[w] \in H
                        /\ memory[new[w]] # Data => of[new[w]] = w
                        /\ \A c \in D, u \in HeapAddress : Walk(memory, c, u) = new[w] => u = w
                        /\ \A u \in DOMAIN new : new[u] = new[w] => u = w
      BY DEF Stale
    <3>1. CASE w \in DOMAIN tlb
      <4>1. /\ w \in HeapAddress /\ new[w] = tlb[w] /\ new[w] \in H
            /\ memory[new[w]] # Data => of[new[w]] = w
            /\ \A c \in D, u \in HeapAddress : Walk(memory, c, u) = new[w] => u = w
            /\ \A u \in DOMAIN tlb : tlb[u] = tlb[w] => u = w
        BY <2>2, <2>7, <3>1 DEF Stale
      <4>2. \A u \in DOMAIN new : new[u] = new[w] => u = w
        BY <2>2, <2>8, <3>1, <4>1
      <4> QED BY <4>1, <4>2
    <3>2. CASE w \notin DOMAIN tlb
      <4>1. w = v /\ new[w] = q
        BY <2>2, <3>2
      <4>2. \A u \in DOMAIN new : new[u] = new[w] => u = w
        BY <2>2, <2>8, <4>1
      <4> QED BY <2>3, <2>4, <2>5, <2>6, <4>1, <4>2
    <3> QED BY <3>1, <3>2
  <2>10. Apart(memory, D, F, T, H, of, new)
    BY <1>1, <2>9 DEF Apart
  <2>11. ASSUME Spare(memory, T, H, of, e, tlb) PROVE Spare(memory, T, H, of, e, new)
    <3>1. v % TableSize \in Index
      BY <1>1, AddressFacts
    <3>2. q # e
      BY <2>4, <2>11, <3>1 DEF Spare
    <3> QED BY <2>2, <2>11, <3>2 DEF Spare
  <2> QED BY <2>1, <2>10, <2>11
<1> QED BY <1>2, <1>3

LEMMA MapApart ==
  ASSUME NEW D, NEW F, NEW T, NEW H, NEW of, NEW v, NEW e, Mapping(D, F, T, H, of, v, e),
         memory # Lost, MapPage(v, e), memory' # Lost
  PROVE  \E of2 : Apart(memory', D, Firsts(F, v), Others(T, v), H, of2, tlb')
<1> DEFINE x == TableOf(v)
           j == PageIndex(v)
<1>1. /\ Apart(memory, D, F, T, H, of, tlb) /\ Roots(D) /\ current_page_directory \in D
      /\ IInv /\ Contiguous /\ D \cup F \cup T \cup H = held
      /\ e \in Page /\ v \in VirtualPage
      /\ IF v < TableSize THEN e = v ELSE Spare(memory, T, H, of, e, tlb)
  BY DEF Mapping
<1>2. v \in Nat /\ TableSize \in Nat /\ NULL # Data /\ NULL \notin Page
  BY <1>1, SizeFacts
<1>3. /\ j \in Index /\ (v < TableSize => j = v)
      /\ x # Data => x \in (IF v < TableSize THEN F ELSE T) \cup {NULL}
  BY <1>2, FoundTable
<1>4. CASE /\ x # NULL /\ memory' = IF x = Data THEN Lost ELSE Store(memory, x, j, e)
           /\ tlb' = WithStale(v) /\ UNCHANGED vars
  <2>1. Firsts(F, v) = F /\ Others(T, v) = T
    BY <1>1, <1>4, SameNext DEF Firsts, Others, New
  <2>2. memory' = Store(memory, x, j, e) /\ x # Data
    BY <1>4
  <2>3. /\ Apart(memory, D, F, T, H, of, tlb')
        /\ Spare(memory, T, H, of, e, tlb) => Spare(memory, T, H, of, e, tlb')
    BY <1>4, StaleKeeps
  <2>4. Enters(memory, D, F, T, H, of, tlb', x, j, e)
    BY <1>1, <1>3, <1>4, <2>2, <2>3 DEF Enters
  <2> HIDE DEF x, j
  <2>5. Apart(memory', D, F, T, H, of, tlb')
    BY <1>1, <1>3, <2>2, <2>3, <2>4, StoreApart
  <2> QED BY <2>1, <2>5
<1>5. ASSUME x = NULL, NEW t \in Page, Alloc(t), memory' = Store(NewTable(t, v), t, j, e), tlb' = tlb
      PROVE  \E of2 : Apart(memory', D, Firsts(F, v), Others(T, v), H, of2, tlb')
  <2> DEFINE m1 == Clear(memory, t)
             m2 == Store(m1, current_page_directory, TableIndex(v), t)
             F2 == Firsts(F, v)
             T2 == Others(T, v)
  <2>1. t \notin held /\ held' = held \cup {t}
    BY <1>1, <1>5, AllocNext
  <2>2. /\ F2 = IF v < TableSize THEN F \cup {t} ELSE F
        /\ T2 = IF v < TableSize THEN T ELSE T \cup {t}
    BY <2>1 DEF Firsts, Others, New
  <2>3. memory' = Store(m2, t, j, e)
    BY <1>5 DEF NewTable
  <2>4. m2 # Lost /\ m1 # Lost
    BY <2>3, LostStays
  <2>5. m2 = Store(m1, current_page_directory, TableIndex(v), t) /\ m1 = Clear(memory, t)
    OBVIOUS
  <2> HIDE DEF m1, m2, F2, T2
  <2>6. PICK of2 : /\ Apart(m2, D, F2, T2, H, of2, tlb)
                   /\ Enters(m2, D, F2, T2, H, of2, tlb, t, j, e)
    BY <1>5, <2>1, <2>2, <2>4, <2>5, NewTableApart
  <2> HIDE DEF j
  <2>7. Apart(memory', D, F2, T2, H, of2, tlb)
    BY <1>1, <1>3, <2>3, <2>6, StoreApart
  <2> QED BY <1>5, <2>7 DEF F2, T2
<1>6. CASE AllocFails /\ UNCHANGED <<memory, tlb>>
  <2>1. Firsts(F, v) = F /\ Others(T, v) = T
    BY <1>1, <1>6, FailsNext DEF Firsts, Others, New
  <2> QED BY <1>1, <1>6, <2>1
<1> QED BY <1>4, <1>5, <1>6 DEF MapPage

(* In the first table, every page gets mapped.                             *)
Gains(m, g, D, F, T, d, v) ==
  g # Lost /\ Near(g, D, F, T) /\ KeepsWalks(m, g, D) /\ Walk(g, d, v) \in Page

LEMMA StoredWalk ==
  ASSUME NEW m \in Memory, NEW x \in Page, m[x] # Data, NEW e \in Page,
         NEW d \in Page, d # x, m[d] # Data, NEW v \in VirtualPage, m[d][TableIndex(v)] = x,
         NEW g, g = Stored(m, x, PageIndex(v), e)
  PROVE  Walk(g, d, v) \in Page
<1> DEFINE i == TableIndex(v)
           j == PageIndex(v)
<1>1. i \in Index /\ j \in Index /\ i = v \div TableSize /\ j = v % TableSize
      /\ g = Stored(m, x, j, e)
  BY AddressFacts DEF TableIndex, PageIndex
<1> HIDE DEF i, j
<1>2. g[x] # Data /\ g[x][j] = e /\ g[d] = m[d]
  BY <1>1, StoredFacts
<1>3. g[d] # Data /\ g[d][v \div TableSize] = x
  BY <1>1, <1>2 DEF i
<1> QED BY <1>1, <1>2, <1>3, WalkParts

LEMMA NewTableNear ==
  ASSUME NEW D, NEW F, NEW T, NEW H, NEW of, NEW v, NEW e, Mapping(D, F, T, H, of, v, e),
         Near(memory, D, F, T), TableOf(v) = NULL,
         NEW t \in Index, t \notin held,
         NEW F2, F2 = IF v < TableSize THEN F \cup {t} ELSE F,
         NEW T2, T2 = IF v < TableSize THEN T ELSE T \cup {t},
         NEW m1, m1 = Clear(memory, t),
         NEW m2, m2 = Store(m1, current_page_directory, TableIndex(v), t),
         NEW g, g = Store(m2, t, PageIndex(v), e)
  PROVE  Gains(memory, g, D, F2, T2, current_page_directory, v)
<1> DEFINE d == current_page_directory
           i == TableIndex(v)
           j == PageIndex(v)
<1>1. /\ Apart(memory, D, F, T, H, of, tlb) /\ Roots(D) /\ d \in D /\ D \cup F \cup T \cup H = held
      /\ e \in Page /\ v \in VirtualPage
  BY DEF Mapping
<1>2. i \in Index /\ j \in Index /\ memory[d][i] = NULL
  BY FoundTable
<1>3. d \in Page /\ memory \in Memory /\ memory[d] # Data
  BY <1>1 DEF Apart, Near
<1>4. /\ t \in Index \ (D \cup F \cup T \cup H) /\ t \in Page
      /\ D \cup F2 \cup T2 = D \cup F \cup T \cup {t} /\ t \in D \cup F2 \cup T2 /\ t # d /\ t \notin D
  BY <1>1, SizeFacts
<1>5. /\ m1 # Lost /\ Near(m1, D, F2, T2) /\ KeepsWalks(memory, m1, D)
      /\ m1 = Written(memory, t, Blank)
  BY <1>1, <1>4, ClearNear
<1>6. PICK of2 : /\ Apart(m1, D, F2, T2, H, of2, tlb)
                 /\ m2 # Lost =>
                      /\ Apart(m2, D, F2, T2, H, of2, tlb)
                      /\ Enters(m2, D, F2, T2, H, of2, tlb, t, PageIndex(v), e)
  <2>1. m1 # Lost /\ t \in Page
    BY <1>4, <1>5
  <2> HIDE DEF d, i, j
  <2> QED BY <2>1, NewTableApart
<1>7. m2 = Store(m1, d, i, t) /\ g = Store(m2, t, j, e) /\ i = TableIndex(v) /\ j = PageIndex(v)
  OBVIOUS
<1> HIDE DEF d, i, j
<1>8. m1[d][i] = NULL /\ m1[d] # Data
  <2>1. Blank \in Table
    BY SizeFacts DEF Blank, Table
  <2> QED BY <1>2, <1>3, <1>4, <1>5, <2>1, WrittenFacts
<1>9. /\ m2 # Lost /\ Near(m2, D, F2, T2) /\ KeepsWalks(m1, m2, D)
      /\ m2 = Stored(m1, d, i, t)
  <2>1. d \in D \cup F2 \cup T2
    BY <1>1
  <2> QED BY <1>1, <1>2, <1>4, <1>5, <1>6, <1>7, <1>8, <2>1, StoreNear
<1>10. Apart(m2, D, F2, T2, H, of2, tlb) /\ m2 \in Memory /\ m1 \in Memory
  BY <1>6, <1>9 DEF Apart
<1>11. /\ g # Lost /\ Near(g, D, F2, T2) /\ KeepsWalks(m2, g, D)
       /\ g = Stored(m2, t, j, e)
  BY <1>1, <1>2, <1>4, <1>7, <1>9, <1>10, StoreNear
<1>12. m2[d] # Data /\ m2[d][i] = t
  BY <1>2, <1>3, <1>4, <1>8, <1>9, <1>10, StoredFacts
<1>13. m2[t] # Data
  BY <1>4, <1>9 DEF Near
<1>14. Walk(g, d, v) \in Page
  <2>1. g = Stored(m2, t, PageIndex(v), e) /\ m2[d][TableIndex(v)] = t
    BY <1>7, <1>11, <1>12
  <2> QED BY <1>1, <1>3, <1>4, <1>10, <1>12, <1>13, <2>1, StoredWalk
<1>15. KeepsWalks(memory, g, D)
  BY <1>5, <1>9, <1>11 DEF KeepsWalks
<1> QED BY <1>11, <1>14, <1>15 DEF Gains, d

LEMMA MapNear ==
  ASSUME NEW D, NEW F, NEW T, NEW H, NEW of, NEW v, NEW e, Mapping(D, F, T, H, of, v, e),
         memory # Lost, MapPage(v, e), Near(memory, D, F, T), first_free_page' <= TableSize
  PROVE  Gains(memory, memory', D, Firsts(F, v), Others(T, v), current_page_directory, v)
<1> DEFINE x == TableOf(v)
           i == TableIndex(v)
           j == PageIndex(v)
           d == current_page_directory
<1>1. /\ Apart(memory, D, F, T, H, of, tlb) /\ Roots(D) /\ d \in D
      /\ IInv /\ Contiguous /\ D \cup F \cup T \cup H = held
      /\ e \in Page /\ v \in VirtualPage
      /\ IF v < TableSize THEN e = v ELSE Spare(memory, T, H, of, e, tlb)
  BY DEF Mapping
<1>2. v \in Nat /\ TableSize \in Nat /\ NULL # Data /\ NULL \notin Page
  BY <1>1, SizeFacts
<1>3. /\ i \in Index /\ j \in Index /\ x # Data /\ x = memory[d][i]
      /\ x \in (IF i = 0 THEN F ELSE T) \cup {NULL}
  BY <1>2, FoundTable
<1>4. d \in Page /\ memory \in Memory /\ memory[d] # Data /\ d \notin F \cup T
  BY <1>1 DEF Apart, Near
<1>5. CASE x # NULL /\ UNCHANGED vars /\ memory' = IF x = Data THEN Lost ELSE Store(memory, x, j, e)
  <2>1. Firsts(F, v) = F /\ Others(T, v) = T
    BY <1>1, <1>5, SameNext DEF Firsts, Others, New
  <2>2. memory' = Store(memory, x, j, e) /\ x \in D \cup F \cup T /\ x \notin D /\ x \in Page /\ x # d
        /\ memory[x] # Data
    BY <1>1, <1>3, <1>4, <1>5 DEF Apart, Near
  <2> HIDE DEF x, j, d, i
  <2>3. /\ memory' # Lost /\ Near(memory', D, F, T) /\ KeepsWalks(memory, memory', D)
        /\ memory' = Stored(memory, x, j, e)
    BY <1>1, <1>3, <2>2, StoreNear
  <2>4. Walk(memory', d, v) \in Page
    BY <1>1, <1>3, <1>4, <2>2, <2>3, StoredWalk DEF j, i
  <2> QED BY <2>1, <2>3, <2>4 DEF Gains, d
<1>6. ASSUME x = NULL, NEW t \in Page, Alloc(t), memory' = Store(NewTable(t, v), t, j, e)
      PROVE  Gains(memory, memory', D, Firsts(F, v), Others(T, v), d, v)
  <2>1. t \notin held /\ held' = held \cup {t} /\ t = first_free_page /\ first_free_page' = t + 1
    BY <1>1, <1>6, AllocNext
  <2>2. /\ Firsts(F, v) = IF v < TableSize THEN F \cup {t} ELSE F
        /\ Others(T, v) = IF v < TableSize THEN T ELSE T \cup {t}
    BY <2>1 DEF Firsts, Others, New
  <2>3. t \in Index
    <3>1. t \in Nat
      BY SizeFacts DEF Page
    <3> QED BY <1>2, <2>1, <3>1 DEF Index
  <2>4. memory' = Store(Store(Clear(memory, t), d, i, t), t, j, e)
    BY <1>6 DEF NewTable
  <2> QED BY <1>6, <2>1, <2>2, <2>3, <2>4, NewTableNear
<1>7. CASE AllocFails
  <2>1. first_free_page' = TotalPages
    BY <1>1, <1>7, FailsNext
  <2>2. TotalPages > TableSize /\ TotalPages \in Nat
    BY SizeFacts
  <2> QED BY <1>2, <2>1, <2>2
<1> QED BY <1>5, <1>6, <1>7 DEF MapPage

-----------------------------------------------------------------------------
(***************************************************************************)
(* The inductive invariant of Vmm.  Somebody could say which role every    *)
(* page has, unless the memory is lost; while the pages in use lie in the  *)
(* first table, every table is one, every directory maps that table to     *)
(* itself, and the heap is mapped as far as it goes.                       *)
(***************************************************************************)
HeapJob == job.for \in {"heap_init", "heap_expand"}
Mapped == IF HeapJob THEN job.next ELSE IF heap_end = NULL THEN HeapStart ELSE heap_end
Taken == IF job.page = NULL THEN 0 ELSE 1

JobOK ==
  /\ job \in [for : {"nothing", "panic", "vmm_init", "heap_init", "heap_expand"},
              next : Nat, last : Nat, page : Page \cup {NULL}]
  /\ (heap_end = NULL) <=> (heap_directory = NULL)
  /\ heap_end # NULL => heap_end \in HeapStart + 1 .. HeapStart + HeapMax + 1
  /\ job.for = "vmm_init" => job.next \in 0 .. TableSize /\ job.last = TableSize
  /\ HeapJob => heap_end # NULL
  /\ job.for = "heap_init" => job.next \in HeapStart .. heap_end /\ job.last = heap_end
  /\ job.for = "heap_expand" => /\ job.last \in heap_end + 1 .. HeapStart + HeapMax + 1
                                /\ job.next \in heap_end .. job.last
  /\ job.page # NULL => HeapJob /\ job.next < job.last

Refs ==
  /\ {current_page_directory, cr3, heap_directory, job.page} \subseteq held \cup {NULL}
  /\ heap_directory # NULL \/ job.for = "vmm_init" => current_page_directory # NULL
  /\ job.for = "vmm_init" => cr3 # current_page_directory

Covered(D) ==
  \A c \in D, v \in Index :
    (job.for = "vmm_init" /\ c = current_page_directory => v < job.next) => Walk(memory, c, v) \in Page

Sound(D, F, T) ==
  /\ \A p \in D \cup F \cup T : memory[p] # Data
  /\ Covered(D)
  /\ job.for # "panic"
  /\ heap_directory = current_page_directory =>
       \A v \in HeapStart .. Mapped - 1 : Walk(memory, current_page_directory, v) \in Page
  /\ Mapped + Taken + KernelEndPage <= HeapStart + first_free_page

Roles(D, F, T, H, of) ==
  /\ Apart(memory, D, F, T, H, of, tlb)
  /\ D \cup F \cup T \cup H = held
  /\ {cr3, current_page_directory, heap_directory} \subseteq D \cup {NULL}
  /\ job.page # NULL => Spare(memory, T, H, of, job.page, tlb)
  /\ AllReachable => Sound(D, F, T)

VInv ==
  /\ IInv /\ Contiguous /\ JobOK /\ Refs
  /\ memory # Lost => \E D, F, T, H, of : Roles(D, F, T, H, of)
  /\ Orderly => memory # Lost

\* The state before a step.
Before(D, F, T, H, of) ==
  /\ IInv /\ Contiguous /\ JobOK /\ Refs
  /\ memory # Lost
  /\ Roles(D, F, T, H, of)

LEMMA InUse ==
  ASSUME IInv, Contiguous
  PROVE  /\ held \subseteq 0 .. first_free_page - 1 /\ held \subseteq Page
         /\ first_free_page \in Nat /\ TableSize \in Nat /\ TotalPages \in Nat
         /\ AllReachable => held \subseteq Index
<1>1. held \subseteq 0 .. first_free_page - 1 /\ held \subseteq Page
  BY DEF IInv, TypeOK, Contiguous, BitmapAccountsForHolders
<1>2. first_free_page \in Nat /\ TableSize \in Nat /\ TotalPages \in Nat
  BY SizeFacts DEF IInv, TypeOK
<1>3. AllReachable => held \subseteq Index
  BY <1>1, <1>2 DEF AllReachable, Index
<1> QED BY <1>1, <1>2, <1>3

LEMMA NearNow ==
  ASSUME NEW D, NEW F, NEW T, NEW H, NEW of, Before(D, F, T, H, of), AllReachable
  PROVE  Near(memory, D, F, T)
<1>1. Sound(D, F, T) /\ D \cup F \cup T \cup H = held /\ cr3 \in D \cup {NULL}
  BY DEF Before, Roles
<1>2. D \cup F \cup T \subseteq Index
  BY <1>1, InUse DEF Before
<1>3. cr3 # NULL => \A v \in Index : Walk(memory, cr3, v) \in Page
  BY <1>1 DEF Sound, Covered, Before, Refs
<1> QED BY <1>1, <1>2, <1>3 DEF Near, Sound

LEMMA Unfolded ==
  ASSUME NEW D, NEW F, NEW T, NEW H, NEW of, Before(D, F, T, H, of)
  PROVE  /\ IInv /\ Contiguous /\ JobOK /\ Refs /\ memory # Lost
         /\ Apart(memory, D, F, T, H, of, tlb) /\ Roots(D) /\ D \cup F \cup T \cup H = held
         /\ current_page_directory \in D \cup {NULL} /\ heap_directory \in D \cup {NULL}
         /\ job.page # NULL => Spare(memory, T, H, of, job.page, tlb)
         /\ AllReachable => Sound(D, F, T)
BY DEF Before, Roles, Roots

(* The heap is within reach of the kernel.                                 *)
LEMMA HeapReach ==
  ASSUME NEW D, NEW F, NEW T, NEW H, NEW of, Before(D, F, T, H, of), Orderly, heap_directory # NULL,
         NEW v \in HeapStart .. Mapped - 1
  PROVE  Reach(memory, v) \in Page
<1>1. Sound(D, F, T) /\ JobOK /\ IInv /\ Contiguous
  BY DEF Before, Roles, Orderly
<1>2. heap_directory = current_page_directory /\ cr3 \in {NULL, current_page_directory}
  BY DEF Orderly
<1>3. CASE cr3 = NULL
  <2>1. HeapStart \in Nat /\ KernelEndPage \in Nat /\ first_free_page \in Nat /\ TotalPages \in Nat
        /\ first_free_page <= HeapStart /\ HeapStart + HeapStart <= TotalPages
    BY <1>1, SizeFacts, InUse DEF HeapStart, Orderly, AllReachable
  <2>2. Mapped \in Nat
    BY <1>1, <2>1 DEF Mapped, JobOK, HeapJob
  <2>3. Mapped <= TotalPages
    BY <1>1, <2>1, <2>2 DEF Sound, Taken
  <2> QED BY <1>3, <2>1, <2>2, <2>3 DEF Reach, Page
<1>4. CASE cr3 # NULL /\ ~Cached(v)
  BY <1>1, <1>2, <1>4 DEF Sound, Reach
<1>5. CASE cr3 # NULL /\ Cached(v)
  BY <1>5, Unfolded DEF Reach, Cached, Apart, Stale
<1> QED BY <1>3, <1>4, <1>5

LEMMA MapPmm ==
  ASSUME IInv, Contiguous, NEW v, NEW e, MapPage(v, e)
  PROVE  /\ IInv' /\ Contiguous'
         /\ held \subseteq held' /\ first_free_page <= first_free_page'
<1>1. first_free_page \in Nat
  BY DEF IInv, TypeOK
<1>2. CASE UNCHANGED vars
  BY <1>1, <1>2, SameNext
<1>3. ASSUME NEW t \in Page, Alloc(t)
      PROVE  /\ IInv' /\ Contiguous' /\ held \subseteq held' /\ first_free_page <= first_free_page'
  <2>1. t = first_free_page /\ first_free_page' = t + 1 /\ held' = held \cup {t} /\ IInv' /\ Contiguous'
    BY <1>3, AllocNext
  <2> QED BY <1>1, <2>1
<1>4. CASE AllocFails
  BY <1>1, <1>4, FailsNext
<1> QED BY <1>2, <1>3, <1>4 DEF MapPage

(* A page for the heap.                                                    *)
LEMMA TakeApart ==
  ASSUME NEW m, NEW D, NEW F, NEW T, NEW H, NEW of, NEW cached, Apart(m, D, F, T, H, of, cached),
         NEW p \in Page \ (D \cup F \cup T \cup H), NEW H2, H2 = H \cup {p}
  PROVE  Apart(m, D, F, T, H2, of, cached) /\ Spare(m, T, H2, of, p, cached)
<1>1. m[p] = Data
  BY ContentFacts
<1>2. \A q \in Page : m[q] # Data => Shaped(m, D, F, T, H2, of, q)
  BY <1>1 DEF Apart, Shaped
<1>3. Alias(m, D, H2, of)
  BY <1>1 DEF Apart, Alias
<1>4. Apart(m, D, F, T, H2, of, cached) /\ \A v \in DOMAIN cached : cached[v] # p
  <2>1. Stale(m, D, H2, of, cached) /\ \A v \in DOMAIN cached : cached[v] # p
    BY DEF Apart, Stale
  <2> QED BY <1>2, <1>3, <2>1 DEF Apart
<1>5. \A q \in Page : m[q] # Data /\ of[q] \in T => \A i \in Index : m[q][i] # p
  BY ContentFacts, SizeFacts
<1> QED BY <1>1, <1>4, <1>5 DEF Spare

(* A new directory.                                                        *)
LEMMA VmmInitVInv ==
  ASSUME NEW D, NEW F, NEW T, NEW H, NEW of, Before(D, F, T, H, of), VmmInit
  PROVE  VInv'
<1>0. job = Idle /\ UNCHANGED <<cr3, tlb, heap_end, heap_directory>>
  BY DEF VmmInit
<1>1. Idle.for = "nothing" /\ Idle.page = NULL
  BY DEF Idle
<1>2. ASSUME NEW p \in Page, Alloc(p), memory' = Clear(memory, p), current_page_directory' = p,
             job' = Job("vmm_init", 0, TableSize)
      PROVE  VInv'
  <2> DEFINE D2 == D \cup {p}
  <2>1. /\ p = first_free_page /\ first_free_page' = p + 1 /\ p \notin held /\ held' = held \cup {p}
        /\ IInv' /\ Contiguous'
    BY <1>2, AllocNext, Unfolded
  <2>2. /\ job'.for = "vmm_init" /\ job'.next = 0 /\ job'.last = TableSize /\ job'.page = NULL
        /\ ~HeapJob /\ ~HeapJob'
    BY <1>0, <1>1, <1>2 DEF Job, HeapJob
  <2>3. JobOK'
    <3>1. job' \in [for : {"nothing", "panic", "vmm_init", "heap_init", "heap_expand"},
                    next : Nat, last : Nat, page : Page \cup {NULL}]
      BY <1>2, SizeFacts DEF Job
    <3> QED BY <1>0, <2>2, <3>1, SizeFacts, Unfolded DEF JobOK, HeapJob
  <2>4. Refs'
    BY <1>0, <1>2, <2>1, <2>2, SizeFacts, Unfolded DEF Refs
  <2>5. p \in Page \ (D \cup F \cup T \cup H) /\ NULL \notin Page
    BY <2>1, SizeFacts, Unfolded
  <2>6. D2 \cup F \cup T = D \cup F \cup T \cup {p}
    OBVIOUS
  <2> HIDE DEF D2
  <2>7. ASSUME AllReachable'
        PROVE  AllReachable /\ memory' # Lost /\ Near(memory', D2, F, T) /\ KeepsWalks(memory, memory', D)
    <3>1. AllReachable /\ p \in Index
      BY <2>1, <2>7, InUse, Unfolded DEF AllReachable, Index
    <3>2. p \in Index \ (D \cup F \cup T \cup H)
      BY <2>5, <3>1
    <3>3. Near(memory, D, F, T)
      BY <3>1, NearNow
    <3> QED BY <1>2, <2>6, <3>1, <3>2, <3>3, ClearNear, Unfolded
  <2>8. Orderly' => memory' # Lost
    BY <2>7 DEF Orderly
  <2>9. ASSUME memory' # Lost
        PROVE  \E of2 : Roles(D2, F, T, H, of2)'
    <3>1. PICK of2 : Apart(memory', D2, F, T, H, of2, tlb)
      <4>1. D2 = D \cup {p} /\ F = F /\ T = T
        BY DEF D2
      <4> QED BY <1>2, <2>5, <2>9, <4>1, ClearApart, Unfolded
    <3>2. D2 \cup F \cup T \cup H = held'
      BY <2>1, Unfolded DEF D2
    <3>3. {cr3', current_page_directory', heap_directory'} \subseteq D2 \cup {NULL}
      BY <1>0, <1>2, Unfolded DEF D2, Roots
    <3>4. ASSUME AllReachable' PROVE Sound(D2, F, T)'
      <4>1. Sound(D, F, T)
        BY <2>7, <3>4, Unfolded
      <4>2. \A q \in D2 \cup F \cup T : memory'[q] # Data
        BY <2>7, <3>4 DEF Near
      <4>3. Covered(D2)'
        <5> SUFFICES ASSUME NEW c \in D2, NEW w \in Index,
                            c = current_page_directory' => w < 0
                     PROVE  Walk(memory', c, w) \in Page
          BY <2>2 DEF Covered
        <5>1. c \in D /\ w \in VirtualPage
          BY <1>2, SizeFacts DEF D2, Index
        <5>2. Walk(memory, c, w) \in Page
          BY <1>0, <1>1, <4>1, <5>1 DEF Sound, Covered
        <5> QED BY <2>7, <3>4, <5>1, <5>2 DEF KeepsWalks
      <4>4. cr3' # current_page_directory' /\ heap_directory' # current_page_directory'
        BY <1>0, <1>2, <2>5, Unfolded DEF Roots
      <4>5. (Mapped + Taken + KernelEndPage <= HeapStart + first_free_page)'
        <5>1. Mapped' = Mapped /\ Taken' = Taken
          BY <1>0, <1>1, <2>2 DEF Mapped, Taken
        <5>2. Mapped \in Nat /\ Taken \in Nat /\ HeapStart \in Nat /\ KernelEndPage \in Nat
              /\ first_free_page \in Nat
          BY <2>2, SizeFacts, InUse, Unfolded DEF Mapped, JobOK, Taken, HeapStart
        <5> QED BY <2>1, <4>1, <5>1, <5>2 DEF Sound, HeapStart
      <4> QED BY <2>2, <4>2, <4>3, <4>4, <4>5 DEF Sound
    <3> QED BY <1>0, <2>2, <3>1, <3>2, <3>3, <3>4 DEF Roles
  <2> QED BY <2>1, <2>3, <2>4, <2>8, <2>9 DEF VInv
<1>3. CASE AllocFails /\ job' = Panic /\ UNCHANGED <<memory, current_page_directory>>
  <2>1. first_free_page = TotalPages /\ first_free_page' = first_free_page /\ held' = held /\ IInv' /\ Contiguous'
    BY <1>3, FailsNext, Unfolded
  <2>2. Panic.for = "panic" /\ Panic.page = NULL /\ Panic = [for |-> "panic", next |-> 0, last |-> 0, page |-> NULL]
    BY DEF Panic, Idle
  <2>3. ~AllReachable'
    BY <2>1, SizeFacts DEF AllReachable
  <2>4. JobOK'
    BY <1>0, <1>3, <2>2, SizeFacts, Unfolded DEF JobOK, HeapJob
  <2>5. Refs'
    BY <1>0, <1>1, <1>3, <2>1, <2>2, Unfolded DEF Refs
  <2>6. Roles(D, F, T, H, of)'
    BY <1>0, <1>3, <2>1, <2>2, <2>3, Unfolded DEF Roles, Roots
  <2> QED BY <2>1, <2>3, <2>4, <2>5, <2>6 DEF VInv, Orderly
<1> QED BY <1>2, <1>3 DEF VmmInit

(* The CPU forgets what it has cached, or some of it.                      *)
LEMMA FewerStale ==
  ASSUME NEW m, NEW D, NEW F, NEW T, NEW H, NEW of, NEW cached, Apart(m, D, F, T, H, of, cached),
         NEW fewer, DOMAIN fewer \subseteq DOMAIN cached, \A v \in DOMAIN fewer : fewer[v] = cached[v]
  PROVE  /\ Apart(m, D, F, T, H, of, fewer)
         /\ \A e : Spare(m, T, H, of, e, cached) => Spare(m, T, H, of, e, fewer)
<1>1. Stale(m, D, H, of, fewer)
  BY DEF Apart, Stale
<1> QED BY <1>1 DEF Apart, Spare

LEMMA EvictVInv ==
  ASSUME NEW D, NEW F, NEW T, NEW H, NEW of, Before(D, F, T, H, of),
         NEW v \in DOMAIN tlb, Evict(v)
  PROVE  VInv'
<1>0. /\ UNCHANGED <<vars, memory, current_page_directory, cr3, heap_end, heap_directory, job>>
      /\ DOMAIN tlb' \subseteq DOMAIN tlb /\ \A w \in DOMAIN tlb' : tlb'[w] = tlb[w]
  BY DEF Evict
<1>1. IInv' /\ Contiguous' /\ first_free_page' = first_free_page /\ held' = held
  BY <1>0, SameNext, Unfolded
<1>2. JobOK' /\ Refs'
  BY <1>0, <1>1, Unfolded DEF JobOK, HeapJob, Refs
<1>3. /\ Apart(memory, D, F, T, H, of, tlb')
      /\ \A e : Spare(memory, T, H, of, e, tlb) => Spare(memory, T, H, of, e, tlb')
  BY <1>0, FewerStale, Unfolded
<1>4. AllReachable' = AllReachable /\ Mapped' = Mapped /\ Taken' = Taken
  BY <1>0, <1>1 DEF AllReachable, Mapped, Taken, HeapJob
<1>5. Sound(D, F, T) => Sound(D, F, T)'
  BY <1>0, <1>1, <1>4 DEF Sound, Covered
<1>6. Roles(D, F, T, H, of)'
  BY <1>0, <1>1, <1>3, <1>4, <1>5, Unfolded DEF Roles, Roots
<1> QED BY <1>0, <1>1, <1>2, <1>6, Unfolded DEF VInv

(* The CPU gets the current directory.                                     *)
LEMMA VmmEnableVInv ==
  ASSUME NEW D, NEW F, NEW T, NEW H, NEW of, Before(D, F, T, H, of), VmmEnable
  PROVE  VInv'
<1>0. /\ job = Idle /\ current_page_directory # NULL /\ cr3' = current_page_directory
      /\ tlb' = [v \in {} |-> NULL]
      /\ UNCHANGED <<vars, memory, current_page_directory, heap_end, heap_directory, job>>
  BY DEF VmmEnable
<1>1. Idle.for = "nothing" /\ Idle.page = NULL
  BY DEF Idle
<1>2. IInv' /\ Contiguous' /\ first_free_page' = first_free_page /\ held' = held
  BY <1>0, SameNext, Unfolded
<1>3. JobOK'
  BY <1>0, Unfolded DEF JobOK, HeapJob
<1>4. Refs'
  BY <1>0, <1>1, <1>2, Unfolded DEF Refs
<1>5. AllReachable' => Sound(D, F, T)'
  <2> SUFFICES ASSUME AllReachable' PROVE Sound(D, F, T)'
    OBVIOUS
  <2>1. Sound(D, F, T)
    BY <1>2, Unfolded DEF AllReachable
  <2>2. Covered(D)'
    BY <1>0, <2>1 DEF Sound, Covered
  <2>3. Mapped' = Mapped /\ Taken' = Taken
    BY <1>0 DEF Mapped, Taken, HeapJob
  <2> QED BY <1>0, <1>1, <1>2, <2>1, <2>2, <2>3 DEF Sound
<1>6. Apart(memory, D, F, T, H, of, tlb')
  BY <1>0, FewerStale, Unfolded
<1>7. Roles(D, F, T, H, of)'
  BY <1>0, <1>1, <1>2, <1>5, <1>6, Unfolded DEF Roles, Roots
<1> QED BY <1>0, <1>2, <1>3, <1>4, <1>7, Unfolded DEF VInv

(* heap_init starts to map.                                                *)
LEMMA HeapInitVInv ==
  ASSUME NEW D, NEW F, NEW T, NEW H, NEW of, Before(D, F, T, H, of), HeapInit
  PROVE  VInv'
<1>0. /\ job = Idle /\ current_page_directory # NULL /\ heap_end' = HeapStart + HeapInitial
      /\ heap_directory' = current_page_directory
      /\ job' = Job("heap_init", HeapStart, HeapStart + HeapInitial)
      /\ UNCHANGED <<vars, memory, current_page_directory, cr3, tlb>>
  BY DEF HeapInit
<1>1. /\ Idle.for = "nothing" /\ Idle.page = NULL
      /\ job'.for = "heap_init" /\ job'.next = HeapStart /\ job'.last = heap_end' /\ job'.page = NULL
  BY <1>0 DEF Idle, Job
<1>2. IInv' /\ Contiguous' /\ first_free_page' = first_free_page /\ held' = held
  BY <1>0, SameNext, Unfolded
<1>3. /\ HeapStart \in Nat /\ HeapInitial \in Nat \ {0} /\ HeapInitial <= HeapMax /\ HeapMax \in Nat
      /\ KernelEndPage \in Nat /\ first_free_page \in Nat
  BY <1>2, VmmAssumption, SizeFacts, InUse, Unfolded DEF HeapStart
<1>4. /\ heap_end' \in HeapStart + 1 .. HeapStart + HeapMax + 1
      /\ heap_end' # NULL /\ HeapStart \in HeapStart .. heap_end'
  BY <1>0, <1>3, SizeFacts
<1>5. JobOK'
  <2>1. job' \in [for : {"nothing", "panic", "vmm_init", "heap_init", "heap_expand"},
                  next : Nat, last : Nat, page : Page \cup {NULL}]
    BY <1>0, <1>3 DEF Job
  <2> QED BY <1>0, <1>1, <1>4, <2>1 DEF JobOK, HeapJob
<1>6. Refs'
  BY <1>0, <1>1, <1>2, Unfolded DEF Refs
<1>7. AllReachable' => Sound(D, F, T)'
  <2> SUFFICES ASSUME AllReachable' PROVE Sound(D, F, T)'
    OBVIOUS
  <2>1. Sound(D, F, T)
    BY <1>2, Unfolded DEF AllReachable
  <2>2. Covered(D)'
    BY <1>0, <1>1, <2>1 DEF Sound, Covered
  <2>3. Mapped' = HeapStart /\ Taken' = 0
    BY <1>1 DEF Mapped, Taken, HeapJob
  <2>4. Mapped \in Nat /\ Mapped >= HeapStart /\ Taken \in Nat
    BY <1>0, <1>1, <1>3, Unfolded DEF Mapped, Taken, HeapJob, JobOK
  <2>5. Mapped' + Taken' + KernelEndPage <= HeapStart + first_free_page'
    BY <1>2, <1>3, <2>1, <2>3, <2>4 DEF Sound
  <2>6. \A v \in HeapStart .. Mapped' - 1 : Walk(memory', current_page_directory', v) \in Page
    BY <1>3, <2>3
  <2> QED BY <1>0, <1>1, <2>1, <2>2, <2>5, <2>6 DEF Sound, HeapStart
<1>8. Roles(D, F, T, H, of)'
  BY <1>0, <1>1, <1>2, <1>7, Unfolded DEF Roles, Roots
<1> QED BY <1>0, <1>2, <1>5, <1>6, <1>8, Unfolded DEF VInv

(* heap_expand starts to map.                                              *)
LEMMA HeapExpandVInv ==
  ASSUME NEW D, NEW F, NEW T, NEW H, NEW of, Before(D, F, T, H, of),
         NEW n \in Requests, HeapExpand(n)
  PROVE  VInv'
<1>0. /\ job = Idle /\ heap_end # NULL /\ heap_end + n - 1 <= HeapStart + HeapMax
      /\ job' = Job("heap_expand", heap_end, heap_end + n)
      /\ UNCHANGED <<vars, memory, current_page_directory, cr3, tlb, heap_end, heap_directory>>
  BY DEF HeapExpand, Room
<1>1. /\ Idle.for = "nothing" /\ Idle.page = NULL
      /\ job'.for = "heap_expand" /\ job'.next = heap_end /\ job'.last = heap_end + n /\ job'.page = NULL
  BY <1>0 DEF Idle, Job
<1>2. IInv' /\ Contiguous' /\ first_free_page' = first_free_page /\ held' = held
  BY <1>0, SameNext, Unfolded
<1>3. HeapStart \in Nat /\ HeapMax \in Nat /\ heap_end \in Nat /\ n \in Nat \ {0} /\ heap_end >= HeapStart
  BY <1>0, VmmAssumption, SizeFacts, Unfolded DEF HeapStart, JobOK
<1>4. /\ heap_end + n \in heap_end + 1 .. HeapStart + HeapMax + 1
      /\ heap_end \in heap_end .. heap_end + n
  BY <1>0, <1>3
<1>5. JobOK'
  <2>1. job' \in [for : {"nothing", "panic", "vmm_init", "heap_init", "heap_expand"},
                  next : Nat, last : Nat, page : Page \cup {NULL}]
    BY <1>0, <1>3 DEF Job
  <2> QED BY <1>0, <1>1, <1>4, <2>1, Unfolded DEF JobOK, HeapJob
<1>6. Refs'
  BY <1>0, <1>1, <1>2, Unfolded DEF Refs
<1>7. AllReachable' => Sound(D, F, T)'
  <2> SUFFICES ASSUME AllReachable' PROVE Sound(D, F, T)'
    OBVIOUS
  <2>1. Sound(D, F, T)
    BY <1>2, Unfolded DEF AllReachable
  <2>2. Covered(D)'
    BY <1>0, <1>1, <2>1 DEF Sound, Covered
  <2>3. Mapped' = Mapped /\ Taken' = Taken
    BY <1>0, <1>1 DEF Mapped, Taken, HeapJob
  <2> QED BY <1>0, <1>1, <1>2, <2>1, <2>2, <2>3 DEF Sound
<1>8. Roles(D, F, T, H, of)'
  BY <1>0, <1>1, <1>2, <1>7, Unfolded DEF Roles, Roots
<1> QED BY <1>0, <1>2, <1>5, <1>6, <1>8, Unfolded DEF VInv

(* A page for the heap.                                                    *)
LEMMA TakePageVInv ==
  ASSUME NEW D, NEW F, NEW T, NEW H, NEW of, Before(D, F, T, H, of), TakePage
  PROVE  VInv'
<1>0. /\ job.for \in {"heap_init", "heap_expand"} /\ job.next < job.last /\ job.page = NULL
      /\ UNCHANGED <<memory, current_page_directory, cr3, tlb, heap_end, heap_directory>>
  BY DEF TakePage
<1>1. ASSUME NEW p \in Page, Alloc(p), job' = [job EXCEPT !.page = p]
      PROVE  VInv'
  <2> DEFINE H2 == H \cup {p}
  <2>1. /\ p = first_free_page /\ first_free_page' = p + 1 /\ p \notin held /\ held' = held \cup {p}
        /\ IInv' /\ Contiguous'
    BY <1>1, AllocNext, Unfolded
  <2>2. /\ job' \in [for : {"nothing", "panic", "vmm_init", "heap_init", "heap_expand"},
                     next : Nat, last : Nat, page : Page \cup {NULL}]
        /\ job'.for = job.for /\ job'.next = job.next /\ job'.last = job.last /\ job'.page = p /\ p # NULL
    BY <1>1, SizeFacts, Unfolded DEF JobOK
  <2>3. JobOK'
    BY <1>0, <2>2, Unfolded DEF JobOK, HeapJob
  <2>4. Refs'
    BY <1>0, <2>1, <2>2, Unfolded DEF Refs
  <2>5. p \in Page \ (D \cup F \cup T \cup H) /\ H2 = H \cup {p}
    BY <2>1, Unfolded
  <2> HIDE DEF H2
  <2>6. Apart(memory', D, F, T, H2, of, tlb) /\ Spare(memory', T, H2, of, p, tlb)
    BY <1>0, <2>5, TakeApart, Unfolded
  <2>7. ASSUME AllReachable' PROVE Sound(D, F, T)'
    <3>1. first_free_page \in Nat /\ TableSize \in Nat
      BY InUse, Unfolded
    <3>2. Sound(D, F, T)
      BY <2>1, <2>7, <3>1, Unfolded DEF AllReachable
    <3>3. Covered(D)'
      BY <1>0, <2>2, <3>2 DEF Sound, Covered
    <3>4. Mapped' = Mapped /\ Taken' = Taken + 1
      BY <1>0, <2>2 DEF Mapped, Taken, HeapJob
    <3>5. Mapped \in Nat /\ Taken \in Nat /\ KernelEndPage \in Nat /\ HeapStart \in Nat
      BY <1>0, SizeFacts, Unfolded DEF Mapped, HeapJob, Taken, JobOK, HeapStart
    <3>6. Mapped' + Taken' + KernelEndPage <= HeapStart + first_free_page'
      BY <2>1, <3>1, <3>2, <3>4, <3>5 DEF Sound
    <3> QED BY <1>0, <2>2, <3>2, <3>3, <3>4, <3>6 DEF Sound, HeapStart
  <2>8. Roles(D, F, T, H2, of)'
    <3>1. D \cup F \cup T \cup H2 = held'
      BY <2>1, <2>5, Unfolded
    <3> QED BY <1>0, <2>2, <2>6, <2>7, <3>1, Unfolded DEF Roles, Roots
  <2>9. memory' # Lost
    BY <1>0, Unfolded
  <2> QED BY <2>1, <2>3, <2>4, <2>8, <2>9 DEF VInv
<1>2. CASE AllocFails /\ job' = IF job.for = "heap_init" THEN Panic ELSE Idle
  <2>1. first_free_page = TotalPages /\ first_free_page' = first_free_page /\ held' = held /\ IInv' /\ Contiguous'
    BY <1>2, FailsNext, Unfolded
  <2>2. job' \in {[for |-> "panic", next |-> 0, last |-> 0, page |-> NULL],
                  [for |-> "nothing", next |-> 0, last |-> 0, page |-> NULL]}
    BY <1>2 DEF Panic, Idle
  <2>3. ~AllReachable'
    BY <2>1, SizeFacts DEF AllReachable
  <2>4. JobOK'
    BY <1>0, <2>2, SizeFacts, Unfolded DEF JobOK, HeapJob
  <2>5. Refs'
    BY <1>0, <2>1, <2>2, Unfolded DEF Refs
  <2>6. Roles(D, F, T, H, of)'
    BY <1>0, <2>1, <2>2, <2>3, Unfolded DEF Roles, Roots
  <2> QED BY <2>1, <2>3, <2>4, <2>5, <2>6 DEF VInv, Orderly
<1> QED BY <1>1, <1>2 DEF TakePage

LEMMA StillBelow ==
  ASSUME NEW a \in Nat, NEW b \in Nat, NEW k \in Nat, NEW h \in Nat, NEW f \in Nat, NEW g \in Nat,
         f <= g, a + b + k <= h + f
  PROVE  a + b + k <= h + g /\ (b = 1 => a + 1 + 0 + k <= h + g)
OBVIOUS

(* One page is mapped.                                                     *)
LEMMA MapNextVInv ==
  ASSUME NEW D, NEW F, NEW T, NEW H, NEW of, Before(D, F, T, H, of), MapNext
  PROVE  VInv'
<1> DEFINE v == job.next
           e == IF job.for = "vmm_init" THEN v ELSE job.page
           d == current_page_directory
<1>0. /\ v < job.last /\ MapPage(v, e) /\ job' = [job EXCEPT !.next = @ + 1, !.page = NULL]
      /\ UNCHANGED <<current_page_directory, cr3, heap_end, heap_directory>>
      /\ job.for = "vmm_init" \/ (HeapJob /\ job.page # NULL)
  BY Unfolded DEF MapNext, Advanced, JobOK, HeapJob
<1>1. /\ job' \in [for : {"nothing", "panic", "vmm_init", "heap_init", "heap_expand"},
                   next : Nat, last : Nat, page : Page \cup {NULL}]
      /\ job'.for = job.for /\ job'.next = v + 1 /\ job'.last = job.last /\ job'.page = NULL
      /\ v \in Nat /\ job.last \in Nat
  <2>1. job \in [for : {"nothing", "panic", "vmm_init", "heap_init", "heap_expand"},
                 next : Nat, last : Nat, page : Page \cup {NULL}]
    BY Unfolded DEF JobOK
  <2> DEFINE turned == [job EXCEPT !.next = job.next + 1]
  <2>2. job' = [turned EXCEPT !.page = NULL]
    BY <1>0
  <2>3. /\ turned \in [for : {"nothing", "panic", "vmm_init", "heap_init", "heap_expand"},
                       next : Nat, last : Nat, page : Page \cup {NULL}]
        /\ turned.for = job.for /\ turned.next = v + 1 /\ turned.last = job.last
        /\ v \in Nat /\ job.last \in Nat
    BY <2>1
  <2> HIDE DEF turned, v
  <2> QED BY <2>2, <2>3
<1>2. /\ TableSize \in Nat /\ HeapStart \in Nat /\ HeapStart = TableSize
      /\ HeapMax \in Nat /\ KernelEndPage \in Nat
  BY SizeFacts DEF HeapStart
<1>3. /\ job.for = "vmm_init" => v < TableSize
      /\ HeapJob => /\ v >= TableSize /\ v <= HeapStart + HeapMax /\ heap_end # NULL
                    /\ heap_end \in Nat /\ heap_end >= HeapStart
  BY <1>0, <1>1, <1>2, Unfolded DEF JobOK, HeapJob
<1>4. v \in VirtualPage
  BY <1>0, <1>1, <1>2, <1>3, SizeFacts DEF VirtualPage, HeapJob
<1>5. /\ job.for = "vmm_init" => e = v
      /\ HeapJob => e = job.page /\ job.page # NULL /\ Spare(memory, T, H, of, e, tlb)
  BY <1>0, Unfolded DEF HeapJob
<1>6. e \in Page
  <2>1. CASE job.for = "vmm_init"
    BY <1>1, <1>2, <1>3, <2>1, SizeFacts DEF Index
  <2>2. CASE HeapJob
    BY <1>5, <2>2, Unfolded DEF JobOK
  <2> QED BY <1>0, <2>1, <2>2
<1>7. d \in D
  <2>1. d # NULL
    BY <1>0, <1>3, Unfolded DEF Refs, JobOK
  <2> QED BY <2>1, Unfolded
<1>8. IF v < TableSize THEN e = v ELSE Spare(memory, T, H, of, e, tlb)
  BY <1>0, <1>1, <1>2, <1>3, <1>5
<1>b. v < TableSize => cr3 # d
  BY <1>0, <1>1, <1>2, <1>3, Unfolded DEF Refs
<1> HIDE DEF e, v
<1>a. PICK F2, T2 : F2 = Firsts(F, v) /\ T2 = Others(T, v)
  OBVIOUS
<1>9. Mapping(D, F, T, H, of, v, e)
  BY <1>4, <1>6, <1>7, <1>8, <1>b, Unfolded DEF Mapping
<1>10. IInv' /\ Contiguous' /\ held \subseteq held' /\ first_free_page <= first_free_page'
  BY <1>0, MapPmm, Unfolded
<1>11. JobOK'
  BY <1>0, <1>1, <1>2, <1>3, Unfolded DEF JobOK, HeapJob, v
<1>12. Refs'
  BY <1>0, <1>1, <1>10, Unfolded DEF Refs
<1>13. D \cup F2 \cup T2 \cup H = held'
  BY <1>10, <1>a, Unfolded DEF Firsts, Others, New
<1>14. first_free_page \in Nat /\ first_free_page' \in Nat
  BY <1>10, Unfolded DEF IInv, TypeOK
<1>15. ASSUME AllReachable'
       PROVE  AllReachable /\ Gains(memory, memory', D, F2, T2, d, v)
  <2>1. AllReachable
    BY <1>2, <1>10, <1>14, <1>15 DEF AllReachable
  <2>2. Near(memory, D, F, T) /\ first_free_page' <= TableSize
    BY <1>15, <2>1, NearNow DEF AllReachable
  <2> QED BY <1>0, <1>9, <1>a, <2>1, <2>2, MapNear, Unfolded
<1>16. Orderly' => memory' # Lost
  BY <1>15 DEF Orderly, Gains
<1>17. ASSUME memory' # Lost
       PROVE  \E of2 : Roles(D, F2, T2, H, of2)'
  <2>1. PICK of2 : Apart(memory', D, F2, T2, H, of2, tlb')
    BY <1>0, <1>9, <1>17, <1>a, MapApart, Unfolded
  <2>2. ASSUME AllReachable' PROVE Sound(D, F2, T2)'
    <3>1. Sound(D, F, T) /\ Gains(memory, memory', D, F2, T2, d, v)
      BY <1>15, <2>2, Unfolded
    <3>2. \A q \in D \cup F2 \cup T2 : memory'[q] # Data
      BY <3>1 DEF Gains, Near
    <3>3. Covered(D)'
      <4> SUFFICES ASSUME NEW c \in D, NEW w \in Index,
                          job.for = "vmm_init" /\ c = d => w < v + 1
                   PROVE  Walk(memory', c, w) \in Page
        BY <1>0, <1>1 DEF Covered
      <4>1. w \in VirtualPage /\ w \in Nat
        BY SizeFacts DEF Index
      <4>2. CASE c = d /\ w = v
        BY <3>1, <4>2 DEF Gains
      <4>3. CASE ~(c = d /\ w = v)
        <5>1. job.for = "vmm_init" /\ c = d => w < v
          BY <1>1, <4>1, <4>3
        <5>2. Walk(memory, c, w) \in Page
          BY <3>1, <5>1 DEF Sound, Covered, v
        <5> QED BY <3>1, <4>1, <5>2 DEF Gains, KeepsWalks
      <4> QED BY <4>2, <4>3
    <3>4. CASE job.for = "vmm_init"
      <4>1. Mapped' = Mapped /\ Taken' = Taken /\ ~HeapJob
        BY <1>0, <1>1, <3>4, Unfolded DEF Mapped, Taken, HeapJob, JobOK
      <4>2. Mapped \in Nat /\ Mapped <= HeapStart + HeapMax + 1 /\ Taken \in Nat
        <5>1. heap_end # NULL => heap_end \in HeapStart + 1 .. HeapStart + HeapMax + 1
          BY Unfolded DEF JobOK
        <5>2. Mapped = IF heap_end = NULL THEN HeapStart ELSE heap_end
          BY <4>1 DEF Mapped
        <5>3. Taken \in Nat
          BY DEF Taken
        <5>4. Mapped \in Nat /\ Mapped <= HeapStart + HeapMax + 1
          <6>1. CASE heap_end = NULL
            BY <1>2, <5>2, <6>1
          <6>2. CASE heap_end # NULL
            BY <1>2, <5>1, <5>2, <6>2
          <6> QED BY <6>1, <6>2
        <5> QED BY <5>3, <5>4
      <4>3. Mapped' + Taken' + KernelEndPage <= HeapStart + first_free_page'
        <5>1. Mapped + Taken + KernelEndPage <= HeapStart + first_free_page
          BY <3>1 DEF Sound
        <5>2. Mapped + Taken + KernelEndPage <= HeapStart + first_free_page'
          BY <1>2, <1>10, <1>14, <4>2, <5>1, StillBelow
        <5> QED BY <4>1, <5>2
      <4>4. ASSUME heap_directory = d, NEW w \in HeapStart .. Mapped - 1
            PROVE  Walk(memory', d, w) \in Page
        <5>1. w \in VirtualPage
          BY <1>2, <4>2, <4>4, SizeFacts DEF VirtualPage
        <5>2. Walk(memory, d, w) \in Page
          BY <3>1, <4>4 DEF Sound
        <5> QED BY <1>7, <3>1, <5>1, <5>2 DEF Gains, KeepsWalks
      <4>6. heap_directory' = current_page_directory' =>
              \A w \in HeapStart .. Mapped' - 1 : Walk(memory', current_page_directory', w) \in Page
        BY <1>0, <4>1, <4>4
      <4>7. job'.for # "panic"
        BY <1>1, <3>4
      <4> QED BY <3>2, <3>3, <4>3, <4>6, <4>7 DEF Sound, HeapStart
    <3>5. CASE HeapJob
      <4>1. Mapped = v /\ Mapped' = v + 1 /\ Taken = 1 /\ Taken' = 0
        BY <1>1, <1>5, <3>5 DEF Mapped, Taken, HeapJob, v
      <4>2. Mapped' + Taken' + KernelEndPage <= HeapStart + first_free_page'
        <5>1. Mapped + Taken + KernelEndPage <= HeapStart + first_free_page
          BY <3>1 DEF Sound
        <5>2. Mapped \in Nat /\ Taken \in Nat
          BY <1>1, <4>1
        <5>3. Mapped + 1 + 0 + KernelEndPage <= HeapStart + first_free_page'
          BY <1>2, <1>10, <1>14, <4>1, <5>1, <5>2, StillBelow
        <5> QED BY <4>1, <5>3
      <4>3. ASSUME heap_directory = d, NEW w \in HeapStart .. v
            PROVE  Walk(memory', d, w) \in Page
        <5>1. CASE w = v
          BY <3>1, <5>1 DEF Gains
        <5>2. CASE w # v
          <6>1. w \in HeapStart .. Mapped - 1
            BY <1>1, <1>2, <4>1, <4>3, <5>2
          <6>2. w \in VirtualPage
            BY <1>2, <1>3, <1>1, <3>5, <4>3, SizeFacts DEF VirtualPage
          <6>3. Walk(memory, d, w) \in Page
            BY <3>1, <4>3, <6>1 DEF Sound
          <6> QED BY <1>7, <3>1, <6>2, <6>3 DEF Gains, KeepsWalks
        <5> QED BY <5>1, <5>2
      <4>4. job.for # "vmm_init" /\ job.for # "panic"
        BY <3>5 DEF HeapJob
      <4>5. HeapStart .. Mapped' - 1 = HeapStart .. v
        BY <1>1, <4>1
      <4>6. job'.for # "vmm_init" /\ job'.for # "panic"
        BY <1>1, <4>4
      <4>7. heap_directory' = current_page_directory' =>
              \A w \in HeapStart .. Mapped' - 1 : Walk(memory', current_page_directory', w) \in Page
        BY <1>0, <4>3, <4>5
      <4> QED BY <3>2, <3>3, <4>2, <4>6, <4>7 DEF Sound, HeapStart
    <3> QED BY <1>0, <3>4, <3>5
  <2>3. {cr3', current_page_directory', heap_directory'} \subseteq D \cup {NULL} /\ job'.page = NULL
    BY <1>0, <1>1, Unfolded DEF Roots
  <2>4. Roles(D, F2, T2, H, of2)'
    BY <1>13, <2>1, <2>2, <2>3 DEF Roles
  <2> QED BY <2>4
<1> QED BY <1>10, <1>11, <1>12, <1>16, <1>17 DEF VInv

(* The kernel uses a page of the heap.                                     *)
LEMMA UseAll ==
  ASSUME NEW D, NEW F, NEW T, NEW H, NEW of, Before(D, F, T, H, of), heap_directory # NULL,
         NEW v \in HeapStart .. Mapped - 1, NEW g, g = Use(memory, v)
  PROVE  /\ g # Lost => Apart(g, D, F, T, H, of, tlb)
         /\ Orderly => g # Lost
         /\ AllReachable /\ g # Lost => Near(g, D, F, T) /\ KeepsWalks(memory, g, D)
         /\ HeapStart .. Mapped - 1 \subseteq VirtualPage
<1>1. HeapStart \in Nat /\ HeapStart = TableSize /\ HeapMax \in Nat
  BY SizeFacts DEF HeapStart
<1>2. Mapped \in Nat /\ Mapped <= HeapStart + HeapMax + 1
  <2>1. JobOK
    BY Unfolded
  <2>2. CASE HeapJob
    <3>1. job.next \in Nat /\ job.next <= HeapStart + HeapMax + 1
      BY <1>1, <2>1, <2>2, SizeFacts DEF JobOK, HeapJob
    <3> QED BY <2>2, <3>1 DEF Mapped
  <2>3. CASE ~HeapJob
    <3>1. CASE heap_end = NULL
      BY <1>1, <2>3, <3>1 DEF Mapped
    <3>2. CASE heap_end # NULL
      BY <1>1, <2>1, <2>3, <3>2 DEF Mapped, JobOK
    <3> QED BY <3>1, <3>2
  <2> QED BY <2>2, <2>3
<1>3. /\ \A w \in HeapStart .. Mapped - 1 : w \in HeapAddress
      /\ HeapStart .. Mapped - 1 \subseteq VirtualPage
  BY <1>1, <1>2, SizeFacts DEF HeapAddress, VirtualPage
<1>4. v \in HeapAddress
  BY <1>3
<1>5. g # Lost => Reach(memory, v) \in Page
  BY Accesses, Unfolded DEF Apart
<1>6. g # Lost => Apart(g, D, F, T, H, of, tlb)
  BY UseApart, Unfolded
<1>7. AllReachable /\ Reach(memory, v) \in Page =>
        g # Lost /\ Near(g, D, F, T) /\ KeepsWalks(memory, g, D)
  BY <1>4, NearNow, UseNear, Unfolded
<1>8. Orderly => Reach(memory, v) \in Page
  BY HeapReach
<1> QED BY <1>3, <1>5, <1>6, <1>7, <1>8 DEF Orderly

LEMMA SoundStays ==
  ASSUME NEW D, NEW F, NEW T, NEW H, NEW of, Before(D, F, T, H, of), AllReachable,
         Near(memory', D, F, T), KeepsWalks(memory, memory', D),
         HeapStart .. Mapped - 1 \subseteq VirtualPage,
         UNCHANGED <<vars, current_page_directory, cr3, tlb, heap_directory>>,
         job' = Idle, Mapped' = Mapped, job.page = NULL,
         job.for = "vmm_init" => job.next = TableSize
  PROVE  Sound(D, F, T)'
<1>1. Sound(D, F, T) /\ current_page_directory \in D \cup {NULL} /\ held' = held
      /\ first_free_page' = first_free_page
  BY Unfolded DEF vars
<1>2. job'.for = "nothing" /\ job'.page = NULL
  BY DEF Idle
<1>3. Covered(D)'
  <2> SUFFICES ASSUME NEW c \in D, NEW w \in Index PROVE Walk(memory', c, w) \in Page
    BY DEF Covered
  <2>1. w \in VirtualPage /\ w < TableSize
    BY SizeFacts DEF Index
  <2>2. Walk(memory, c, w) \in Page
    BY <1>1, <2>1 DEF Sound, Covered
  <2> QED BY <2>1, <2>2 DEF KeepsWalks
<1>4. heap_directory' = current_page_directory' =>
        \A w \in HeapStart .. Mapped' - 1 : Walk(memory', current_page_directory', w) \in Page
  <2> SUFFICES ASSUME heap_directory = current_page_directory, NEW w \in HeapStart .. Mapped - 1
               PROVE  Walk(memory', current_page_directory, w) \in Page
    OBVIOUS
  <2>1. Walk(memory, current_page_directory, w) \in Page
    BY <1>1 DEF Sound
  <2>2. current_page_directory \in D
    <3>1. CASE current_page_directory = NULL
      <4>1. heap_end = NULL /\ ~HeapJob
        BY <3>1, Unfolded DEF JobOK
      <4>2. Mapped = HeapStart /\ HeapStart \in Nat
        BY <4>1, SizeFacts DEF Mapped, HeapStart
      <4> QED BY <4>2
    <3> QED BY <1>1, <3>1
  <2> QED BY <2>1, <2>2 DEF KeepsWalks
<1>5. Mapped' + Taken' + KernelEndPage <= HeapStart + first_free_page'
  BY <1>1, <1>2 DEF Sound, Taken
<1>6. \A q \in D \cup F \cup T : memory'[q] # Data
  BY DEF Near
<1> QED BY <1>2, <1>3, <1>4, <1>5, <1>6 DEF Sound, HeapStart

LEMMA UseHeapVInv ==
  ASSUME NEW D, NEW F, NEW T, NEW H, NEW of, Before(D, F, T, H, of),
         NEW v \in HeapPages, UseHeap(v)
  PROVE  VInv'
<1>0. /\ job = Idle /\ memory' = Use(memory, v)
      /\ UNCHANGED <<vars, current_page_directory, cr3, tlb, heap_end, heap_directory, job>>
  BY DEF UseHeap
<1>1. Idle.for = "nothing" /\ Idle.page = NULL
  BY DEF Idle
<1>2. IInv' /\ Contiguous' /\ first_free_page' = first_free_page /\ held' = held
  BY <1>0, SameNext, Unfolded
<1>3. JobOK' /\ Refs'
  <2>1. JobOK'
    BY <1>0, Unfolded DEF JobOK, HeapJob
  <2>2. Refs'
    BY <1>0, <1>2, Unfolded DEF Refs
  <2> QED BY <2>1, <2>2
<1>4. /\ heap_end # NULL /\ heap_directory # NULL /\ Mapped = heap_end /\ Mapped' = Mapped
      /\ v \in HeapStart .. Mapped - 1
  BY <1>0, <1>1, Unfolded DEF HeapPages, JobOK, Mapped, HeapJob
<1>5. /\ memory' # Lost => Apart(memory', D, F, T, H, of, tlb)
      /\ Orderly => memory' # Lost
      /\ AllReachable /\ memory' # Lost => Near(memory', D, F, T) /\ KeepsWalks(memory, memory', D)
      /\ HeapStart .. Mapped - 1 \subseteq VirtualPage
  BY <1>0, <1>4, UseAll
<1>6. Orderly' => memory' # Lost
  BY <1>0, <1>2, <1>5 DEF Orderly, AllReachable
<1>7. ASSUME memory' # Lost PROVE Roles(D, F, T, H, of)'
  <2>1. AllReachable' => Sound(D, F, T)'
    <3> SUFFICES ASSUME AllReachable' PROVE Sound(D, F, T)'
      OBVIOUS
    <3>1. AllReachable
      BY <1>2 DEF AllReachable
    <3>2. job' = Idle /\ job.page = NULL /\ job.for # "vmm_init"
          /\ UNCHANGED <<vars, current_page_directory, cr3, tlb, heap_directory>>
      BY <1>0, <1>1
    <3> QED BY <1>4, <1>5, <1>7, <3>1, <3>2, SoundStays
  <2> QED BY <1>0, <1>1, <1>2, <1>5, <1>7, <2>1, Unfolded DEF Roles, Roots
<1> QED BY <1>2, <1>3, <1>6, <1>7 DEF VInv

LEMMA FinishVInv ==
  ASSUME NEW D, NEW F, NEW T, NEW H, NEW of, Before(D, F, T, H, of), Finish
  PROVE  VInv'
<1>0. /\ job.for \in {"vmm_init", "heap_init", "heap_expand"} /\ job.next = job.last
      /\ memory' = IF job.for = "vmm_init" THEN memory ELSE Use(memory, HeaderPage)
      /\ heap_end' = IF job.for = "heap_expand" THEN job.last ELSE heap_end
      /\ job' = Idle
      /\ UNCHANGED <<vars, current_page_directory, cr3, tlb, heap_directory>>
  BY DEF Finish
<1>1. job' = [for |-> "nothing", next |-> 0, last |-> 0, page |-> NULL]
  BY <1>0 DEF Idle
<1>2. IInv' /\ Contiguous' /\ first_free_page' = first_free_page /\ held' = held
  BY <1>0, SameNext, Unfolded
<1>3. HeapStart \in Nat /\ HeapMax \in Nat /\ NULL \notin Int
  BY SizeFacts DEF HeapStart
<1>4. JobOK
  BY Unfolded
<1>5. job.page = NULL /\ (job.for = "vmm_init" => job.next = TableSize)
  <2>1. job.next \in Nat /\ job.last \in Nat /\ ~(job.next < job.last)
    BY <1>0, <1>4 DEF JobOK
  <2> QED BY <1>0, <1>4, <2>1 DEF JobOK
<1>6. /\ Mapped' = Mapped
      /\ heap_end' # NULL => heap_end' \in HeapStart + 1 .. HeapStart + HeapMax + 1
      /\ (heap_end' = NULL) <=> (heap_end = NULL)
  <2>1. CASE job.for = "vmm_init"
    BY <1>0, <1>1, <1>4, <2>1 DEF Mapped, HeapJob, JobOK
  <2>2. CASE job.for = "heap_init"
    <3>1. heap_end' = heap_end /\ heap_end # NULL /\ job.last = heap_end
      BY <1>0, <1>4, <2>2 DEF JobOK, HeapJob
    <3> QED BY <1>0, <1>1, <1>4, <2>2, <3>1 DEF Mapped, HeapJob, JobOK
  <2>3. CASE job.for = "heap_expand"
    <3>1. /\ heap_end' = job.last /\ heap_end # NULL
          /\ heap_end \in HeapStart + 1 .. HeapStart + HeapMax + 1
          /\ job.last \in heap_end + 1 .. HeapStart + HeapMax + 1
      BY <1>0, <1>4, <2>3 DEF JobOK, HeapJob
    <3>2. job.last \in HeapStart + 1 .. HeapStart + HeapMax + 1 /\ job.last # NULL
      BY <1>3, <3>1
    <3> QED BY <1>0, <1>1, <2>3, <3>1, <3>2 DEF Mapped, HeapJob
  <2> QED BY <1>0, <2>1, <2>2, <2>3
<1>7. JobOK'
  <2>1. heap_directory' = heap_directory
    BY <1>0
  <2> QED BY <1>1, <1>4, <1>6, <2>1 DEF JobOK, HeapJob
<1>8. Refs'
  BY <1>0, <1>1, <1>2, Unfolded DEF Refs
<1>9. /\ memory' # Lost => Apart(memory', D, F, T, H, of, tlb)
      /\ Orderly => memory' # Lost
      /\ AllReachable /\ memory' # Lost =>
           /\ Near(memory', D, F, T) /\ KeepsWalks(memory, memory', D)
           /\ HeapStart .. Mapped - 1 \subseteq VirtualPage
  <2>1. CASE job.for = "vmm_init"
    <3>1. memory' = memory
      BY <1>0, <2>1
    <3>2. KeepsWalks(memory, memory', D)
      BY <3>1 DEF KeepsWalks
    <3>3. HeapStart .. Mapped - 1 \subseteq VirtualPage
      <4>1. ~HeapJob
        BY <2>1 DEF HeapJob
      <4>2. CASE heap_end = NULL
        BY <1>3, <4>1, <4>2 DEF Mapped
      <4>3. CASE heap_end # NULL
        <5>1. Mapped \in HeapStart + 1 .. HeapStart + HeapMax + 1
          BY <1>4, <4>1, <4>3 DEF Mapped, JobOK
        <5> QED BY <1>3, <5>1, SizeFacts DEF VirtualPage
      <4> QED BY <4>2, <4>3
    <3> QED BY <3>1, <3>2, <3>3, NearNow, Unfolded
  <2>2. CASE job.for # "vmm_init"
    <3>1. heap_end # NULL /\ heap_directory # NULL /\ memory' = Use(memory, HeaderPage)
          /\ Mapped = job.next
      BY <1>0, <1>4, <2>2 DEF JobOK, HeapJob, Mapped
    <3>2. heap_end \in HeapStart + 1 .. HeapStart + HeapMax + 1
      BY <1>4, <3>1 DEF JobOK
    <3>3. HeaderPage \in HeapStart .. Mapped - 1
      <4>1. CASE job.for = "heap_init"
        BY <1>0, <1>3, <1>4, <3>1, <3>2, <4>1 DEF JobOK, HeaderPage
      <4>2. CASE job.for = "heap_expand"
        <5>1. HeaderPage = heap_end /\ job.last \in heap_end + 1 .. HeapStart + HeapMax + 1
          BY <1>4, <4>2 DEF JobOK, HeaderPage
        <5> QED BY <1>0, <1>3, <3>1, <3>2, <5>1
      <4> QED BY <1>0, <2>2, <4>1, <4>2
    <3> QED BY <3>1, <3>3, UseAll
  <2> QED BY <2>1, <2>2
<1>10. Orderly' => memory' # Lost
  BY <1>0, <1>2, <1>9 DEF Orderly, AllReachable
<1>11. ASSUME memory' # Lost PROVE Roles(D, F, T, H, of)'
  <2>1. AllReachable' => Sound(D, F, T)'
    <3> SUFFICES ASSUME AllReachable' PROVE Sound(D, F, T)'
      OBVIOUS
    <3>1. AllReachable
      BY <1>2 DEF AllReachable
    <3> QED BY <1>0, <1>5, <1>6, <1>9, <1>11, <3>1, SoundStays
  <2> QED BY <1>0, <1>1, <1>2, <1>9, <1>11, <2>1, Unfolded DEF Roles, Roots
<1> QED BY <1>2, <1>7, <1>8, <1>10, <1>11 DEF VInv

-----------------------------------------------------------------------------
LEMMA InitVInv == VirtInit => VInv
<1> SUFFICES ASSUME VirtInit PROVE VInv
  OBVIOUS
<1>1. /\ Init /\ memory = [p \in Page |-> Data] /\ current_page_directory = NULL /\ cr3 = NULL
      /\ tlb = [v \in {} |-> NULL]
      /\ heap_end = NULL /\ heap_directory = NULL
      /\ job = [for |-> "nothing", next |-> 0, last |-> 0, page |-> NULL]
  BY DEF VirtInit, Idle
<1>2. IInv /\ first_free_page = KernelEndPage /\ held = {} /\ memory_bitmap = KernelPage
  BY <1>1, InitIInv DEF Init
<1>3. Contiguous
  BY <1>2 DEF Contiguous, KernelPage
<1>4. JobOK /\ Refs
  BY <1>1, <1>2 DEF JobOK, HeapJob, Refs
<1>5. memory # Lost
  <2>1. memory \in Memory
    BY <1>1 DEF Memory
  <2> QED BY <2>1, SizeFacts
<1> DEFINE of == [p \in Page |-> p]
<1>6. Apart(memory, {}, {}, {}, {}, of, tlb)
  <2>1. memory \in Memory /\ of \in [Page -> Page] /\ \A q \in Page : memory[q] = Data
    BY <1>1 DEF Memory
  <2> HIDE DEF of
  <2> QED BY <1>1, <2>1 DEF Apart, Once, Alias, Stale
<1>7. Sound({}, {}, {})
  <2>1. HeapStart \in Nat /\ KernelEndPage \in Nat
    BY SizeFacts DEF HeapStart
  <2>2. Mapped = HeapStart /\ Taken = 0
    BY <1>1 DEF Mapped, Taken, HeapJob
  <2>3. Mapped + Taken + KernelEndPage <= HeapStart + first_free_page
    BY <1>2, <2>1, <2>2
  <2>4. \A v \in HeapStart .. Mapped - 1 : FALSE
    BY <2>1, <2>2
  <2> QED BY <1>1, <2>3, <2>4 DEF Sound, Covered
<1>8. Roles({}, {}, {}, {}, of)
  <2> HIDE DEF of
  <2> QED BY <1>1, <1>2, <1>6, <1>7 DEF Roles
<1>9. \E D, F, T, H, of1 : Roles(D, F, T, H, of1)
  BY <1>8
<1> QED BY <1>2, <1>3, <1>4, <1>5, <1>9 DEF VInv

LEMMA NextVInv == VInv /\ [VirtNext]_virtVars => VInv'
<1> SUFFICES ASSUME VInv, [VirtNext]_virtVars PROVE VInv'
  OBVIOUS
<1>1. CASE UNCHANGED virtVars
  <2>1. /\ UNCHANGED <<vars, memory, current_page_directory, cr3, tlb, heap_end, heap_directory, job>>
    BY <1>1 DEF virtVars
  <2>2. IInv' /\ Contiguous' /\ first_free_page' = first_free_page /\ held' = held
    BY <2>1, SameNext DEF VInv
  <2>3. JobOK' /\ Refs' /\ (Orderly' <=> Orderly)
    BY <2>1, <2>2 DEF VInv, JobOK, HeapJob, Refs, Orderly, AllReachable
  <2>4. ASSUME NEW D, NEW F, NEW T, NEW H, NEW of, Roles(D, F, T, H, of)
        PROVE  Roles(D, F, T, H, of)'
    <3>1. AllReachable' = AllReachable /\ Mapped' = Mapped /\ Taken' = Taken
      BY <2>1, <2>2 DEF AllReachable, Mapped, Taken, HeapJob
    <3>2. Covered(D) => Covered(D)'
      BY <2>1 DEF Covered
    <3>3. Sound(D, F, T) => Sound(D, F, T)'
      BY <2>1, <2>2, <3>1, <3>2 DEF Sound
    <3> QED BY <2>1, <2>2, <2>4, <3>1, <3>3 DEF Roles
  <2> QED BY <2>1, <2>2, <2>3, <2>4 DEF VInv
<1>2. CASE VirtNext
  <2>1. PICK D, F, T, H, of : Before(D, F, T, H, of)
    BY <1>2 DEF VirtNext, VInv, Before
  <2>2. CASE VmmInit
    BY <2>1, <2>2, VmmInitVInv
  <2>3. CASE VmmEnable
    BY <2>1, <2>3, VmmEnableVInv
  <2>4. CASE HeapInit
    BY <2>1, <2>4, HeapInitVInv
  <2>5. CASE \E n \in Requests : HeapExpand(n)
    BY <2>1, <2>5, HeapExpandVInv
  <2>6. CASE TakePage
    BY <2>1, <2>6, TakePageVInv
  <2>7. CASE MapNext
    BY <2>1, <2>7, MapNextVInv
  <2>8. CASE Finish
    BY <2>1, <2>8, FinishVInv
  <2>9. CASE \E v \in HeapPages : UseHeap(v)
    BY <2>1, <2>9, UseHeapVInv
  <2>10. CASE \E v \in DOMAIN tlb : Evict(v)
    BY <2>1, <2>10, EvictVInv
  <2> QED BY <1>2, <2>2, <2>3, <2>4, <2>5, <2>6, <2>7, <2>8, <2>9, <2>10 DEF VirtNext
<1> QED BY <1>1, <1>2

(* Every reachable state of Vmm satisfies the invariant.                   *)
LEMMA VirtInvariant == VirtSpec => []VInv
BY InitVInv, NextVInv, PTL DEF VirtSpec

LEMMA VirtTyped == VInv => VirtTypeOK
<1> SUFFICES ASSUME VInv PROVE VirtTypeOK
  OBVIOUS
<1>1. IInv /\ JobOK /\ Refs
  BY DEF VInv
<1>2. memory # Lost => /\ \A p \in Page : memory[p] = Data \/ memory[p] \in Table
                       /\ \A v \in DOMAIN tlb : v \in Nat /\ tlb[v] \in held
  <2> SUFFICES ASSUME memory # Lost
               PROVE  /\ \A p \in Page : memory[p] = Data \/ memory[p] \in Table
                      /\ \A v \in DOMAIN tlb : v \in Nat /\ tlb[v] \in held
    OBVIOUS
  <2>1. PICK D, F, T, H, of : Roles(D, F, T, H, of)
    BY DEF VInv
  <2>2. Apart(memory, D, F, T, H, of, tlb) /\ D \cup F \cup T \cup H = held
    BY <2>1 DEF Roles
  <2>3. HeapAddress \subseteq Nat
    BY SizeFacts
  <2> QED BY <2>2, <2>3 DEF Apart, Memory, Stale
<1>3. heap_end \in {NULL} \cup (HeapStart .. HeapStart + HeapMax + 1)
  <2>1. HeapStart \in Nat /\ HeapMax \in Nat
    BY SizeFacts DEF HeapStart
  <2>2. CASE heap_end = NULL
    BY <2>2
  <2>3. CASE heap_end # NULL
    BY <1>1, <2>1, <2>3 DEF JobOK
  <2> QED BY <2>2, <2>3
<1> QED BY <1>1, <1>2, <1>3 DEF VirtTypeOK, IInv, Refs

-----------------------------------------------------------------------------
LEMMA HeapAddresses == JobOK => HeapPages \subseteq HeapAddress
<1>1. HeapStart \in Nat /\ HeapStart = TableSize /\ HeapMax \in Nat
  BY SizeFacts DEF HeapStart
<1>2. ASSUME JobOK, heap_end # NULL
      PROVE  \A v \in HeapStart .. heap_end - 1 : v \in HeapAddress
  <2>1. heap_end \in HeapStart + 1 .. HeapStart + HeapMax + 1
    BY <1>2 DEF JobOK
  <2> QED BY <1>1, <2>1, SizeFacts DEF HeapAddress
<1> QED BY <1>2 DEF HeapPages

(* What vmm_get_physical_address answers for an address in the heap: what  *)
(* the table of the directory says, wherever the kernel found the two.     *)
LEMMA Answer ==
  ASSUME NEW D, NEW F, NEW T, NEW H, NEW of, Before(D, F, T, H, of),
         current_page_directory \in D, NEW v \in HeapPages, PhysicalAddress(v) \in Page
  PROVE  LET q == Reach(memory, current_page_directory)
             t == TableOf(v)
             r == Reach(memory, t)
         IN /\ q \in Page /\ memory[q] # Data /\ of[q] \in D /\ t = memory[q][TableIndex(v)] /\ t \in T
            /\ r \in Page /\ memory[r] # Data /\ of[r] = t
            /\ PhysicalAddress(v) = memory[r][PageIndex(v)] /\ PhysicalAddress(v) \in H
<1> DEFINE d == current_page_directory
           q == Reach(memory, d)
           t == TableOf(v)
           r == Reach(memory, t)
           i == TableIndex(v)
           j == PageIndex(v)
<1>1. Apart(memory, D, F, T, H, of, tlb) /\ Roots(D)
  BY Unfolded
<1>2. v \in VirtualPage /\ v \in HeapAddress /\ v >= TableSize
  <2>1. v \in HeapAddress
    BY HeapAddresses, Unfolded
  <2> QED BY <2>1, SizeFacts, AddressFacts
<1>3. i \in Index /\ j \in Index /\ i # 0
  <2>1. v \in Nat /\ TableSize \in Nat
    BY <1>2, SizeFacts
  <2> QED BY <1>2, <2>1, AddressFacts DEF TableIndex, PageIndex
<1>4. t \in Page /\ PhysicalAddress(v) = Load(memory, t, j)
  BY DEF PhysicalAddress
<1>5. q \in Page /\ memory[q] # Data /\ t = memory[q][i]
  BY <1>4, SizeFacts DEF TableOf, Load, Entry
<1>6. r \in Page /\ memory[r] # Data /\ PhysicalAddress(v) = memory[r][j]
  <2>1. PhysicalAddress(v) # Data
    BY SizeFacts
  <2> QED BY <1>4, <2>1 DEF Load, Entry
<1>7. d \in Page \ H
  BY <1>1 DEF Apart
<1>8. Reach(memory, d) = q /\ Reach(memory, t) = r
  OBVIOUS
<1> HIDE DEF d, q, t, r, i, j
<1>9. of[q] = d /\ d \in D
  BY <1>1, <1>5, <1>7, <1>8, Meant DEF Roots, d
<1>10. t \in T
  BY <1>1, <1>3, <1>4, <1>5, <1>9, ContentFacts, SizeFacts
<1>11. t \in Page \ H
  BY <1>1, <1>10 DEF Apart
<1>12. of[r] = t
  BY <1>1, <1>6, <1>8, <1>11, Meant DEF Roots
<1>13. PhysicalAddress(v) \in H
  BY <1>1, <1>3, <1>6, <1>10, <1>12, ContentFacts, SizeFacts
<1> QED BY <1>5, <1>6, <1>9, <1>10, <1>12, <1>13 DEF q, t, r, i, j, d

LEMMA ApartHolds == VInv => PagesApart
<1> DEFINE d == current_page_directory
           tables == IF memory[d] = Data THEN {} ELSE TablesOf(d)
           mapped == { v \in HeapPages : PhysicalAddress(v) \in Page }
<1> SUFFICES ASSUME VInv, memory # Lost, d # NULL
             PROVE  /\ d \notin tables
                    /\ \A v \in mapped : PhysicalAddress(v) \in held \ (tables \cup {d})
                    /\ \A v, w \in mapped : PhysicalAddress(v) = PhysicalAddress(w) => v = w
  BY VirtTyped DEF PagesApart
<1>1. PICK D, F, T, H, of : Before(D, F, T, H, of)
  BY DEF VInv, Before
<1>2. /\ Apart(memory, D, F, T, H, of, tlb) /\ Roots(D) /\ JobOK /\ d \in D
      /\ D \cup F \cup T \cup H = held
  BY <1>1, Unfolded
<1>3. tables \subseteq F \cup T
  <2>1. d \in Page /\ d \notin H /\ d \notin F \cup T
    BY <1>2 DEF Apart
  <2>2. memory[d] # Data => of[d] = d /\ \A i \in Index : memory[d][i] \in F \cup T \cup {NULL}
    BY <1>2, <2>1, ContentFacts
  <2> QED BY <2>2 DEF TablesOf
<1>4. ASSUME NEW v \in mapped
      PROVE  PhysicalAddress(v) \in held \ (tables \cup {d})
  <2>1. PhysicalAddress(v) \in H
    BY <1>1, <1>2, <1>4, Answer
  <2> HIDE DEF tables
  <2> QED BY <1>2, <1>3, <2>1 DEF Apart
<1>5. ASSUME NEW v \in mapped, NEW w \in mapped, PhysicalAddress(v) = PhysicalAddress(w)
      PROVE  v = w
  <2> DEFINE q == Reach(memory, d)
             s == TableOf(v)
             t == TableOf(w)
             x == Reach(memory, s)
             y == Reach(memory, t)
             i == TableIndex(v)
             j == PageIndex(v)
             k == TableIndex(w)
             l == PageIndex(w)
  <2>1. v \in VirtualPage /\ w \in VirtualPage /\ v \in HeapPages /\ w \in HeapPages
    BY <1>2, HeapAddresses, SizeFacts
  <2>2. /\ i \in Index /\ j \in Index /\ k \in Index /\ l \in Index
        /\ v = TableSize * i + j /\ w = TableSize * k + l
    BY <2>1, AddressFacts DEF TableIndex, PageIndex
  <2>3. /\ q \in Page /\ memory[q] # Data /\ of[q] \in D /\ s = memory[q][i] /\ s \in T
        /\ x \in Page /\ memory[x] # Data /\ of[x] = s /\ PhysicalAddress(v) = memory[x][j]
    BY <1>1, <1>2, <2>1, Answer
  <2>4. /\ t = memory[q][k] /\ t \in T
        /\ y \in Page /\ memory[y] # Data /\ of[y] = t /\ PhysicalAddress(w) = memory[y][l]
    BY <1>1, <1>2, <2>1, Answer
  <2>5. memory[x][j] = memory[y][l] /\ memory[x][j] # NULL
    BY <1>5, <2>3, <2>4, SizeFacts
  <2> HIDE DEF q, s, t, x, y, i, j, k, l
  <2>6. x = y /\ j = l
    BY <1>2, <2>2, <2>3, <2>4, <2>5 DEF Apart, Once
  <2>7. s = t /\ s # NULL
    BY <1>2, <2>3, <2>4, <2>6, SizeFacts DEF Apart
  <2>8. i = k
    <3>1. Once(memory, of, D)
      BY <1>2 DEF Apart
    <3>2. memory[q][i] = memory[q][k] /\ memory[q][i] # NULL
      BY <2>3, <2>4, <2>7
    <3> QED BY <2>2, <2>3, <3>1, <3>2 DEF Once
  <2> QED BY <2>2, <2>6, <2>8
<1> QED BY <1>2, <1>3, <1>4, <1>5 DEF Apart

LEMMA ReachableHolds == VInv => HeapReachable
<1> SUFFICES ASSUME VInv, Orderly
             PROVE  /\ memory # Lost
                    /\ job = Idle =>
                         \A v \in HeapPages :
                           /\ Reach(memory, v) \in Page /\ memory[Reach(memory, v)] = Data
                           /\ \A w \in HeapPages : Reach(memory, v) = Reach(memory, w) => v = w
  BY DEF HeapReachable
<1>1. memory # Lost
  BY DEF VInv
<1>2. PICK D, F, T, H, of : Before(D, F, T, H, of)
  BY <1>1 DEF VInv, Before
<1>3. /\ Apart(memory, D, F, T, H, of, tlb) /\ Roots(D) /\ JobOK /\ D \cup F \cup T \cup H = held
      /\ held \subseteq Index
  BY <1>2, Unfolded, InUse DEF Orderly
<1>4. ASSUME job = Idle, NEW v \in HeapPages
      PROVE  Reach(memory, v) \in Page /\ memory[Reach(memory, v)] = Data
  <2> DEFINE q == Reach(memory, v)
  <2>1. /\ v \in HeapAddress /\ v \in VirtualPage /\ v >= TableSize /\ v \notin Index /\ v # NULL
        /\ heap_directory # NULL /\ v \in HeapStart .. Mapped - 1
    <3>1. v \in HeapAddress
      BY <1>3, HeapAddresses
    <3>2. v \in VirtualPage /\ v \in Nat /\ TableSize \in Nat
      BY <3>1, SizeFacts
    <3>3. v >= TableSize
      BY <3>1, <3>2, AddressFacts
    <3>4. v \notin Index /\ v # NULL
      BY <3>2, <3>3, SizeFacts DEF Index
    <3>5. heap_end # NULL /\ heap_directory # NULL /\ v \in HeapStart .. heap_end - 1
      BY <1>3 DEF HeapPages, JobOK
    <3>6. Mapped = heap_end
      BY <1>4, <3>5 DEF Mapped, HeapJob, Idle
    <3> QED BY <3>1, <3>2, <3>3, <3>4, <3>5, <3>6
  <2>2. q \in Page
    BY <1>2, <2>1, HeapReach
  <2>3. of[q] \in held => of[q] \notin HeapAddress
    <3>1. TableSize \in Nat
      BY SizeFacts
    <3> QED BY <1>3, <3>1 DEF Index, HeapAddress
  <2>4. CASE cr3 = NULL
    <3>1. q = v /\ q \notin held
      BY <1>3, <2>1, <2>4 DEF Reach
    <3> QED BY <1>3, <2>2, <3>1, ContentFacts
  <2>5. CASE cr3 # NULL /\ ~Cached(v)
    <3>1. cr3 \in D /\ Walk(memory, cr3, v) = q
      BY <1>3, <2>5 DEF Roots, Reach
    <3> HIDE DEF q
    <3>2. q \in H
      BY <1>3, <2>1, <2>2, <3>1, CpuWalk
    <3> QED BY <1>3, <2>2, <2>3, <3>2, ContentFacts DEF q
  <2>6. CASE cr3 # NULL /\ Cached(v)
    <3>1. q \in H
      BY <1>3, <2>6 DEF Reach, Cached, Apart, Stale
    <3> HIDE DEF q
    <3> QED BY <1>3, <2>2, <2>3, <3>1, ContentFacts DEF q
  <2> QED BY <2>2, <2>4, <2>5, <2>6
<1>5. ASSUME job = Idle, NEW v \in HeapPages, NEW w \in HeapPages, Reach(memory, v) = Reach(memory, w)
      PROVE  v = w
  <2>1. v \in HeapAddress /\ w \in HeapAddress
    BY <1>3, HeapAddresses
  <2>2. CASE cr3 = NULL
    BY <1>5, <2>2 DEF Reach
  <2>3. CASE cr3 # NULL
    <3>1. Reach(memory, v) \in Page /\ cr3 \in D
      BY <1>3, <1>4, <1>5, <2>3 DEF Roots
    <3>2. CASE Cached(v) \/ Cached(w)
      BY <1>3, <1>5, <2>1, <2>3, <3>1, <3>2 DEF Reach, Cached, Apart, Stale
    <3>3. CASE ~Cached(v) /\ ~Cached(w)
      <4>1. PICK q \in Page : Walk(memory, cr3, v) = q /\ Walk(memory, cr3, w) = q
        BY <1>5, <2>3, <3>1, <3>3 DEF Reach
      <4> QED BY <1>3, <2>1, <3>1, <4>1, OneWay
    <3> QED BY <3>2, <3>3
  <2> QED BY <2>2, <2>3
<1> QED BY <1>1, <1>4, <1>5

LEMMA LookupWalks ==
  ASSUME VInv, Orderly, cr3 # NULL, memory # Lost, NEW v \in 0 .. HeapStart + HeapMax
  PROVE  PhysicalAddress(v) = Walk(memory, cr3, v)
<1> DEFINE d == current_page_directory
           i == TableIndex(v)
           t == memory[d][i]
<1>1. PICK D, F, T, H, of : Before(D, F, T, H, of)
  BY DEF VInv, Before
<1>2. /\ Apart(memory, D, F, T, H, of, tlb) /\ Roots(D) /\ cr3 = d /\ d \in D
      /\ Near(memory, D, F, T)
  BY <1>1, Unfolded, NearNow DEF Orderly, Roots
<1>3. v \in VirtualPage
  BY SizeFacts DEF HeapStart, VirtualPage
<1>4. i \in Index /\ i = v \div TableSize /\ PageIndex(v) = v % TableSize
  BY <1>3, AddressFacts DEF TableIndex, PageIndex
<1>5. d \in Index /\ memory[d] # Data /\ d \notin H
  BY <1>2 DEF Near, Apart
<1>6. Reach(memory, d) = d /\ d \in Page
  BY <1>2, <1>5, NearReach
<1>7. TableOf(v) = t
  BY <1>5, <1>6 DEF TableOf, Load, Entry
<1>8. Walk(memory, cr3, v) = IF t \in Page THEN Entry(memory, t, PageIndex(v)) ELSE t
  BY <1>2, <1>4, <1>5 DEF Walk, Entry
<1>9. CASE t \in Page
  <2>1. t \in F \cup T \cup {NULL}
    <3> HIDE DEF i, d
    <3>1. of[d] = d
      BY <1>2, <1>5, <1>6, ContentFacts
    <3> QED BY <1>2, <1>4, <1>5, <1>6, <3>1, ContentFacts
  <2>2. t \in Index
    BY <1>2, <1>9, <2>1, SizeFacts DEF Near
  <2>3. Reach(memory, t) = t
    BY <1>2, <2>2, NearReach
  <2> HIDE DEF t
  <2> QED BY <1>7, <1>8, <1>9, <2>3 DEF PhysicalAddress, Load
<1>10. CASE t \notin Page
  BY <1>7, <1>8, <1>10 DEF PhysicalAddress
<1> QED BY <1>9, <1>10

LEMMA AgreeHolds == VInv => WalksAgree
<1> SUFFICES ASSUME VInv, Orderly, cr3 # NULL, memory # Lost, NEW v \in 0 .. HeapStart + HeapMax,
                    PhysicalAddress(v) # Reach(memory, v)
             PROVE  /\ Cached(v) /\ HeapStart <= v
                    /\ \A w \in HeapStart .. HeapStart + HeapMax : PhysicalAddress(w) # Reach(memory, v)
  BY DEF WalksAgree
<1>1. PICK D, F, T, H, of : Before(D, F, T, H, of)
  BY DEF VInv, Before
<1>2. Apart(memory, D, F, T, H, of, tlb) /\ cr3 \in D
  BY <1>1, Unfolded DEF Roots
<1>3. PhysicalAddress(v) = Walk(memory, cr3, v)
  BY LookupWalks
<1>4. Cached(v) /\ Reach(memory, v) = tlb[v]
  BY <1>3 DEF Reach
<1>5. /\ v \in HeapAddress
      /\ \A w \in HeapAddress : Walk(memory, cr3, w) = tlb[v] => w = v
  BY <1>2, <1>4 DEF Apart, Stale, Cached
<1>6. HeapStart = TableSize /\ HeapStart \in Nat /\ HeapMax \in Nat
  BY SizeFacts DEF HeapStart
<1>7. HeapStart <= v
  BY <1>5, <1>6 DEF HeapAddress
<1>8. ASSUME NEW w \in HeapStart .. HeapStart + HeapMax, PhysicalAddress(w) = Reach(memory, v)
      PROVE  FALSE
  <2>1. w \in 0 .. HeapStart + HeapMax /\ w \in HeapAddress
    BY <1>6, SizeFacts DEF HeapAddress
  <2>2. Walk(memory, cr3, w) = tlb[v]
    BY <1>4, <1>8, <2>1, LookupWalks
  <2> QED BY <1>5, <1>8, <2>1, <2>2
<1> QED BY <1>4, <1>7, <1>8

(* vmm.c and heap.c: no page of the heap is a table or the directory, and  *)
(* none is in the heap twice, for all sizes of tables, heap and memory and *)
(* whichever commands the user gives.                                      *)
THEOREM PagesStayApart == VirtSpec => []PagesApart
BY VirtInvariant, ApartHolds, PTL

(* Commands given once leave the kernel in reach of its tables and of its  *)
(* heap, as long as the pages in use lie in the first table.               *)
THEOREM HeapInReach == VirtSpec => []HeapReachable
BY VirtInvariant, ReachableHolds, PTL

(* vmm_get_physical_address answers with the page that the CPU uses, but   *)
(* for a page of the heap that was mapped again without a flush.           *)
THEOREM LookupIsWalk == VirtSpec => []WalksAgree
BY VirtInvariant, AgreeHolds, PTL
=============================================================================
