-------------------------------- MODULE Vmm --------------------------------
(***************************************************************************)
(* The virtual memory manager, kernel/vmm.c, between its neighbours: the   *)
(* pages it takes from Pmm, which it extends, the commands "vmm init" and  *)
(* "vmm enable", and the growth of the heap (heap_init and heap_expand of  *)
(* kernel/heap.c), which maps what it takes.  The blocks in the heap are   *)
(* those of Heap.                                                          *)
(*                                                                         *)
(* Addresses are page numbers, virtual or physical.  A page of physical    *)
(* memory is a table of entries once the manager has cleared it, or else   *)
(* Data.  Every access of the kernel goes through the paging of the CPU,   *)
(* those to the page directory and to the page tables too, which the       *)
(* kernel names by their physical addresses.  The memory is Lost when an   *)
(* access faults or reads an entry from Data; nothing is modelled then.    *)
(* The CPU may go on using a translation that it has cached: the manager   *)
(* does not flush the TLB when it replaces an entry.                       *)
(*                                                                         *)
(* The loops that map pages run one page at a time, as the steps of a job. *)
(***************************************************************************)
EXTENDS Integers, Pmm

CONSTANTS TableSize,       (* PAGES_PER_TABLE: 1024; the heap begins there *)
          HeapInitial,     (* HEAP_INITIAL_SIZE: 256 pages                 *)
          HeapMax,         (* HEAP_MAX_SIZE: 2048 pages                    *)
          Requests,        (* bound of the model: pages per heap_expand    *)
          NULL, Data, Lost

Index == 0 .. TableSize - 1
Table == [Index -> Page \cup {NULL}]
HeapStart == TableSize

\* The kernel is in the first table, memory (32MB) has room for two, and a
\* directory (4GB) for all of it and for the heap.
ASSUME VmmAssumption == /\ {TableSize, HeapMax} \subseteq Nat
                        /\ KernelEndPage <= TableSize /\ 2 * TableSize <= TotalPages
                        /\ TotalPages <= TableSize * TableSize
                        /\ HeapStart + HeapMax + 1 < TableSize * TableSize
                        /\ HeapInitial \in 1 .. HeapMax
                        /\ Requests \subseteq Nat \ {0}
                        /\ {NULL, Data, Lost} \cap Int = {} /\ NULL # Data
                        /\ Data \notin Table /\ Lost \notin [Page -> Table \cup {Data}]

VARIABLES memory,
          current_page_directory,
          cr3,             (* the directory of the CPU; NULL: no paging    *)
          tlb,             (* the cached translations of pages that were   *)
                           (* mapped again since the CPU loaded cr3        *)
          heap_end,        (* or NULL before the first heap_init           *)
          heap_directory,  (* ghost: where heap_init mapped the heap       *)
          job              (* the loop that runs                           *)

virtVars ==
  <<vars, memory, current_page_directory, cr3, tlb, heap_end, heap_directory, job>>

Idle == [for |-> "nothing", next |-> 0, last |-> 0, page |-> NULL]
Panic == [Idle EXCEPT !.for = "panic"]
Job(for, next, last) == [for |-> for, next |-> next, last |-> last, page |-> NULL]

-----------------------------------------------------------------------------
\* The way of the CPU from a virtual page to a physical one: NULL is a fault,
\* Data is anything.
Entry(m, p, i) == IF m[p] = Data THEN Data ELSE m[p][i]
Walk(m, d, v) ==
  LET t == Entry(m, d, v \div TableSize)
  IN IF t \in Page THEN Entry(m, t, v % TableSize) ELSE t
Cached(v) == v \in DOMAIN tlb
Reach(m, v) == IF cr3 = NULL THEN v ELSE IF Cached(v) THEN tlb[v] ELSE Walk(m, cr3, v)

\* The kernel's accesses to the page at the virtual address v.
Write(m, v, content) ==
  IF m = Lost \/ Reach(m, v) \notin Page THEN Lost ELSE [m EXCEPT ![Reach(m, v)] = content]
Clear(m, v) == Write(m, v, [i \in Index |-> NULL])
Use(m, v) == Write(m, v, Data)
Store(m, v, i, x) ==
  LET old == m[Reach(m, v)]
  IN IF m = Lost \/ Reach(m, v) \notin Page THEN Lost
     ELSE Write(m, v, IF old = Data THEN Data ELSE [old EXCEPT ![i] = x])
Load(m, v, i) == IF Reach(m, v) \in Page THEN Entry(m, Reach(m, v), i) ELSE Data

\* get_page_table, and vmm_get_physical_address, of the current directory.
TableIndex(v) == v \div TableSize
PageIndex_OfTheTable(v) == v \div TableSize
PageIndex(v) == v % TableSize
TableOf(v) == Load(memory, current_page_directory, TableIndex(v))
PhysicalAddress(v) == IF TableOf(v) \in Page THEN Load(memory, TableOf(v), PageIndex(v)) ELSE TableOf(v)

\* vmm_map_page: without a page for a new table it does nothing.
NewTable(p, v) == Store(Clear(memory, p), current_page_directory, TableIndex(v), p)

\* The CPU may have cached the entry that is replaced, and it is not flushed.
WithStale(v) ==
  IF cr3 = current_page_directory /\ Walk(memory, cr3, v) \in Page
  THEN [w \in DOMAIN tlb \cup {v} |-> IF Cached(w) THEN tlb[w] ELSE Walk(memory, cr3, v)]
  ELSE tlb

MapPage(v, p) ==
  \/ /\ TableOf(v) # NULL
     /\ memory' = IF TableOf(v) = Data THEN Lost ELSE Store(memory, TableOf(v), PageIndex(v), p)
     /\ tlb' = WithStale(v)
     /\ UNCHANGED vars
  \/ /\ TableOf(v) = NULL
     /\ UNCHANGED tlb
     /\ \/ \E t \in Page : /\ Alloc(t)
                           /\ memory' = Store(NewTable(t, v), t, PageIndex(v), p)
        \/ AllocFails /\ UNCHANGED memory

-----------------------------------------------------------------------------
VirtInit ==
  /\ Init
  /\ memory = [p \in Page |-> Data]
  /\ current_page_directory = NULL
  /\ cr3 = NULL
  /\ tlb = [v \in {} |-> NULL]
  /\ heap_end = NULL
  /\ heap_directory = NULL
  /\ job = Idle

\* vmm_init, which the shell calls as often as the user asks.
VmmInit ==
  /\ job = Idle
  /\ \/ \E p \in Page : /\ Alloc(p)
                        /\ memory' = Clear(memory, p)
                        /\ current_page_directory' = p
                        /\ job' = Job("vmm_init", 0, TableSize)
     \/ /\ AllocFails
        /\ job' = Panic
        /\ UNCHANGED <<memory, current_page_directory>>
  /\ UNCHANGED <<cr3, tlb, heap_end, heap_directory>>

\* "vmm enable": loading cr3 empties the TLB.
VmmEnable ==
  /\ job = Idle
  /\ current_page_directory # NULL
  /\ cr3' = current_page_directory
  /\ tlb' = [v \in {} |-> NULL]
  /\ UNCHANGED <<vars, memory, current_page_directory, heap_end, heap_directory, job>>

\* The CPU may drop a cached translation at any time.
Evict(v) ==
  /\ tlb' = [w \in DOMAIN tlb \ {v} |-> tlb[w]]
  /\ UNCHANGED <<vars, memory, current_page_directory, cr3, heap_end, heap_directory, job>>

HeapInit ==
  /\ job = Idle
  /\ current_page_directory # NULL
  /\ heap_end' = HeapStart + HeapInitial
  /\ heap_directory' = current_page_directory
  /\ job' = Job("heap_init", HeapStart, HeapStart + HeapInitial)
  /\ UNCHANGED <<vars, memory, current_page_directory, cr3, tlb>>

Room(n) == heap_end + n - 1 <= HeapStart + HeapMax

\* heap_expand for n pages: the limit is tested before the size is rounded.
HeapExpand(n) ==
  /\ job = Idle
  /\ heap_end # NULL
  /\ Room(n)
  /\ job' = Job("heap_expand", heap_end, heap_end + n)
  /\ UNCHANGED <<vars, memory, current_page_directory, cr3, tlb, heap_end, heap_directory>>

\* What one turn of each loop takes, or maps: vmm_identity_map_kernel maps
\* every page of the first table to itself.
TakePage ==
  /\ job.for \in {"heap_init", "heap_expand"} /\ job.next < job.last /\ job.page = NULL
  /\ \/ \E p \in Page : Alloc(p) /\ job' = [job EXCEPT !.page = p]
     \/ AllocFails /\ job' = IF job.for = "heap_init" THEN Panic ELSE Idle
  /\ UNCHANGED <<memory, current_page_directory, cr3, tlb, heap_end, heap_directory>>

Advanced_PageKept == [job EXCEPT !.next = @ + 1]
Advanced == [job EXCEPT !.next = @ + 1, !.page = NULL]

MapNext ==
  /\ job.next < job.last
  /\ \/ job.for = "vmm_init" /\ MapPage(job.next, job.next)
     \/ job.page # NULL /\ MapPage(job.next, job.page)
  /\ job' = Advanced
  /\ UNCHANGED <<current_page_directory, cr3, heap_end, heap_directory>>

HeaderPage_HeapGrownFirst == IF job.for = "heap_init" THEN HeapStart ELSE job.last
HeaderPage == IF job.for = "heap_init" THEN HeapStart ELSE heap_end

\* After the loop, the heap writes the header of the block it has got.
Finish ==
  /\ job.for \in {"vmm_init", "heap_init", "heap_expand"} /\ job.next = job.last
  /\ memory' = IF job.for = "vmm_init" THEN memory ELSE Use(memory, HeaderPage)
  /\ heap_end' = IF job.for = "heap_expand" THEN job.last ELSE heap_end
  /\ job' = Idle
  /\ UNCHANGED <<vars, current_page_directory, cr3, tlb, heap_directory>>

\* The clients of the heap, and its functions, use its pages.
HeapPages == IF heap_end = NULL THEN {} ELSE HeapStart .. heap_end - 1
UseHeap(v) ==
  /\ job = Idle
  /\ memory' = Use(memory, v)
  /\ UNCHANGED <<vars, current_page_directory, cr3, tlb, heap_end, heap_directory, job>>

VirtNext ==
  /\ memory # Lost
  /\ \/ VmmInit \/ VmmEnable \/ HeapInit
     \/ \E n \in Requests : HeapExpand(n)
     \/ TakePage \/ MapNext \/ Finish
     \/ \E v \in HeapPages : UseHeap(v)
     \/ \E v \in DOMAIN tlb : Evict(v)

VirtSpec == VirtInit /\ [][VirtNext]_virtVars

-----------------------------------------------------------------------------
VirtTypeOK ==
  /\ TypeOK
  /\ memory # Lost =>
       /\ \A p \in Page : memory[p] = Data \/ memory[p] \in Table
       /\ \A v \in DOMAIN tlb : v \in Nat /\ tlb[v] \in held
  /\ {current_page_directory, cr3, heap_directory} \subseteq held \cup {NULL}
  /\ heap_end \in {NULL} \cup (HeapStart .. HeapStart + HeapMax + 1)
  /\ job.page \in held \cup {NULL}

\* Every page that was handed out is one that the kernel reaches at its
\* physical address: the identity map covers it.
AllReachable == first_free_page <= TableSize

\* The user gave each command once, or in an order that keeps them apart:
\* the CPU has the current directory or none, and the heap is mapped in it.
Orderly ==
  /\ AllReachable
  /\ cr3 \in {NULL, current_page_directory}
  /\ heap_directory \in {NULL, current_page_directory}

(* No table is mapped as part of the heap, and no page twice: what heap    *)
(* and tables take from the same allocator stays apart, also after the     *)
(* heap could not grow because memory was used up in the middle.           *)
TablesOf(d) == { memory[d][i] : i \in Index } \ {NULL}
PagesApart ==
  /\ VirtTypeOK
  /\ memory # Lost /\ current_page_directory # NULL /\ heap_directory \in {NULL, current_page_directory} =>
       LET d == current_page_directory
           tables == IF memory[d] = Data THEN {} ELSE TablesOf(d)
           mapped == { v \in HeapPages : PhysicalAddress(v) \in Page }
       IN /\ d \notin tables
          /\ \A v \in mapped : PhysicalAddress(v) \in held \ (tables \cup {d})
          /\ \A v, w \in mapped : PhysicalAddress(v) = PhysicalAddress(w) => v = w

(* While the pages in use lie below 4MB and the directories are not mixed  *)
(* up, no access goes astray: not those to tables by their physical        *)
(* addresses once paging is on, and not those to the heap, even through a  *)
(* translation that heap_init has replaced and the CPU still holds; the    *)
(* tables are not in the heap, and no two of its pages are one.            *)
HeapReachable ==
  Orderly => /\ memory # Lost
             /\ job = Idle =>
                  \A v \in HeapPages :
                    /\ Reach(memory, v) \in Page /\ memory[Reach(memory, v)] = Data
                    /\ \A w \in HeapPages : Reach(memory, v) = Reach(memory, w) => v = w

(* The walk of vmm_get_physical_address, by addresses, finds the page that *)
(* the CPU finds, but for a page of the heap that vmm_map_page has mapped  *)
(* again without a flush: there the CPU may still use a page that the heap *)
(* has nowhere else.                                                       *)
WalksAgree ==
  Orderly /\ cr3 # NULL /\ memory # Lost =>
    \A v \in 0 .. HeapStart + HeapMax :
      \/ PhysicalAddress(v) = Reach(memory, v)
      \/ /\ Cached(v) /\ HeapStart <= v
         /\ \A w \in HeapStart .. HeapStart + HeapMax : PhysicalAddress(w) # Reach(memory, v)

(* What the documentation says and the code does not do: the heap grows    *)
(* from 1MB to 8MB.  Where it needs a second page table, the page for that *)
(* table has an address inside the heap, and clearing it clears the heap,  *)
(* even if every command was given once.                                   *)
NothingRepeated == job = Idle /\ Cardinality(held) <= Cardinality(HeapPages) + 4
HeapGrowsSoundly ==
  heap_end # NULL /\ NothingRepeated =>
    memory # Lost /\ \A v \in HeapPages : Reach(memory, v) \in Page => memory[Reach(memory, v)] = Data
=============================================================================
