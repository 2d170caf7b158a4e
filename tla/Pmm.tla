-------------------------------- MODULE Pmm --------------------------------
(***************************************************************************)
(* The physical memory manager, kernel/pmm.c: a bitmap with one bit per    *)
(* 4KB page, a counter of the free pages, and a hint where the search for  *)
(* a free page starts.  A page is named by its frame number; frame 0 is    *)
(* address 0, which is also what pmm_alloc_page returns when it fails.     *)
(*                                                                         *)
(* The clients (vmm.c and heap.c) are the environment: they ask for pages, *)
(* and they may give back a page they hold, give it back once more, or     *)
(* pass an address beyond the end of memory.                               *)
(***************************************************************************)
EXTENDS Naturals, FiniteSets

CONSTANTS TotalPages,     (* MEMORY_END / PAGE_SIZE: 8192 in the kernel    *)
          KernelEndPage   (* the pages below it hold the kernel: 512       *)

ASSUME PmmAssumption == /\ TotalPages \in Nat
                        /\ KernelEndPage \in 1 .. TotalPages

VARIABLES memory_bitmap,    (* the pages whose bit is set                  *)
          free_pages,       (* the counter of clear bits                   *)
          first_free_page,  (* the hint                                    *)
          held,             (* the pages clients got and did not return    *)
          result            (* what the last pmm_alloc_page returned       *)

vars == <<memory_bitmap, free_pages, first_free_page, held, result>>

Page == 0 .. TotalPages - 1
KernelPage == 0 .. KernelEndPage - 1

\* pmm_alloc_page returns address 0 when there is no page.
NoPage == 0

-----------------------------------------------------------------------------
\* One of the two loops of find_free_page: from lo up, stop at a clear bit.
ScanStopsAt(p, lo, hi) ==
  /\ p \in lo .. hi - 1
  /\ p \notin memory_bitmap
  /\ \A q \in lo .. p - 1 : q \in memory_bitmap

ScanFails(lo, hi) == \A q \in lo .. hi - 1 : q \in memory_bitmap

\* The page find_free_page returns: from the hint to the end of memory, and
\* only if that fails from the beginning to the hint.
FindFreePage(p) ==
  \/ ScanStopsAt(p, first_free_page, TotalPages)
  \/ /\ ScanFails(first_free_page, TotalPages)
     /\ ScanStopsAt(p, 0, first_free_page)

FindsNothing == ScanFails(first_free_page, TotalPages) /\ ScanFails(0, first_free_page)

\* The hint after the page p was taken, and after it was given back.
HintAfterAlloc(p) == IF p = first_free_page THEN p + 1 ELSE first_free_page

HintAfterFree_NotLowered(p) == first_free_page
HintAfterFree(p) == IF p < first_free_page THEN p ELSE first_free_page

\* The pages pmm_free_page acts on: those of the bitmap whose bit is set.
Freeable_NoBitTest(p) == p < TotalPages
Freeable(p) == p < TotalPages /\ p \in memory_bitmap

\* The bitmap after set_bit(p) and after clear_bit(p).
SetBit_Forgotten(p) == memory_bitmap
SetBit(p) == memory_bitmap \cup {p}
ClearBit_Forgotten(p) == memory_bitmap
ClearBit(p) == memory_bitmap \ {p}

Init ==
  /\ memory_bitmap = KernelPage
  /\ free_pages = TotalPages - KernelEndPage
  /\ first_free_page = KernelEndPage
  /\ held = {}
  /\ result = NoPage

Alloc(p) ==
  /\ free_pages # 0
  /\ FindFreePage(p)
  /\ memory_bitmap' = SetBit(p)
  /\ free_pages' = free_pages - 1
  /\ first_free_page' = HintAfterAlloc(p)
  /\ held' = held \cup {p}
  /\ result' = p

AllocFails ==
  /\ free_pages = 0 \/ FindsNothing
  /\ result' = NoPage
  /\ UNCHANGED <<memory_bitmap, free_pages, first_free_page, held>>

Free(p) ==
  /\ Freeable(p)
  /\ memory_bitmap' = ClearBit(p)
  /\ free_pages' = free_pages + 1
  /\ first_free_page' = HintAfterFree(p)
  /\ held' = held \ {p}
  /\ UNCHANGED result

\* The early returns of pmm_free_page: not a page, or already free.
FreeIgnored(p) == ~Freeable(p) /\ UNCHANGED vars

\* The frames a client may pass: one it holds, one it gave back before, or
\* one past the end of memory; never a kernel page, never another's page.
Returnable == held \cup (KernelEndPage .. TotalPages \ memory_bitmap)

Next ==
  \/ \E p \in Page : Alloc(p)
  \/ AllocFails
  \/ \E p \in Returnable : Free(p) \/ FreeIgnored(p)

Spec == Init /\ [][Next]_vars

-----------------------------------------------------------------------------
TypeOK ==
  /\ memory_bitmap \subseteq Page
  /\ free_pages \in 0 .. TotalPages
  /\ first_free_page \in 0 .. TotalPages
  /\ held \subseteq Page
  /\ result \in Page

(* The counter that pmm_alloc_page trusts for its early return, and that   *)
(* "mem" prints, is the number of clear bits, after any sequence of        *)
(* allocations, frees, double frees and refused calls.                     *)
FreeCountExact == free_pages = TotalPages - Cardinality(memory_bitmap)

(* No page below the hint is free, so the first loop of find_free_page     *)
(* misses nothing: the second loop never finds a page.                     *)
HintIsLowerBound == \A p \in Page : p < first_free_page => p \in memory_bitmap

(* A set bit is a kernel page or a page exactly one client holds: no page  *)
(* is leaked by the bitmap, none that is in use looks free.                *)
BitmapAccountsForHolders ==
  /\ memory_bitmap = KernelPage \cup held
  /\ KernelPage \cap held = {}

\* The pages that are neither the kernel's nor any client's.
Unowned == Page \ (KernelPage \cup held)

(* A page that is handed out is the lowest page nobody holds (first fit),  *)
(* and pmm_alloc_page returns 0 only when somebody holds every page, even  *)
(* though it gives up on the counter alone.                                *)
AllocIsFirstFit ==
  [][ /\ \A p \in held' \ held : p \in Unowned /\ \A q \in Unowned : p <= q
      /\ result # NoPage /\ result' = NoPage => Unowned = {} ]_vars

-----------------------------------------------------------------------------
(* The bitmap, the counter and the hint implement the abstract allocator.  *)
Abstract == INSTANCE PageAllocator
              WITH Pages <- Page, Reserved <- KernelPage, Refused <- NoPage,
                   owned <- held, answer <- result

ImplementsPageAllocator == Abstract!Spec
=============================================================================
