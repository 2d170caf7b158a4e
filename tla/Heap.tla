-------------------------------- MODULE Heap --------------------------------
(***************************************************************************)
(* The kernel heap, kernel/heap.c.  Every block starts with a header; the  *)
(* free blocks are meant to be on a doubly linked list, kmalloc takes the  *)
(* first one on it that is large enough, cuts off what it does not need,   *)
(* and asks for whole pages when there is none; kfree puts a block at the  *)
(* front of the list and merges neighbours.  Nothing interrupts them.      *)
(*                                                                         *)
(* Sizes and addresses count units of 8 bytes, the alignment of kmalloc,   *)
(* from heap_start.  The heap is a record [free_list_head, heap_end, block] *)
(* that the functions below map to the next one; block has an entry for    *)
(* every header that is not inside another block.                          *)
(*                                                                         *)
(* The pages behind the heap are the business of Pmm and vmm.c: here       *)
(* heap_expand may find memory exhausted at any time.  A call that fails   *)
(* changes nothing.  The clients free what they hold, once.                *)
(***************************************************************************)
EXTENDS Naturals, FiniteSets

CONSTANTS PageSize,     (* PAGE_SIZE: 512 units in the kernel              *)
          InitialSize,  (* HEAP_INITIAL_SIZE: 256 pages                    *)
          MaxSize,      (* HEAP_MAX_SIZE: 2048 pages                       *)
          Sizes,        (* bound of the model: what the clients ask for    *)
          NULL

HeaderSize == 2
WorthSplitting == 2

ASSUME HeapAssumption == /\ {PageSize, InitialSize, MaxSize} \subseteq Nat
                         /\ InitialSize % PageSize = 0 /\ MaxSize % PageSize = 0
                         /\ HeaderSize < PageSize /\ 0 < InitialSize /\ InitialSize <= MaxSize
                         /\ Sizes \subseteq Nat \ {0}
                         /\ NULL \notin Nat

VARIABLES heap,
          heap_initialized,
          live    (* the blocks the clients hold, and what they asked for  *)

vars == <<heap, heap_initialized, live>>

Blocks(h) == DOMAIN h.block
Put(table, a, header) == [b \in DOMAIN table \cup {a} |-> IF b = a THEN header ELSE table[b]]
Drop(table, a) == [b \in DOMAIN table \ {a} |-> table[b]]
EndOf(h, b) == b + HeaderSize + h.block[b].size

\* The way along the free list: its k-th block, and NULL from its end on.
Walk(h) ==
  LET w[k \in 0 .. Cardinality(Blocks(h))] ==
        IF k = 0 THEN h.free_list_head ELSE IF w[k - 1] = NULL THEN NULL ELSE h.block[w[k - 1]].next
  IN w
Listed(h) == { Walk(h)[k] : k \in DOMAIN Walk(h) } \ {NULL}

-----------------------------------------------------------------------------
\* find_free_block: the first block on the list that is large enough.
LargeEnough_HeaderCounted(h, b, n) == h.block[b].is_free /\ h.block[b].size + HeaderSize >= n
LargeEnough(h, b, n) == h.block[b].is_free /\ h.block[b].size >= n

FindFreeBlock(h, n) ==
  LET w == Walk(h)
      fits == { k \in DOMAIN w : w[k] # NULL /\ LargeEnough(h, w[k], n) }
  IN IF fits = {} THEN NULL ELSE w[CHOOSE k \in fits : \A j \in fits : k <= j]

AddToFreeList_NoBackLink(h, b) ==
  [h EXCEPT !.free_list_head = b,
            !.block[b] = [@ EXCEPT !.is_free = TRUE, !.next = h.free_list_head, !.prev = NULL]]
AddToFreeList(h, b) ==
  LET added == [h EXCEPT !.free_list_head = b,
                         !.block[b] = [@ EXCEPT !.is_free = TRUE, !.next = h.free_list_head, !.prev = NULL]]
  IN IF h.free_list_head = NULL THEN added ELSE [added EXCEPT !.block[h.free_list_head].prev = b]

RemoveFromFreeList_HeadKept(h, b) ==
  LET n == h.block[b].next
      p == h.block[b].prev
      removed == [h EXCEPT !.block[b] = [@ EXCEPT !.is_free = FALSE, !.next = NULL, !.prev = NULL]]
      bypassed == IF p = NULL THEN removed ELSE [removed EXCEPT !.block[p].next = n]
  IN IF n = NULL THEN bypassed ELSE [bypassed EXCEPT !.block[n].prev = p]
RemoveFromFreeList(h, b) ==
  LET n == h.block[b].next
      p == h.block[b].prev
      removed == [h EXCEPT !.free_list_head = IF p = NULL THEN n ELSE @,
                           !.block[b] = [@ EXCEPT !.is_free = FALSE, !.next = NULL, !.prev = NULL]]
      bypassed == IF p = NULL THEN removed ELSE [removed EXCEPT !.block[p].next = n]
  IN IF n = NULL THEN bypassed ELSE [bypassed EXCEPT !.block[n].prev = p]

\* split_block, of a block that is not on the list any more: what is cut off
\* becomes a block that is free and linked to b, but not on the list.
SplitBlock_NoHeaderRoom(h, b, n) ==
  IF h.block[b].size <= n + HeaderSize + WorthSplitting THEN h
  ELSE LET rest == b + HeaderSize + n
       IN [h EXCEPT !.block = Put([h.block EXCEPT ![b] = [@ EXCEPT !.size = n, !.next = rest]], rest,
                                  [size |-> h.block[b].size - n, is_free |-> TRUE,
                                   next |-> h.block[b].next, prev |-> b])]
SplitBlock(h, b, n) ==
  IF h.block[b].size <= n + HeaderSize + WorthSplitting THEN h
  ELSE LET rest == b + HeaderSize + n
       IN [h EXCEPT !.block = Put([h.block EXCEPT ![b] = [@ EXCEPT !.size = n, !.next = rest]], rest,
                                  [size |-> h.block[b].size - n - HeaderSize, is_free |-> TRUE,
                                   next |-> h.block[b].next, prev |-> b])]

\* heap_expand: whether it may go on, and the heap with whole pages for n and
\* a header at its end.
MayExpand(h, n) == h.heap_end + n <= MaxSize

Expand(h, n) ==
  LET needed_size == ((n + HeaderSize + PageSize - 1) \div PageSize) * PageSize
      fresh == [size |-> needed_size - HeaderSize, is_free |-> TRUE, next |-> NULL, prev |-> NULL]
      grown == [h EXCEPT !.heap_end = @ + needed_size, !.block = Put(@, h.heap_end, fresh)]
  IN AddToFreeList(grown, h.heap_end)

\* kmalloc on a heap where b is the block that was found.
Take(h, b, n) == SplitBlock(RemoveFromFreeList(h, b), b, n)

\* heap_coalesce_free_blocks: one turn of its loop on the heap s.h at the
\* block s.at, which swallows its successor on the list if that is also the
\* next block in memory; each turn drops a block or moves on.
Merge(h, b) ==
  LET swallowed == h.block[h.block[b].next]
      merged == [h EXCEPT !.block[b] = [@ EXCEPT !.next = swallowed.next,
                                               !.size = h.block[b].size + HeaderSize + swallowed.size]]
      relinked == IF swallowed.next = NULL THEN merged ELSE [merged EXCEPT !.block[swallowed.next].prev = b]
  IN [relinked EXCEPT !.block = Drop(@, h.block[b].next)]

CoalesceTurn(s) ==
  IF s.at = NULL \/ s.h.block[s.at].next = NULL THEN s
  ELSE LET n == s.h.block[s.at].next
       IN IF EndOf(s.h, s.at) = n /\ s.h.block[n].is_free
          THEN [s EXCEPT !.h = Merge(s.h, s.at)]
          ELSE [s EXCEPT !.at = n]

Coalesce(h) ==
  LET turn[k \in 0 .. Cardinality(Blocks(h))] ==
        IF k = 0 THEN [h |-> h, at |-> h.free_list_head] ELSE CoalesceTurn(turn[k - 1])
  IN turn[Cardinality(Blocks(h))].h

Release(h, b) == Coalesce(AddToFreeList(h, b))

-----------------------------------------------------------------------------
InitialHeap ==
  [free_list_head |-> 0, heap_end |-> InitialSize,
   block |-> [b \in {0} |-> [size |-> InitialSize - HeaderSize, is_free |-> TRUE, next |-> NULL, prev |-> NULL]]]

NoHeap == [free_list_head |-> NULL, heap_end |-> 0, block |-> << >>]

Init == heap = NoHeap /\ heap_initialized = FALSE /\ live = << >>

\* heap_init, again and again: the shell calls it when no command holds a block.
HeapInit ==
  /\ live = << >>
  /\ heap' = InitialHeap
  /\ heap_initialized' = TRUE
  /\ UNCHANGED live

\* The heaps where kmalloc(n) takes a block: as it is if that has a block, or
\* else expanded.
ReadyFor(n, h) ==
  \/ FindFreeBlock(heap, n) # NULL /\ h = heap
  \/ FindFreeBlock(heap, n) = NULL /\ MayExpand(heap, n) /\ h = Expand(heap, n)

Kmalloc(n) ==
  /\ heap_initialized
  /\ \E h \in {heap, Expand(heap, n)} :
       /\ ReadyFor(n, h)
       /\ heap' = Take(h, FindFreeBlock(h, n), n)
       /\ live' = Put(live, FindFreeBlock(h, n), n)
  /\ UNCHANGED heap_initialized

Kfree(b) ==
  /\ heap' = Release(heap, b)
  /\ live' = Drop(live, b)
  /\ UNCHANGED heap_initialized

\* krealloc: a block that is large enough stays; otherwise kmalloc, copy, kfree.
Krealloc(b, n) ==
  /\ IF n <= heap.block[b].size
     THEN heap' = heap /\ live' = [live EXCEPT ![b] = n]
     ELSE \E h \in {heap, Expand(heap, n)} :
            /\ ReadyFor(n, h)
            /\ heap' = Release(Take(h, FindFreeBlock(h, n), n), b)
            /\ live' = Put(Drop(live, b), FindFreeBlock(h, n), n)
  /\ UNCHANGED heap_initialized

Next ==
  \/ HeapInit
  \/ \E n \in Sizes : Kmalloc(n)
  \/ \E b \in DOMAIN live : Kfree(b) \/ \E n \in Sizes : Krealloc(b, n)

Spec == Init /\ [][Next]_vars

-----------------------------------------------------------------------------
\* heap_expand tests its limit before it rounds: the heap ends one page later.
Address == 0 .. MaxSize + PageSize - 1

TypeOK ==
  /\ heap.free_list_head \in Blocks(heap) \cup {NULL}
  /\ heap.heap_end \in 0 .. MaxSize + PageSize
  /\ Blocks(heap) \subseteq Address
  /\ \A b \in Blocks(heap) :
       heap.block[b] \in [size : 1 .. MaxSize + PageSize, is_free : BOOLEAN,
                          next : Address \cup {NULL}, prev : Address \cup {NULL}]
  /\ heap_initialized \in BOOLEAN
  /\ DOMAIN live \subseteq Address /\ \A b \in DOMAIN live : live[b] \in Sizes

(* The blocks lie one after the other from heap_start to heap_end, without *)
(* gap or overlap, so that the walk of heap_get_used_size from header to   *)
(* header ends at heap_end, and no client can reach another one's block;   *)
(* and heap_end is never more than a page beyond HEAP_MAX_SIZE.            *)
BlocksTileHeap ==
  /\ TypeOK
  /\ heap_initialized =>
       /\ 0 \in Blocks(heap)
       /\ \A b \in Blocks(heap) :
            /\ EndOf(heap, b) \in Blocks(heap) \cup {heap.heap_end}
            /\ \A a \in Blocks(heap) : a <= b \/ a >= EndOf(heap, b)

(* The free list comes to an end, prev undoes next all along it, and a     *)
(* block on it is free and nobody's: kmalloc never hands out a block that  *)
(* somebody holds.                                                         *)
FreeListSound ==
  /\ Walk(heap)[Cardinality(Blocks(heap))] = NULL
  /\ heap.free_list_head # NULL => heap.block[heap.free_list_head].prev = NULL
  /\ \A b \in Listed(heap) :
       /\ b \in Blocks(heap) /\ heap.block[b].is_free /\ b \notin DOMAIN live
       /\ heap.block[b].next # NULL => heap.block[heap.block[b].next].prev = b

(* The blocks that heap_get_used_size counts are those the clients hold,   *)
(* and each is at least as large as its client asked.                      *)
HeldBlocksAreUsed ==
  /\ { b \in Blocks(heap) : ~heap.block[b].is_free } = DOMAIN live
  /\ \A b \in DOMAIN live : heap.block[b].size >= live[b]

(* What one client does to its blocks leaves the blocks of the others where *)
(* they are, with their size: no merge and no split reaches into them.     *)
OthersUndisturbed ==
  [][ \A b \in DOMAIN live \cap DOMAIN live' :
        b \in Blocks(heap') /\ heap'.block[b].size = heap.block[b].size ]_vars

-----------------------------------------------------------------------------
(* What the documentation says and the code does not do: every free block  *)
(* is on the doubly linked list of free blocks, and can be handed out      *)
(* again.                                                                  *)
FreeBlocksAreListed ==
  \A b \in Blocks(heap) : heap.block[b].is_free => b \in Listed(heap)
=============================================================================
