----------------------------- MODULE HeapProofs -----------------------------
(***************************************************************************)
(* Proofs about the heap of kernel/heap.c, for any sizes of pages, of the  *)
(* heap and of requests: blocks tile the heap, the free list is sound, the *)
(* used blocks are the ones held, and nobody's block is disturbed.         *)
(*                                                                         *)
(* The free list is a set of blocks with a rank that decreases along next  *)
(* (Chain).  Each function of heap.c is described header by header and     *)
(* shown to keep the tiles and the chain.                                  *)
(***************************************************************************)
EXTENDS Heap, FiniteSetTheorems, WellFoundedInduction, TLAPS

Header == [size : Nat \ {0}, is_free : BOOLEAN, next : Address \cup {NULL}, prev : Address \cup {NULL}]
Headers == UNION { [B -> Header] : B \in SUBSET Address }
HeapType == [free_list_head : Address \cup {NULL}, heap_end : Nat, block : Headers]

\* One block after the other, up to heap_end.
Tiled(h) ==
  /\ IsFiniteSet(Blocks(h)) /\ 0 \in Blocks(h)
  /\ \A b \in Blocks(h) : EndOf(h, b) \in Blocks(h) \cup {h.heap_end} /\ EndOf(h, b) <= h.heap_end
  /\ \A a, b \in Blocks(h) : a <= b \/ a >= EndOf(h, b)

Used(h) == { b \in Blocks(h) : ~h.block[b].is_free }

\* The free list: the blocks L, doubly linked, each of lower rank than the one
\* before it.
OnChain(h, L, r, b) ==
  /\ h.block[b].next # NULL =>
       /\ h.block[b].next \in L
       /\ h.block[h.block[b].next].prev = b
       /\ r[h.block[b].next] < r[b]
  /\ h.block[b].prev # NULL => h.block[b].prev \in L /\ h.block[h.block[b].prev].next = b
  /\ h.block[b].prev = NULL => b = h.free_list_head

Chain(h, L, r, top) ==
  /\ L \subseteq Blocks(h) \ Used(h)
  /\ top \in Nat /\ r \in [L -> Nat] /\ \A b \in L : r[b] < top
  /\ h.free_list_head # NULL => h.free_list_head \in L /\ h.block[h.free_list_head].prev = NULL
  /\ \A b \in L : OnChain(h, L, r, b)

\* Whole pages, at most one beyond the limit.
Sized(h) == h.heap_end <= MaxSize + PageSize /\ h.heap_end % PageSize = 0

-----------------------------------------------------------------------------
LEMMA ConstantFacts ==
  /\ PageSize \in Nat /\ InitialSize \in Nat /\ MaxSize \in Nat
  /\ PageSize > 2 /\ InitialSize > 0 /\ InitialSize <= MaxSize
  /\ NULL \notin Nat /\ NULL \notin Address
  /\ Address \subseteq Nat
  /\ Sizes \subseteq Nat \ {0}
BY HeapAssumption DEF HeaderSize, Address

LEMMA HeapFacts ==
  ASSUME NEW h \in HeapType
  PROVE  /\ Blocks(h) \subseteq Address
         /\ h.heap_end \in Nat
         /\ h.free_list_head \in Address \cup {NULL}
         /\ h.block \in [Blocks(h) -> Header]
         /\ \A b \in Blocks(h) :
              /\ h.block[b] \in Header
              /\ h.block[b].size \in Nat \ {0} /\ h.block[b].is_free \in BOOLEAN
              /\ h.block[b].next \in Address \cup {NULL} /\ h.block[b].prev \in Address \cup {NULL}
<1>1. PICK B \in SUBSET Address : h.block \in [B -> Header]
  BY DEF HeapType, Headers
<1>2. Blocks(h) = B
  BY <1>1 DEF Blocks
<1> QED BY <1>1, <1>2 DEF HeapType, Header

(* A heap is known by its fields.                                          *)
LEMMA HeapFrom ==
  ASSUME NEW f \in Address \cup {NULL}, NEW e \in Nat, NEW B \in SUBSET Address, NEW t \in [B -> Header],
         NEW g, g = [free_list_head |-> f, heap_end |-> e, block |-> t]
  PROVE  g \in HeapType /\ Blocks(g) = B
BY DEF HeapType, Headers, Blocks

\* h and g differ at most in the list.
SameTiles(h, g) ==
  /\ g \in HeapType /\ Blocks(g) = Blocks(h) /\ g.heap_end = h.heap_end
  /\ \A a \in Blocks(h) : g.block[a].size = h.block[a].size

\* The ways in which heap.c changes headers.
WithHead(h, f) == [h EXCEPT !.free_list_head = f]
WithTable(h, t) == [h EXCEPT !.block = t]
WithEnd(h, e, t) == [h EXCEPT !.heap_end = e, !.block = t]
WithHeader(h, b, hd) == [h EXCEPT !.block[b] = hd]
WithNext(h, b, n) == [h EXCEPT !.block[b].next = n]
WithPrev(h, b, p) == [h EXCEPT !.block[b].prev = p]
WithFree(h, b, n) == [h EXCEPT !.block[b] = [@ EXCEPT !.is_free = TRUE, !.next = n, !.prev = NULL]]
WithUsed(h, b) == [h EXCEPT !.block[b] = [@ EXCEPT !.is_free = FALSE, !.next = NULL, !.prev = NULL]]

LEMMA SetHead ==
  ASSUME NEW h \in HeapType, NEW f \in Address \cup {NULL}, NEW g, g = WithHead(h, f)
  PROVE  SameTiles(h, g) /\ g.block = h.block /\ g.free_list_head = f
BY DEF HeapType, SameTiles, Blocks, WithHead

LEMMA SetTable ==
  ASSUME NEW h \in HeapType, NEW B \in SUBSET Address, NEW t \in [B -> Header], NEW g, g = WithTable(h, t)
  PROVE  /\ g \in HeapType /\ Blocks(g) = B /\ g.block = t
         /\ g.heap_end = h.heap_end /\ g.free_list_head = h.free_list_head
<1>1. g = [free_list_head |-> h.free_list_head, heap_end |-> h.heap_end, block |-> t]
  BY DEF HeapType, WithTable
<1>2. h.free_list_head \in Address \cup {NULL} /\ h.heap_end \in Nat
  BY HeapFacts
<1> QED BY <1>1, <1>2, HeapFrom

LEMMA SetEnd ==
  ASSUME NEW h \in HeapType, NEW e \in Nat, NEW B \in SUBSET Address, NEW t \in [B -> Header],
         NEW g, g = WithEnd(h, e, t)
  PROVE  /\ g \in HeapType /\ Blocks(g) = B /\ g.block = t
         /\ g.heap_end = e /\ g.free_list_head = h.free_list_head
<1>1. g = [free_list_head |-> h.free_list_head, heap_end |-> e, block |-> t]
  BY DEF HeapType, WithEnd
<1>2. h.free_list_head \in Address \cup {NULL}
  BY HeapFacts
<1> QED BY <1>1, <1>2, HeapFrom

LEMMA SetHeader ==
  ASSUME NEW h \in HeapType, NEW b \in Blocks(h), NEW hd \in Header, NEW g, g = WithHeader(h, b, hd)
  PROVE  /\ g \in HeapType /\ Blocks(g) = Blocks(h) /\ g.block[b] = hd
         /\ \A a \in Blocks(h) : a # b => g.block[a] = h.block[a]
         /\ g.heap_end = h.heap_end /\ g.free_list_head = h.free_list_head
<1> DEFINE t == [h.block EXCEPT ![b] = hd]
<1>1. Blocks(h) \in SUBSET Address /\ h.block \in [Blocks(h) -> Header]
  BY HeapFacts
<1>2. t \in [Blocks(h) -> Header] /\ t[b] = hd /\ \A a \in Blocks(h) : a # b => t[a] = h.block[a]
  BY <1>1
<1>3. g = WithTable(h, t)
  BY DEF HeapType, WithTable, WithHeader
<1> HIDE DEF t
<1> QED BY <1>1, <1>2, <1>3, SetTable

LEMMA SetNext ==
  ASSUME NEW h \in HeapType, NEW b \in Blocks(h), NEW n \in Address \cup {NULL},
         NEW g, g = WithNext(h, b, n)
  PROVE  /\ SameTiles(h, g) /\ g.free_list_head = h.free_list_head
         /\ Used(g) = Used(h)
         /\ \A a \in Blocks(h) : /\ g.block[a].next = IF a = b THEN n ELSE h.block[a].next
                                 /\ g.block[a].prev = h.block[a].prev
<1> DEFINE hd == [h.block[b] EXCEPT !.next = n]
<1>1. hd \in Header /\ hd.size = h.block[b].size /\ hd.is_free = h.block[b].is_free
      /\ hd.next = n /\ hd.prev = h.block[b].prev
  BY HeapFacts DEF Header
<1>2. g = WithHeader(h, b, hd)
  BY DEF HeapType, WithHeader, WithNext, WithPrev
<1> HIDE DEF hd
<1>3. /\ g \in HeapType /\ Blocks(g) = Blocks(h) /\ g.block[b] = hd
      /\ \A a \in Blocks(h) : a # b => g.block[a] = h.block[a]
      /\ g.heap_end = h.heap_end /\ g.free_list_head = h.free_list_head
  BY <1>1, <1>2, SetHeader
<1> QED BY <1>1, <1>3 DEF SameTiles, Used

LEMMA SetPrev ==
  ASSUME NEW h \in HeapType, NEW b \in Blocks(h), NEW p \in Address \cup {NULL},
         NEW g, g = WithPrev(h, b, p)
  PROVE  /\ SameTiles(h, g) /\ g.free_list_head = h.free_list_head
         /\ Used(g) = Used(h)
         /\ \A a \in Blocks(h) : /\ g.block[a].next = h.block[a].next
                                 /\ g.block[a].prev = IF a = b THEN p ELSE h.block[a].prev
<1> DEFINE hd == [h.block[b] EXCEPT !.prev = p]
<1>1. hd \in Header /\ hd.size = h.block[b].size /\ hd.is_free = h.block[b].is_free
      /\ hd.next = h.block[b].next /\ hd.prev = p
  BY HeapFacts DEF Header
<1>2. g = WithHeader(h, b, hd)
  BY DEF HeapType, WithHeader, WithNext, WithPrev
<1> HIDE DEF hd
<1>3. /\ g \in HeapType /\ Blocks(g) = Blocks(h) /\ g.block[b] = hd
      /\ \A a \in Blocks(h) : a # b => g.block[a] = h.block[a]
      /\ g.heap_end = h.heap_end /\ g.free_list_head = h.free_list_head
  BY <1>1, <1>2, SetHeader
<1> QED BY <1>1, <1>3 DEF SameTiles, Used

LEMMA SetFree ==
  ASSUME NEW h \in HeapType, NEW b \in Blocks(h), NEW n \in Address \cup {NULL},
         NEW g, g = WithFree(h, b, n)
  PROVE  /\ SameTiles(h, g) /\ g.free_list_head = h.free_list_head
         /\ Used(g) = Used(h) \ {b}
         /\ \A a \in Blocks(h) : /\ g.block[a].next = IF a = b THEN n ELSE h.block[a].next
                                 /\ g.block[a].prev = IF a = b THEN NULL ELSE h.block[a].prev
<1> DEFINE hd == [h.block[b] EXCEPT !.is_free = TRUE, !.next = n, !.prev = NULL]
<1>1. hd \in Header /\ hd.size = h.block[b].size /\ hd.is_free /\ hd.next = n /\ hd.prev = NULL
  BY HeapFacts DEF Header
<1>2. g = WithHeader(h, b, hd)
  BY DEF HeapType, WithHeader, WithFree
<1> HIDE DEF hd
<1>3. /\ g \in HeapType /\ Blocks(g) = Blocks(h) /\ g.block[b] = hd
      /\ \A a \in Blocks(h) : a # b => g.block[a] = h.block[a]
      /\ g.heap_end = h.heap_end /\ g.free_list_head = h.free_list_head
  BY <1>1, <1>2, SetHeader
<1> QED BY <1>1, <1>3 DEF SameTiles, Used

LEMMA SetUsed ==
  ASSUME NEW h \in HeapType, NEW b \in Blocks(h),
         NEW g, g = WithUsed(h, b)
  PROVE  /\ SameTiles(h, g) /\ g.free_list_head = h.free_list_head
         /\ Used(g) = Used(h) \cup {b}
         /\ \A a \in Blocks(h) : /\ g.block[a].next = IF a = b THEN NULL ELSE h.block[a].next
                                 /\ g.block[a].prev = IF a = b THEN NULL ELSE h.block[a].prev
<1> DEFINE hd == [h.block[b] EXCEPT !.is_free = FALSE, !.next = NULL, !.prev = NULL]
<1>1. hd \in Header /\ hd.size = h.block[b].size /\ ~hd.is_free /\ hd.next = NULL /\ hd.prev = NULL
  BY HeapFacts DEF Header
<1>2. g = WithHeader(h, b, hd)
  BY DEF HeapType, WithHeader, WithUsed
<1> HIDE DEF hd
<1>3. /\ g \in HeapType /\ Blocks(g) = Blocks(h) /\ g.block[b] = hd
      /\ \A a \in Blocks(h) : a # b => g.block[a] = h.block[a]
      /\ g.heap_end = h.heap_end /\ g.free_list_head = h.free_list_head
  BY <1>1, <1>2, SetHeader
<1> QED BY <1>1, <1>3 DEF SameTiles, Used

-----------------------------------------------------------------------------
(* What the functions make of a heap.                                      *)
LEMMA AddToFreeListEffect ==
  ASSUME NEW h \in HeapType, NEW b \in Blocks(h), b # h.free_list_head,
         h.free_list_head # NULL => h.free_list_head \in Blocks(h),
         NEW g, g = AddToFreeList(h, b)
  PROVE  /\ SameTiles(h, g) /\ g.free_list_head = b
         /\ Used(g) = Used(h) \ {b}
         /\ \A a \in Blocks(h) :
              /\ g.block[a].next = IF a = b THEN h.free_list_head ELSE h.block[a].next
              /\ g.block[a].prev = IF a = b THEN NULL
                                   ELSE IF a = h.free_list_head THEN b ELSE h.block[a].prev
<1> DEFINE c == h.free_list_head
           h1 == WithHead(h, b)
           h2 == WithFree(h1, b, c)
<1>0. b \in Address \cup {NULL} /\ c \in Address \cup {NULL}
  BY HeapFacts
<1>1. g = IF c = NULL THEN h2 ELSE WithPrev(h2, c, b)
  <2>1. h2 = [h EXCEPT !.free_list_head = b,
                       !.block[b] = [@ EXCEPT !.is_free = TRUE, !.next = c, !.prev = NULL]]
    BY DEF HeapType, WithHead, WithFree
  <2> HIDE DEF h2
  <2> QED BY <2>1 DEF AddToFreeList, WithPrev
<1>2. SameTiles(h, h1) /\ h1.block = h.block /\ h1.free_list_head = b
  BY <1>0, SetHead
<1> HIDE DEF h1
<1>3. h1 \in HeapType /\ b \in Blocks(h1)
  BY <1>2 DEF SameTiles
<1>4. /\ SameTiles(h1, h2) /\ h2.free_list_head = b
      /\ Used(h2) = Used(h) \ {b}
      /\ \A a \in Blocks(h) : /\ h2.block[a].next = IF a = b THEN c ELSE h.block[a].next
                              /\ h2.block[a].prev = IF a = b THEN NULL ELSE h.block[a].prev
  <2> HIDE DEF c
  <2>2. /\ SameTiles(h1, h2) /\ h2.free_list_head = h1.free_list_head
        /\ Used(h2) = Used(h1) \ {b}
        /\ \A a \in Blocks(h1) : /\ h2.block[a].next = IF a = b THEN c ELSE h1.block[a].next
                                 /\ h2.block[a].prev = IF a = b THEN NULL ELSE h1.block[a].prev
    BY <1>0, <1>3, SetFree
  <2> QED BY <1>2, <2>2 DEF SameTiles, Used
<1> HIDE DEF h2
<1>5. SameTiles(h, h2)
  BY <1>2, <1>4 DEF SameTiles
<1>6. CASE c = NULL
  <2>1. c \notin Blocks(h)
    BY <1>6, HeapFacts, ConstantFacts
  <2> QED BY <1>1, <1>4, <1>5, <1>6, <2>1
<1>7. CASE c # NULL
  <2>1. c \in Blocks(h2) /\ h2 \in HeapType
    BY <1>5, <1>7 DEF SameTiles
  <2>2. g = WithPrev(h2, c, b)
    BY <1>1, <1>7
  <2> HIDE DEF c
  <2>3. /\ SameTiles(h2, g) /\ g.free_list_head = h2.free_list_head
        /\ Used(g) = Used(h2)
        /\ \A a \in Blocks(h2) : /\ g.block[a].next = h2.block[a].next
                                 /\ g.block[a].prev = IF a = c THEN b ELSE h2.block[a].prev
    BY <1>0, <2>1, <2>2, SetPrev
  <2>4. SameTiles(h, g) /\ Blocks(h2) = Blocks(h) /\ b # c
    BY <1>5, <2>3 DEF SameTiles, c
  <2>5. \A a \in Blocks(h) :
          /\ g.block[a].next = IF a = b THEN c ELSE h.block[a].next
          /\ g.block[a].prev = IF a = b THEN NULL ELSE IF a = c THEN b ELSE h.block[a].prev
    BY <1>4, <2>3, <2>4
  <2> QED BY <1>4, <2>3, <2>4, <2>5 DEF c
<1> QED BY <1>6, <1>7

LEMMA RemoveFromFreeListEffect ==
  ASSUME NEW h \in HeapType, NEW b \in Blocks(h), NEW n, NEW p,
         n = h.block[b].next, n # b, n # NULL => n \in Blocks(h),
         p = h.block[b].prev, p # b, p # NULL => p \in Blocks(h),
         NEW g, g = RemoveFromFreeList(h, b)
  PROVE  /\ SameTiles(h, g)
         /\ g.free_list_head = IF p = NULL THEN n ELSE h.free_list_head
         /\ Used(g) = Used(h) \cup {b}
         /\ \A a \in Blocks(h) :
              /\ g.block[a].next = IF a = b THEN NULL ELSE IF a = p THEN n ELSE h.block[a].next
              /\ g.block[a].prev = IF a = b THEN NULL ELSE IF a = n THEN p ELSE h.block[a].prev
<1> DEFINE f == IF p = NULL THEN n ELSE h.free_list_head
           h1 == WithHead(h, f)
           h2 == WithUsed(h1, b)
           h3 == IF p = NULL THEN h2 ELSE WithNext(h2, p, n)
<1>0. /\ f \in Address \cup {NULL} /\ n \in Address \cup {NULL} /\ p \in Address \cup {NULL}
      /\ NULL \notin Blocks(h)
  BY HeapFacts, ConstantFacts
<1>1. g = IF n = NULL THEN h3 ELSE WithPrev(h3, n, p)
  <2> DEFINE removed == [h EXCEPT !.free_list_head = IF h.block[b].prev = NULL THEN h.block[b].next ELSE @,
                                  !.block[b] = [@ EXCEPT !.is_free = FALSE, !.next = NULL, !.prev = NULL]]
             bypassed == IF h.block[b].prev = NULL THEN removed
                         ELSE WithNext(removed, h.block[b].prev, h.block[b].next)
  <2>1. h2 = removed
    BY DEF HeapType, WithHead, WithUsed
  <2>2. g = IF h.block[b].next = NULL THEN bypassed
            ELSE WithPrev(bypassed, h.block[b].next, h.block[b].prev)
    BY Zenon DEF RemoveFromFreeList, WithPrev, WithNext
  <2> HIDE DEF removed, h2
  <2> QED BY <2>1, <2>2
<1>2. SameTiles(h, h1) /\ h1.block = h.block /\ h1.free_list_head = f
  <2> HIDE DEF f
  <2> QED BY <1>0, SetHead
<1> HIDE DEF h1, f
<1>3. h1 \in HeapType /\ b \in Blocks(h1)
  BY <1>2 DEF SameTiles
<1>4. /\ SameTiles(h, h2) /\ h2.free_list_head = f
      /\ Used(h2) = Used(h) \cup {b}
      /\ \A a \in Blocks(h) : /\ h2.block[a].next = IF a = b THEN NULL ELSE h.block[a].next
                              /\ h2.block[a].prev = IF a = b THEN NULL ELSE h.block[a].prev
  <2>2. /\ SameTiles(h1, h2) /\ h2.free_list_head = h1.free_list_head
        /\ Used(h2) = Used(h1) \cup {b}
        /\ \A a \in Blocks(h1) : /\ h2.block[a].next = IF a = b THEN NULL ELSE h1.block[a].next
                                 /\ h2.block[a].prev = IF a = b THEN NULL ELSE h1.block[a].prev
    BY <1>3, SetUsed
  <2> QED BY <1>2, <2>2 DEF SameTiles, Used
<1> HIDE DEF h2
<1>5. h2 \in HeapType /\ Blocks(h2) = Blocks(h)
  BY <1>4 DEF SameTiles
<1>6. /\ SameTiles(h, h3) /\ h3.free_list_head = f
      /\ Used(h3) = Used(h2)
      /\ \A a \in Blocks(h) : /\ h3.block[a].next = IF a = p THEN n ELSE h2.block[a].next
                              /\ h3.block[a].prev = h2.block[a].prev
  <2>1. CASE p = NULL
    BY <1>0, <1>4, <2>1
  <2>2. CASE p # NULL
    <3>1. h3 = WithNext(h2, p, n) /\ p \in Blocks(h2)
      BY <1>5, <2>2
    <3>2. /\ SameTiles(h2, h3) /\ h3.free_list_head = h2.free_list_head
          /\ Used(h3) = Used(h2)
          /\ \A a \in Blocks(h2) : /\ h3.block[a].next = IF a = p THEN n ELSE h2.block[a].next
                                   /\ h3.block[a].prev = h2.block[a].prev
      BY <1>0, <1>5, <3>1, SetNext
    <3> HIDE DEF h3
    <3>3. SameTiles(h, h3) /\ Used(h3) = Used(h2) /\ h3.free_list_head = f
      BY <1>4, <3>2 DEF SameTiles
    <3>4. \A a \in Blocks(h) : /\ h3.block[a].next = IF a = p THEN n ELSE h2.block[a].next
                              /\ h3.block[a].prev = h2.block[a].prev
      BY <1>5, <3>2
    <3> QED BY <3>3, <3>4
  <2> QED BY <2>1, <2>2
<1> HIDE DEF h3
<1>7. h3 \in HeapType /\ Blocks(h3) = Blocks(h)
  BY <1>6 DEF SameTiles
<1>8. /\ SameTiles(h, g) /\ g.free_list_head = f
      /\ Used(g) = Used(h2)
      /\ \A a \in Blocks(h) : /\ g.block[a].next = IF a = p THEN n ELSE h2.block[a].next
                              /\ g.block[a].prev = IF a = n THEN p ELSE h2.block[a].prev
  <2>1. CASE n = NULL
    BY <1>0, <1>1, <1>6, <2>1
  <2>2. CASE n # NULL
    <3>1. g = WithPrev(h3, n, p) /\ n \in Blocks(h3)
      BY <1>1, <1>7, <2>2
    <3>2. /\ SameTiles(h3, g) /\ g.free_list_head = h3.free_list_head
          /\ Used(g) = Used(h3)
          /\ \A a \in Blocks(h3) : /\ g.block[a].next = h3.block[a].next
                                   /\ g.block[a].prev = IF a = n THEN p ELSE h3.block[a].prev
      BY <1>0, <1>7, <3>1, SetPrev
    <3> QED BY <1>6, <1>7, <3>2 DEF SameTiles
  <2> QED BY <2>1, <2>2
<1>9. \A a \in Blocks(h) :
        /\ g.block[a].next = IF a = b THEN NULL ELSE IF a = p THEN n ELSE h.block[a].next
        /\ g.block[a].prev = IF a = b THEN NULL ELSE IF a = n THEN p ELSE h.block[a].prev
  BY <1>4, <1>8
<1> QED BY <1>4, <1>8, <1>9 DEF f

\* Where the rest of a split begins.
RestOf(b, n) == b + HeaderSize + n

LEMMA SplitBlockEffect ==
  ASSUME NEW h \in HeapType, NEW b \in Blocks(h), NEW n \in Nat \ {0},
         h.block[b].size > n + HeaderSize + WorthSplitting, RestOf(b, n) \in Address \ Blocks(h),
         NEW g, g = SplitBlock(h, b, n)
  PROVE  /\ g \in HeapType /\ Blocks(g) = Blocks(h) \cup {RestOf(b, n)}
         /\ g.heap_end = h.heap_end /\ g.free_list_head = h.free_list_head
         /\ g.block[RestOf(b, n)].size = h.block[b].size - n - HeaderSize
         /\ g.block[b].size = n
         /\ Used(g) = Used(h)
         /\ \A a \in Blocks(h) \ {b} : g.block[a] = h.block[a]
<1> DEFINE rest == RestOf(b, n)
           hb == [h.block[b] EXCEPT !.size = n, !.next = rest]
           hr == [size |-> h.block[b].size - n - HeaderSize, is_free |-> TRUE,
                  next |-> h.block[b].next, prev |-> b]
           t1 == [h.block EXCEPT ![b] = hb]
           t2 == Put(t1, rest, hr)
<1>0. /\ Blocks(h) \cup {rest} \in SUBSET Address /\ b \in Nat /\ b \in Address
      /\ h.block \in [Blocks(h) -> Header] /\ h.block[b] \in Header
      /\ h.block[b].size \in Nat /\ h.block[b].next \in Address \cup {NULL}
  BY HeapFacts, ConstantFacts
<1>1. g = WithTable(h, t2)
  <2>1. ~(h.block[b].size <= n + HeaderSize + WorthSplitting)
    BY <1>0 DEF HeaderSize, WorthSplitting
  <2> QED BY <2>1 DEF SplitBlock, RestOf, WithTable
<1>2. hb \in Header /\ hb.size = n /\ hb.is_free = h.block[b].is_free
  BY <1>0 DEF Header
<1>3. hr \in Header
  BY <1>0 DEF Header, HeaderSize, WorthSplitting
<1>4. hr.size = h.block[b].size - n - HeaderSize /\ hr.is_free
  OBVIOUS
<1>5. t1 \in [Blocks(h) -> Header] /\ t1[b] = hb /\ \A a \in Blocks(h) : a # b => t1[a] = h.block[a]
  BY <1>0, <1>2
<1>6. rest \notin Blocks(h)
  OBVIOUS
<1> HIDE DEF hb, hr, t1, rest
<1>7. /\ t2 \in [Blocks(h) \cup {rest} -> Header] /\ t2[rest] = hr /\ t2[b] = hb
      /\ \A a \in Blocks(h) \ {b} : t2[a] = h.block[a]
  BY <1>3, <1>5, <1>6 DEF Put
<1> HIDE DEF t2
<1>8. /\ g \in HeapType /\ Blocks(g) = Blocks(h) \cup {rest} /\ g.block = t2
      /\ g.heap_end = h.heap_end /\ g.free_list_head = h.free_list_head
  BY <1>0, <1>1, <1>7, SetTable
<1>9. Used(g) = Used(h)
  <2>1. \A a \in Blocks(h) : g.block[a].is_free <=> h.block[a].is_free
    BY <1>2, <1>7, <1>8
  <2> QED BY <1>4, <1>6, <1>7, <1>8, <2>1 DEF Used
<1> QED BY <1>2, <1>4, <1>7, <1>8, <1>9 DEF rest

LEMMA ExpandEffect ==
  ASSUME NEW h \in HeapType, h.heap_end \in Address \ Blocks(h), NEW n \in Nat,
         NEW size \in Nat,
         size = ((n + HeaderSize + PageSize - 1) \div PageSize) * PageSize, size > HeaderSize
  PROVE  \E g \in HeapType :
           /\ Expand(h, n) = AddToFreeList(g, h.heap_end)
           /\ Blocks(g) = Blocks(h) \cup {h.heap_end}
           /\ g.heap_end = h.heap_end + size /\ g.free_list_head = h.free_list_head
           /\ g.block[h.heap_end].size = size - HeaderSize
           /\ Used(g) = Used(h)
           /\ \A a \in Blocks(h) : g.block[a] = h.block[a]
<1> DEFINE e == h.heap_end
           fresh == [size |-> size - HeaderSize, is_free |-> TRUE, next |-> NULL, prev |-> NULL]
           t == Put(h.block, e, fresh)
           g == WithEnd(h, e + size, t)
<1>0. /\ h.free_list_head \in Address \cup {NULL} /\ e + size \in Nat /\ e \notin Blocks(h)
      /\ Blocks(h) \cup {e} \in SUBSET Address
      /\ h.block \in [Blocks(h) -> Header]
  BY HeapFacts, ConstantFacts
<1>1. Expand(h, n) = AddToFreeList(g, e)
  BY DEF Expand, WithEnd
<1>2. fresh \in Header
  BY DEF Header, HeaderSize
<1>3. /\ t \in [Blocks(h) \cup {e} -> Header] /\ t[e] = fresh
      /\ \A a \in Blocks(h) : t[a] = h.block[a]
  BY <1>0, <1>2 DEF Put
<1>4. fresh.size = size - HeaderSize /\ fresh.is_free
  OBVIOUS
<1> HIDE DEF fresh, t, g
<1>5. /\ g \in HeapType /\ Blocks(g) = Blocks(h) \cup {e} /\ g.block = t
      /\ g.heap_end = e + size /\ g.free_list_head = h.free_list_head
  <2> DEFINE B == Blocks(h) \cup {e}
             f == e + size
  <2>1. B \in SUBSET Address /\ f \in Nat /\ t \in [B -> Header] /\ g = WithEnd(h, f, t)
    BY <1>0, <1>3 DEF g
  <2> HIDE DEF e, B, f
  <2>2. g \in HeapType /\ Blocks(g) = B /\ g.block = t /\ g.heap_end = f /\ g.free_list_head = h.free_list_head
    BY <2>1, SetEnd
  <2> QED BY <2>2 DEF B, f
<1>7. Used(g) = Used(h)
  BY <1>0, <1>3, <1>4, <1>5 DEF Used
<1> QED BY <1>1, <1>3, <1>4, <1>5, <1>7

LEMMA MergeEffect ==
  ASSUME NEW h \in HeapType, NEW b \in Blocks(h), NEW n \in Blocks(h), NEW m,
         n = h.block[b].next, m = h.block[n].next, n # b, m # n, m # NULL => m \in Blocks(h),
         NEW g, g = Merge(h, b)
  PROVE  /\ g \in HeapType /\ Blocks(g) = Blocks(h) \ {n}
         /\ g.heap_end = h.heap_end /\ g.free_list_head = h.free_list_head
         /\ g.block[b].size = h.block[b].size + HeaderSize + h.block[n].size
         /\ Used(g) = Used(h) \ {n}
         /\ \A a \in Blocks(h) \ {b, n} : g.block[a].size = h.block[a].size
         /\ \A a \in Blocks(h) \ {n} :
              /\ g.block[a].next = IF a = b THEN m ELSE h.block[a].next
              /\ g.block[a].prev = IF a = m THEN b ELSE h.block[a].prev
<1> DEFINE size == h.block[b].size + HeaderSize + h.block[n].size
           hb == [h.block[b] EXCEPT !.next = m, !.size = size]
           h1 == WithHeader(h, b, hb)
           h2 == IF m = NULL THEN h1 ELSE WithPrev(h1, m, b)
           t == Drop(h2.block, n)
<1>0. /\ h.block[b] \in Header /\ h.block[b].size \in Nat \ {0} /\ h.block[n].size \in Nat \ {0}
      /\ m \in Address \cup {NULL} /\ b \in Address \cup {NULL} /\ Blocks(h) \subseteq Address
      /\ NULL \notin Blocks(h) /\ size \in Nat \ {0}
  BY HeapFacts, ConstantFacts DEF HeaderSize
<1>1. g = WithTable(h2, t)
  <2>1. h1 = [h EXCEPT !.block[b] = [@ EXCEPT !.next = h.block[h.block[b].next].next,
                                              !.size = h.block[b].size + HeaderSize
                                                       + h.block[h.block[b].next].size]]
    BY DEF WithHeader
  <2> HIDE DEF h1
  <2> QED BY <2>1 DEF Merge, WithPrev, WithTable
<1>2. /\ hb \in Header /\ hb.size = size
      /\ hb.is_free = h.block[b].is_free /\ hb.next = m /\ hb.prev = h.block[b].prev
  <2> HIDE DEF size
  <2> QED BY <1>0 DEF Header
<1> HIDE DEF hb
<1>3. /\ h1 \in HeapType /\ Blocks(h1) = Blocks(h) /\ h1.block[b] = hb
      /\ \A a \in Blocks(h) : a # b => h1.block[a] = h.block[a]
      /\ h1.heap_end = h.heap_end /\ h1.free_list_head = h.free_list_head
  BY <1>2, SetHeader
<1>4. Used(h1) = Used(h)
  BY <1>2, <1>3 DEF Used
<1> HIDE DEF h1
<1>5. /\ SameTiles(h1, h2) /\ h2.free_list_head = h1.free_list_head
      /\ Used(h2) = Used(h1)
      /\ \A a \in Blocks(h1) : /\ h2.block[a].next = h1.block[a].next
                               /\ h2.block[a].prev = IF a = m THEN b ELSE h1.block[a].prev
  <2>1. CASE m = NULL
    <3>1. h2 = h1
      BY <2>1
    <3>2. SameTiles(h1, h1) /\ \A a \in Blocks(h1) : a # m
      BY <1>0, <1>3, <2>1 DEF SameTiles
    <3> HIDE DEF h2
    <3> QED BY <3>1, <3>2
  <2>2. CASE m # NULL
    <3>1. h2 = WithPrev(h1, m, b) /\ m \in Blocks(h1) /\ h1 \in HeapType /\ b \in Address \cup {NULL}
      BY <1>0, <1>3, <2>2
    <3>2. SameTiles(h1, WithPrev(h1, m, b)) /\ Used(WithPrev(h1, m, b)) = Used(h1)
          /\ WithPrev(h1, m, b).free_list_head = h1.free_list_head
      BY <3>1, SetPrev
    <3>3. \A a \in Blocks(h1) : WithPrev(h1, m, b).block[a].next = h1.block[a].next
      BY <3>1, SetPrev
    <3>4. \A a \in Blocks(h1) : WithPrev(h1, m, b).block[a].prev = IF a = m THEN b ELSE h1.block[a].prev
      BY <3>1, SetPrev
    <3> HIDE DEF h2
    <3> QED BY <3>1, <3>2, <3>3, <3>4
  <2> QED BY <2>1, <2>2
<1> HIDE DEF h2
<1>6. h2 \in HeapType /\ Blocks(h2) = Blocks(h)
  BY <1>3, <1>5 DEF SameTiles
<1>7. t \in [Blocks(h) \ {n} -> Header] /\ Blocks(h) \ {n} \in SUBSET Address
  <2>1. \A a \in Blocks(h) : h2.block[a] \in Header
    BY <1>6, HeapFacts
  <2> QED BY <1>0, <1>6, <2>1 DEF Drop, Blocks
<1>8. \A a \in Blocks(h) \ {n} : t[a] = h2.block[a]
  BY <1>6 DEF Drop, Blocks
<1> HIDE DEF t
<1>9. /\ g \in HeapType /\ Blocks(g) = Blocks(h) \ {n} /\ g.block = t
      /\ g.heap_end = h2.heap_end /\ g.free_list_head = h2.free_list_head
  <2> DEFINE B == Blocks(h) \ {n}
  <2>1. B \in SUBSET Address /\ t \in [B -> Header]
    BY <1>7
  <2> HIDE DEF B
  <2>2. g \in HeapType /\ Blocks(g) = B /\ g.block = t
        /\ g.heap_end = h2.heap_end /\ g.free_list_head = h2.free_list_head
    BY <1>1, <1>6, <2>1, SetTable
  <2> QED BY <2>2 DEF B
<1>10. Used(g) = Used(h) \ {n}
  BY <1>4, <1>5, <1>6, <1>8, <1>9 DEF Used
<1>11. /\ g.block[b].size = h.block[b].size + HeaderSize + h.block[n].size
       /\ \A a \in Blocks(h) \ {b, n} : g.block[a].size = h.block[a].size
  BY <1>2, <1>3, <1>5, <1>8, <1>9 DEF SameTiles
<1>12. \A a \in Blocks(h) \ {n} :
         /\ g.block[a].next = IF a = b THEN m ELSE h.block[a].next
         /\ g.block[a].prev = IF a = m THEN b ELSE h.block[a].prev
  <2>1. \A a \in Blocks(h) : h1.block[a].next = (IF a = b THEN m ELSE h.block[a].next)
                             /\ h1.block[a].prev = h.block[a].prev
    BY <1>2, <1>3
  <2> QED BY <1>3, <1>5, <1>8, <1>9, <2>1
<1> QED BY <1>3, <1>5, <1>9, <1>10, <1>11, <1>12 DEF SameTiles

-----------------------------------------------------------------------------
(* What they make of the free list.                                        *)
LEMMA ChainFacts ==
  ASSUME NEW h \in HeapType, NEW L, NEW r, NEW top, Chain(h, L, r, top), NEW b \in L
  PROVE  LET n == h.block[b].next
             p == h.block[b].prev
         IN /\ b \in Blocks(h) /\ b \notin Used(h) /\ b # NULL
            /\ n # b /\ (n # NULL => n \in L)
            /\ p # b /\ (p # NULL => p \in L)
            /\ n # NULL => n # p
<1>1. b \in Blocks(h) /\ b \notin Used(h) /\ b # NULL
  BY HeapFacts, ConstantFacts DEF Chain
<1>2. \A c \in L : r[c] \in Nat /\ OnChain(h, L, r, c)
  BY DEF Chain
<1> QED BY <1>1, <1>2 DEF OnChain

LEMMA ChainKept ==
  ASSUME NEW h \in HeapType, NEW L, NEW r, NEW top, Chain(h, L, r, top),
         NEW g, g.free_list_head = h.free_list_head, L \subseteq Blocks(g) \ Used(g),
         \A a \in L : g.block[a].next = h.block[a].next /\ g.block[a].prev = h.block[a].prev
  PROVE  Chain(g, L, r, top)
BY DEF Chain, OnChain

LEMMA ChainGrows ==
  ASSUME NEW h \in HeapType, NEW L, NEW r, NEW top, Chain(h, L, r, top), NEW b \in Blocks(h) \ L,
         NEW g, g = AddToFreeList(h, b)
  PROVE  /\ SameTiles(h, g) /\ Used(g) = Used(h) \ {b} /\ g.free_list_head = b
         /\ Chain(g, L \cup {b}, [a \in L \cup {b} |-> IF a = b THEN top ELSE r[a]], top + 1)
<1> DEFINE c == h.free_list_head
           M == L \cup {b}
           q == [a \in M |-> IF a = b THEN top ELSE r[a]]
<1>1. /\ L \subseteq Blocks(h) \ Used(h) /\ top \in Nat /\ r \in [L -> Nat] /\ \A a \in L : r[a] < top
      /\ c # NULL => c \in L /\ h.block[c].prev = NULL
      /\ \A a \in L : OnChain(h, L, r, a)
      /\ b # NULL /\ NULL \notin Blocks(h)
  BY HeapFacts, ConstantFacts DEF Chain
<1>2. /\ SameTiles(h, g) /\ g.free_list_head = b /\ Used(g) = Used(h) \ {b}
      /\ \A a \in Blocks(h) :
           /\ g.block[a].next = IF a = b THEN c ELSE h.block[a].next
           /\ g.block[a].prev = IF a = b THEN NULL ELSE IF a = c THEN b ELSE h.block[a].prev
  <2>1. b # h.free_list_head /\ (h.free_list_head # NULL => h.free_list_head \in Blocks(h))
    BY <1>1
  <2> QED BY <2>1, AddToFreeListEffect
<1>3. q \in [M -> Nat] /\ q[b] = top /\ \A a \in L : q[a] = r[a]
  BY <1>1
<1> HIDE DEF c, q
<1>4. \A a \in M : q[a] < top + 1
  BY <1>1, <1>3
<1>5. M \subseteq Blocks(g) \ Used(g)
  BY <1>1, <1>2 DEF SameTiles
<1>6. OnChain(g, M, q, b)
  BY <1>1, <1>2, <1>3 DEF OnChain
<1>7. ASSUME NEW a \in L PROVE OnChain(g, M, q, a)
  <2>1. OnChain(h, L, r, a) /\ a # b /\ a \in Blocks(h)
    BY <1>1
  <2>2. g.block[a].next = h.block[a].next /\ g.block[a].prev = IF a = c THEN b ELSE h.block[a].prev
    BY <1>2, <2>1
  <2>3. h.block[a].next # NULL => h.block[a].next # c
    BY <1>1, <2>1 DEF OnChain
  <2>4. g.block[a].next # NULL => /\ g.block[a].next \in M
                                  /\ g.block[g.block[a].next].prev = a
                                  /\ q[g.block[a].next] < q[a]
    BY <1>1, <1>2, <1>3, <2>1, <2>2, <2>3 DEF OnChain
  <2>5. g.block[a].prev # NULL => g.block[a].prev \in M /\ g.block[g.block[a].prev].next = a
    <3>1. CASE a = c
      BY <1>2, <2>2, <3>1
    <3>2. CASE a # c
      BY <1>1, <1>2, <2>1, <2>2, <3>2 DEF OnChain
    <3> QED BY <3>1, <3>2
  <2>6. g.block[a].prev # NULL
    BY <1>1, <2>1, <2>2 DEF OnChain, c
  <2> QED BY <2>4, <2>5, <2>6 DEF OnChain
<1>8. g.block[b].prev = NULL
  BY <1>2
<1>9. \A a \in M : OnChain(g, M, q, a)
  BY <1>6, <1>7
<1>10. Chain(g, M, q, top + 1)
  <2>1. top + 1 \in Nat /\ b \in M /\ g.free_list_head = b
    BY <1>1, <1>2
  <2> HIDE DEF M
  <2> QED BY <1>3, <1>4, <1>5, <1>8, <1>9, <2>1 DEF Chain
<1> QED BY <1>2, <1>10 DEF q

LEMMA ChainShrinks ==
  ASSUME NEW h \in HeapType, NEW L, NEW r, NEW top, Chain(h, L, r, top), NEW b \in L,
         NEW g, g = RemoveFromFreeList(h, b)
  PROVE  /\ SameTiles(h, g) /\ Used(g) = Used(h) \cup {b}
         /\ Chain(g, L \ {b}, [a \in L \ {b} |-> r[a]], top)
<1> DEFINE n == h.block[b].next
           p == h.block[b].prev
           M == L \ {b}
           q == [a \in M |-> r[a]]
<1>1. /\ L \subseteq Blocks(h) \ Used(h) /\ top \in Nat /\ r \in [L -> Nat] /\ \A a \in L : r[a] < top
      /\ h.free_list_head # NULL => h.free_list_head \in L /\ h.block[h.free_list_head].prev = NULL
      /\ \A a \in L : OnChain(h, L, r, a)
  BY DEF Chain
<1>2. /\ b \in Blocks(h) /\ b # NULL /\ n # b /\ (n # NULL => n \in L) /\ p # b /\ (p # NULL => p \in L)
      /\ n # NULL => n # p
  BY ChainFacts
<1>3. /\ SameTiles(h, g) /\ g.free_list_head = IF p = NULL THEN n ELSE h.free_list_head
      /\ Used(g) = Used(h) \cup {b}
      /\ \A a \in Blocks(h) :
           /\ g.block[a].next = IF a = b THEN NULL ELSE IF a = p THEN n ELSE h.block[a].next
           /\ g.block[a].prev = IF a = b THEN NULL ELSE IF a = n THEN p ELSE h.block[a].prev
  <2> HIDE DEF n, p
  <2>1. (n # NULL => n \in Blocks(h)) /\ (p # NULL => p \in Blocks(h))
    BY <1>1, <1>2
  <2> QED BY <1>2, <2>1, RemoveFromFreeListEffect DEF n, p
<1>4. q \in [M -> Nat] /\ \A a \in M : q[a] = r[a] /\ q[a] < top
  BY <1>1
<1>5. M \subseteq Blocks(g) \ Used(g)
  BY <1>1, <1>3 DEF SameTiles
<1>6. /\ n # NULL => h.block[n].prev = b /\ r[n] < r[b]
      /\ p # NULL => h.block[p].next = b /\ r[b] < r[p]
      /\ p = NULL => b = h.free_list_head
  BY <1>1, <1>2 DEF OnChain
<1>7. \A a \in L : r[a] \in Nat /\ a \in Blocks(h) /\ a # NULL
  BY <1>1, HeapFacts, ConstantFacts
<1> HIDE DEF n, p, q
<1>8. ASSUME NEW a \in M PROVE OnChain(g, M, q, a)
  <2>1. OnChain(h, L, r, a) /\ OnChain(h, L, r, b) /\ a # b /\ a \in L
    BY <1>1
  <2>2. g.block[a].next # NULL => /\ g.block[a].next \in M
                                  /\ g.block[g.block[a].next].prev = a
                                  /\ q[g.block[a].next] < q[a]
    <3>1. CASE a = p
      BY <1>2, <1>3, <1>4, <1>6, <1>7, <2>1, <3>1 DEF OnChain
    <3>2. CASE a # p
      <4>1. h.block[a].next # b
        BY <1>2, <2>1, <3>2 DEF OnChain, p
      <4>2. h.block[a].next # n \/ n = NULL
        BY <1>6, <2>1 DEF OnChain
      <4> QED BY <1>3, <1>4, <1>7, <2>1, <3>2, <4>1, <4>2 DEF OnChain
    <3> QED BY <3>1, <3>2
  <2>3. g.block[a].prev # NULL => g.block[a].prev \in M /\ g.block[g.block[a].prev].next = a
    <3>1. CASE a = n
      BY <1>2, <1>3, <1>7, <2>1, <3>1 DEF OnChain
    <3>2. CASE a # n
      <4>1. h.block[a].prev # b
        BY <1>2, <2>1, <3>2 DEF OnChain, n
      <4>2. h.block[a].prev # p \/ p = NULL
        BY <1>6, <2>1 DEF OnChain
      <4> QED BY <1>3, <1>7, <2>1, <3>2, <4>1, <4>2 DEF OnChain
    <3> QED BY <3>1, <3>2
  <2>4. g.block[a].prev = NULL => a = g.free_list_head
    <3>1. CASE a = n
      BY <1>3, <1>7, <2>1, <3>1
    <3>2. CASE a # n
      BY <1>3, <1>6, <1>7, <2>1, <3>2 DEF OnChain
    <3> QED BY <3>1, <3>2
  <2> QED BY <2>2, <2>3, <2>4 DEF OnChain
<1>9. g.free_list_head # NULL => g.free_list_head \in M /\ g.block[g.free_list_head].prev = NULL
  <2>1. CASE p = NULL
    BY <1>2, <1>3, <1>7, <2>1
  <2>2. CASE p # NULL
    BY <1>1, <1>2, <1>3, <1>6, <1>7, <2>2 DEF p
  <2> QED BY <2>1, <2>2
<1> QED BY <1>1, <1>3, <1>4, <1>5, <1>8, <1>9 DEF Chain, q

LEMMA ChainMerges ==
  ASSUME NEW h \in HeapType, NEW L, NEW r, NEW top, Chain(h, L, r, top),
         NEW b \in L, NEW n, n = h.block[b].next, n # NULL,
         NEW g, g = Merge(h, b)
  PROVE  /\ g \in HeapType /\ Blocks(g) = Blocks(h) \ {n} /\ g.heap_end = h.heap_end
         /\ g.block[b].size = h.block[b].size + HeaderSize + h.block[n].size
         /\ \A a \in Blocks(h) \ {b, n} : g.block[a].size = h.block[a].size
         /\ Used(g) = Used(h) /\ n \in L /\ n # b
         /\ Chain(g, L \ {n}, [a \in L \ {n} |-> r[a]], top)
<1> DEFINE m == h.block[n].next
           M == L \ {n}
           q == [a \in M |-> r[a]]
<1>1. /\ L \subseteq Blocks(h) \ Used(h) /\ top \in Nat /\ r \in [L -> Nat] /\ \A a \in L : r[a] < top
      /\ h.free_list_head # NULL => h.free_list_head \in L /\ h.block[h.free_list_head].prev = NULL
      /\ \A a \in L : OnChain(h, L, r, a)
  BY DEF Chain
<1>2. b \in Blocks(h) /\ b # NULL /\ n \in L /\ n # b
  BY ChainFacts
<1>3. n \in Blocks(h) /\ m # n /\ (m # NULL => m \in L /\ m \in Blocks(h))
  BY <1>1, <1>2, ChainFacts
<1>4. /\ g \in HeapType /\ Blocks(g) = Blocks(h) \ {n}
      /\ g.heap_end = h.heap_end /\ g.free_list_head = h.free_list_head
      /\ g.block[b].size = h.block[b].size + HeaderSize + h.block[n].size
      /\ Used(g) = Used(h) \ {n}
      /\ \A a \in Blocks(h) \ {b, n} : g.block[a].size = h.block[a].size
      /\ \A a \in Blocks(h) \ {n} :
           /\ g.block[a].next = IF a = b THEN m ELSE h.block[a].next
           /\ g.block[a].prev = IF a = m THEN b ELSE h.block[a].prev
  BY <1>2, <1>3, MergeEffect
<1>5. q \in [M -> Nat] /\ \A a \in M : q[a] = r[a] /\ q[a] < top
  BY <1>1
<1>6. Used(g) = Used(h) /\ M \subseteq Blocks(g) \ Used(g)
  BY <1>1, <1>2, <1>4
<1>7. \A a \in L : r[a] \in Nat /\ a \in Blocks(h) /\ a # NULL
  BY <1>1, HeapFacts, ConstantFacts
<1>8. /\ h.block[n].prev = b /\ r[n] < r[b]
      /\ m # NULL => h.block[m].prev = n /\ r[m] < r[n]
  BY <1>1, <1>2 DEF OnChain
<1>9. m # b
  BY <1>7, <1>8, <1>2, <1>3
<1> HIDE DEF m, q
<1>10. ASSUME NEW a \in M PROVE OnChain(g, M, q, a)
  <2>1. OnChain(h, L, r, a) /\ OnChain(h, L, r, n) /\ a # n /\ a \in L
    BY <1>1, <1>2
  <2>2. g.block[a].next # NULL => /\ g.block[a].next \in M
                                  /\ g.block[g.block[a].next].prev = a
                                  /\ q[g.block[a].next] < q[a]
    <3>1. CASE a = b
      <4>1. a \in Blocks(h) \ {n} /\ g.block[a].next = m
        BY <1>4, <1>7, <2>1, <3>1
      <4>2. m # NULL => m \in L /\ m # n /\ r[m] < r[n] /\ r[n] < r[b]
        BY <1>2, <1>3, <1>7, <1>8
      <4>3. m # NULL => m \in M /\ m \in Blocks(h) \ {n} /\ n \in L
        BY <1>2, <1>7, <4>2
      <4>4. m # NULL => g.block[m].prev = a /\ q[m] = r[m] /\ q[a] = r[b]
        BY <1>4, <1>5, <3>1, <4>3
      <4>5. m # NULL => r[m] < r[b]
        BY <1>2, <1>7, <2>1, <3>1, <4>2, <4>3
      <4> QED BY <4>1, <4>3, <4>4, <4>5
    <3>2. CASE a # b
      <4>1. h.block[a].next # n
        BY <1>2, <1>8, <2>1, <3>2 DEF OnChain
      <4>2. h.block[a].next # m \/ m = NULL
        BY <1>8, <2>1 DEF OnChain
      <4>3. a \in Blocks(h) \ {n} /\ g.block[a].next = h.block[a].next
        BY <1>4, <1>7, <2>1, <3>2
      <4> DEFINE x == h.block[a].next
      <4>4. x # NULL => x \in L /\ h.block[x].prev = a /\ r[x] < r[a]
        BY <2>1 DEF OnChain
      <4> HIDE DEF x
      <4>5. x # NULL => x \in M /\ x \in Blocks(h) \ {n} /\ x # m
        BY <1>7, <4>1, <4>2, <4>4 DEF x
      <4>6. x # NULL => g.block[x].prev = a /\ q[x] < q[a]
        BY <1>4, <1>5, <4>4, <4>5
      <4> QED BY <4>3, <4>5, <4>6 DEF x
    <3> QED BY <3>1, <3>2
  <2>3. g.block[a].prev # NULL => g.block[a].prev \in M /\ g.block[g.block[a].prev].next = a
    <3>1. CASE a = m
      BY <1>2, <1>3, <1>4, <1>7, <2>1, <3>1 DEF OnChain
    <3>2. CASE a # m
      <4>1. h.block[a].prev # n
        BY <1>2, <1>7, <2>1, <3>2 DEF OnChain, m
      <4>2. h.block[a].prev # b
        BY <1>2, <2>1 DEF OnChain
      <4> QED BY <1>4, <1>7, <2>1, <3>2, <4>1, <4>2 DEF OnChain
    <3> QED BY <3>1, <3>2
  <2>4. g.block[a].prev = NULL => a = g.free_list_head
    BY <1>2, <1>4, <1>7, <2>1 DEF OnChain
  <2> QED BY <2>2, <2>3, <2>4 DEF OnChain
<1>11. g.free_list_head # NULL => g.free_list_head \in M /\ g.block[g.free_list_head].prev = NULL
  <2>1. h.free_list_head # NULL => h.free_list_head # n
    BY <1>1, <1>2, <1>8
  <2>2. h.free_list_head # NULL => h.free_list_head # m \/ m = NULL
    BY <1>1, <1>2, <1>7, <1>8
  <2> QED BY <1>1, <1>4, <1>7, <2>1, <2>2
<1>12. Chain(g, M, q, top)
  BY <1>1, <1>5, <1>6, <1>10, <1>11 DEF Chain
<1> QED BY <1>2, <1>4, <1>6, <1>12 DEF q

-----------------------------------------------------------------------------
(* What they make of the tiles.                                            *)
LEMMA TileFacts ==
  ASSUME NEW h \in HeapType, Tiled(h), NEW b \in Blocks(h)
  PROVE  /\ b \in Nat /\ EndOf(h, b) \in Nat /\ EndOf(h, b) = b + 2 + h.block[b].size
         /\ b < EndOf(h, b) /\ b < h.heap_end
         /\ h.block[b].size \in Nat \ {0}
<1>1. b \in Nat /\ h.block[b].size \in Nat \ {0} /\ h.heap_end \in Nat
  BY HeapFacts, ConstantFacts
<1>2. EndOf(h, b) = b + 2 + h.block[b].size
  BY DEF EndOf, HeaderSize
<1>3. EndOf(h, b) <= h.heap_end
  BY DEF Tiled
<1> QED BY <1>1, <1>2, <1>3

LEMMA TilesKept ==
  ASSUME NEW h \in HeapType, Tiled(h), NEW g, SameTiles(h, g)
  PROVE  Tiled(g)
<1>1. \A b \in Blocks(h) : EndOf(g, b) = EndOf(h, b)
  BY DEF SameTiles, EndOf
<1> QED BY <1>1 DEF SameTiles, Tiled

LEMMA TilesSplit ==
  ASSUME NEW h \in HeapType, Tiled(h), Sized(h), NEW b \in Blocks(h), NEW n \in Nat \ {0},
         h.block[b].size > n + HeaderSize + WorthSplitting
  PROVE  RestOf(b, n) \in Address \ Blocks(h)
<1>1. /\ b \in Nat /\ EndOf(h, b) = b + 2 + h.block[b].size /\ h.block[b].size \in Nat
      /\ h.heap_end \in Nat /\ EndOf(h, b) <= h.heap_end
  BY TileFacts, HeapFacts DEF Tiled
<1>2. RestOf(b, n) = b + 2 + n /\ h.block[b].size > n + 4
  BY DEF RestOf, HeaderSize, WorthSplitting
<1>3. RestOf(b, n) > b /\ RestOf(b, n) < EndOf(h, b)
  BY <1>1, <1>2
<1>4. RestOf(b, n) \in Address
  BY <1>1, <1>2, <1>3, ConstantFacts DEF Sized, Address
<1>5. RestOf(b, n) \notin Blocks(h)
  BY <1>1, <1>2, <1>3 DEF Tiled
<1> QED BY <1>4, <1>5

LEMMA SplitTiles ==
  ASSUME NEW h \in HeapType, Tiled(h), Sized(h), NEW b \in Blocks(h), NEW n \in Nat \ {0},
         h.block[b].size > n + HeaderSize + WorthSplitting,
         NEW g, g = SplitBlock(h, b, n)
  PROVE  Tiled(g)
<1> DEFINE rest == RestOf(b, n)
<1>1. /\ g \in HeapType /\ Blocks(g) = Blocks(h) \cup {rest} /\ g.heap_end = h.heap_end
      /\ g.block[rest].size = h.block[b].size - n - HeaderSize
      /\ g.block[b].size = n
      /\ \A a \in Blocks(h) \ {b} : g.block[a] = h.block[a]
  BY TilesSplit, SplitBlockEffect
<1>2. /\ \A a \in Blocks(h) : /\ a \in Nat /\ EndOf(h, a) \in Nat /\ a < EndOf(h, a)
                              /\ EndOf(h, a) <= h.heap_end /\ EndOf(h, a) \in Blocks(h) \cup {h.heap_end}
      /\ EndOf(h, b) = b + 2 + h.block[b].size /\ h.block[b].size \in Nat
      /\ h.heap_end \in Nat /\ IsFiniteSet(Blocks(h))
      /\ \A a, c \in Blocks(h) : a <= c \/ a >= EndOf(h, c)
  BY TileFacts, HeapFacts DEF Tiled
<1>3. rest = b + 2 + n /\ h.block[b].size > n + 4
  BY DEF RestOf, HeaderSize, WorthSplitting
<1> HIDE DEF rest
<1>4. rest \in Nat /\ EndOf(g, b) = rest /\ rest < EndOf(h, b) /\ b < rest
  BY <1>1, <1>2, <1>3 DEF EndOf, HeaderSize
<1>5. EndOf(g, rest) = EndOf(h, b)
  BY <1>1, <1>2, <1>3 DEF EndOf, HeaderSize
<1>6. \A a \in Blocks(h) \ {b} : EndOf(g, a) = EndOf(h, a)
  BY <1>1 DEF EndOf
<1>7. IsFiniteSet(Blocks(g)) /\ 0 \in Blocks(g)
  BY <1>1, <1>2, FS_AddElement DEF Tiled
<1>8. \A a \in Blocks(g) : EndOf(g, a) \in Blocks(g) \cup {g.heap_end} /\ EndOf(g, a) <= g.heap_end
  BY <1>1, <1>2, <1>4, <1>5, <1>6
<1>9. ASSUME NEW a \in Blocks(g), NEW c \in Blocks(g) PROVE a <= c \/ a >= EndOf(g, c)
  <2>1. CASE a # rest /\ c # rest
    BY <1>1, <1>2, <1>4, <1>6, <2>1
  <2>2. CASE a # rest /\ c = rest
    BY <1>1, <1>2, <1>4, <1>5, <2>2
  <2>3. CASE a = rest /\ c # rest
    <3>1. CASE c = b
      BY <1>4, <2>3, <3>1
    <3>2. CASE c # b
      <4>1. b <= c \/ b >= EndOf(h, c)
        BY <1>1, <1>2, <2>3
      <4>2. c <= b \/ c >= EndOf(h, b)
        BY <1>1, <1>2, <2>3
      <4>3. /\ EndOf(g, c) = EndOf(h, c) /\ EndOf(h, c) \in Nat /\ EndOf(h, b) \in Nat
            /\ b \in Nat /\ c \in Nat /\ c # b
        BY <1>1, <1>2, <1>6, <2>3, <3>2
      <4> QED BY <1>4, <2>3, <4>1, <4>2, <4>3
    <3> QED BY <3>1, <3>2
  <2>4. CASE a = rest /\ c = rest
    BY <1>4, <2>4
  <2> QED BY <2>1, <2>2, <2>3, <2>4
<1> QED BY <1>7, <1>8, <1>9 DEF Tiled

LEMMA MergeTiles ==
  ASSUME NEW h \in HeapType, Tiled(h), NEW b \in Blocks(h), NEW n \in Blocks(h), n = EndOf(h, b),
         NEW g \in HeapType, Blocks(g) = Blocks(h) \ {n}, g.heap_end = h.heap_end,
         g.block[b].size = h.block[b].size + HeaderSize + h.block[n].size,
         \A a \in Blocks(h) \ {b, n} : g.block[a].size = h.block[a].size
  PROVE  Tiled(g)
<1>1. /\ \A a \in Blocks(h) : /\ a \in Nat /\ EndOf(h, a) \in Nat /\ a < EndOf(h, a)
                              /\ EndOf(h, a) <= h.heap_end /\ EndOf(h, a) \in Blocks(h) \cup {h.heap_end}
                              /\ EndOf(h, a) = a + 2 + h.block[a].size /\ h.block[a].size \in Nat
      /\ h.heap_end \in Nat /\ IsFiniteSet(Blocks(h))
      /\ \A a, c \in Blocks(h) : a <= c \/ a >= EndOf(h, c)
  BY TileFacts, HeapFacts DEF Tiled
<1>2. EndOf(g, b) = EndOf(h, n)
  BY <1>1 DEF EndOf, HeaderSize
<1>3. \A a \in Blocks(h) \ {b, n} : EndOf(g, a) = EndOf(h, a)
  BY DEF EndOf
<1>4. b < n /\ n < EndOf(h, n) /\ n < h.heap_end
  BY <1>1
<1>5. \A a \in Blocks(h) \ {b} : EndOf(h, a) # n
  BY <1>1, <1>4
<1>6. IsFiniteSet(Blocks(g)) /\ 0 \in Blocks(g)
  BY <1>1, <1>4, FS_Subset DEF Tiled
<1>7. \A a \in Blocks(g) : EndOf(g, a) \in Blocks(g) \cup {g.heap_end} /\ EndOf(g, a) <= g.heap_end
  BY <1>1, <1>2, <1>3, <1>4, <1>5
<1>8. \A a, c \in Blocks(g) : a <= c \/ a >= EndOf(g, c)
  BY <1>1, <1>2, <1>3, <1>4
<1> QED BY <1>6, <1>7, <1>8 DEF Tiled

-----------------------------------------------------------------------------
(* A set of natural numbers that is not empty has a least element, and one *)
(* that has 0 and every successor has all of them.                         *)
LEMMA LeastNumber ==
  ASSUME NEW S, S \subseteq Nat, S # {}
  PROVE  \E i \in S : \A j \in S : i <= j
<1>1. PICK i \in S : \A j \in S : ~(<<j, i>> \in OpToRel(<, Nat))
  BY NatLessThanWellFounded, WFMin
<1>2. \A j \in S : i <= j
  <2> SUFFICES ASSUME NEW j \in S, j < i PROVE FALSE
    OBVIOUS
  <2>1. <<j, i>> \in Nat \X Nat
    OBVIOUS
  <2>2. <<j, i>> \in OpToRel(<, Nat)
    BY <2>1 DEF OpToRel
  <2> QED BY <1>1, <2>2
<1> QED BY <1>2

LEMMA AllNumbers ==
  ASSUME NEW S, 0 \in S, \A k \in Nat : k \in S => k + 1 \in S
  PROVE  \A k \in Nat : k \in S
<1> DEFINE T == Nat \ S
<1> SUFFICES ASSUME T # {} PROVE FALSE
  OBVIOUS
<1>1. PICK i \in T : \A j \in T : i <= j
  BY LeastNumber
<1>2. i \in Nat /\ i # 0 /\ i - 1 \in Nat
  BY <1>1
<1>3. i - 1 \in S
  BY <1>1, <1>2
<1> QED BY <1>1, <1>2, <1>3

(* A recursive function that steps along a set with f exists, and is the   *)
(* one that the recursive definition chooses.                              *)
Steps(S, f, x, n, w) == w \in [0 .. n -> S] /\ w[0] = x /\ \A k \in 1 .. n : w[k] = f[w[k - 1]]

LEMMA StepsExist ==
  ASSUME NEW S, NEW f \in [S -> S], NEW x \in S, NEW n \in Nat
  PROVE  \E w : Steps(S, f, x, n, w)
<1> DEFINE T == { m \in Nat : \E w : Steps(S, f, x, m, w) }
<1>1. 0 \in T
  <2>1. Steps(S, f, x, 0, [k \in 0 .. 0 |-> x])
    BY DEF Steps
  <2> QED BY <2>1
<1>2. ASSUME NEW m \in Nat, m \in T PROVE m + 1 \in T
  <2>1. PICK w : Steps(S, f, x, m, w)
    BY <1>2
  <2>2. w \in [0 .. m -> S] /\ w[m] \in S /\ f[w[m]] \in S
    BY <2>1 DEF Steps
  <2> DEFINE v == [k \in 0 .. m + 1 |-> IF k = m + 1 THEN f[w[m]] ELSE w[k]]
  <2>3. v \in [0 .. m + 1 -> S]
    BY <2>2
  <2>4. v[0] = x
    BY <2>1 DEF Steps
  <2>5. ASSUME NEW k \in 1 .. m + 1 PROVE v[k] = f[v[k - 1]]
    <3>1. CASE k = m + 1
      BY <3>1
    <3>2. CASE k # m + 1
      BY <2>1, <3>2 DEF Steps
    <3> QED BY <3>1, <3>2
  <2>6. Steps(S, f, x, m + 1, v)
    BY <2>3, <2>4, <2>5 DEF Steps
  <2> QED BY <2>6
<1>3. n \in T
  <2> HIDE DEF T
  <2> QED BY <1>1, <1>2, AllNumbers
<1> QED BY <1>3

-----------------------------------------------------------------------------
(* Walking along the list stays on the chain ...                           *)
NextOf(h, L) == [x \in L \cup {NULL} |-> IF x = NULL THEN NULL ELSE h.block[x].next]

LEMMA WalkSteps ==
  ASSUME NEW h \in HeapType, NEW L, NEW r, NEW top, Chain(h, L, r, top), IsFiniteSet(Blocks(h))
  PROVE  /\ Cardinality(Blocks(h)) \in Nat
         /\ Steps(L \cup {NULL}, NextOf(h, L), h.free_list_head, Cardinality(Blocks(h)), Walk(h))
<1> DEFINE n == Cardinality(Blocks(h))
           S == L \cup {NULL}
           f == NextOf(h, L)
           rule(w) == [k \in 0 .. n |-> IF k = 0 THEN h.free_list_head
                                        ELSE IF w[k - 1] = NULL THEN NULL ELSE h.block[w[k - 1]].next]
<1>1. n \in Nat
  BY FS_CardinalityType
<1>2. f \in [S -> S] /\ h.free_list_head \in S
  BY ConstantFacts DEF Chain, OnChain, NextOf
<1>3. \A x \in S : f[x] = IF x = NULL THEN NULL ELSE h.block[x].next
  BY DEF NextOf
<1>4. Walk(h) = CHOOSE w : w = rule(w)
  BY DEF Walk
<1> HIDE DEF n, S, f
<1>5. PICK v : Steps(S, f, h.free_list_head, n, v)
  BY <1>1, <1>2, StepsExist
<1>6. v = rule(v)
  <2>1. \A k \in 0 .. n : v[k] \in S /\ v[k] = rule(v)[k]
    BY <1>1, <1>3, <1>5 DEF Steps
  <2> QED BY <1>5, <2>1 DEF Steps
<1> DEFINE w == Walk(h)
<1>7. w = rule(w)
  <2> HIDE DEF rule
  <2> QED BY <1>4, <1>6
<1> HIDE DEF w
<1>8. /\ w[0] = h.free_list_head
      /\ \A k \in 1 .. n : w[k] = IF w[k - 1] = NULL THEN NULL ELSE h.block[w[k - 1]].next
  <2>1. \A k \in 0 .. n : rule(w)[k] = IF k = 0 THEN h.free_list_head
                                       ELSE IF w[k - 1] = NULL THEN NULL ELSE h.block[w[k - 1]].next
    OBVIOUS
  <2> HIDE DEF rule
  <2>2. \A k \in 0 .. n : w[k] = IF k = 0 THEN h.free_list_head
                                 ELSE IF w[k - 1] = NULL THEN NULL ELSE h.block[w[k - 1]].next
    BY <1>7, <2>1
  <2> QED BY <1>1, <2>2
<1>9. \A k \in 0 .. n : w[k] \in S
  <2> DEFINE T == { k \in Nat : k <= n => w[k] \in S }
  <2>1. 0 \in T
    BY <1>2, <1>8
  <2>2. ASSUME NEW k \in Nat, k \in T PROVE k + 1 \in T
    <3>1. CASE k + 1 <= n
      <4>1. k + 1 \in 1 .. n /\ w[k] \in S /\ (k + 1) - 1 = k
        BY <1>1, <2>2, <3>1
      <4>2. w[k + 1] = f[w[k]]
        BY <1>3, <1>8, <4>1
      <4> QED BY <1>2, <4>1, <4>2
    <3>2. CASE ~(k + 1 <= n)
      BY <3>2
    <3> QED BY <3>1, <3>2
  <2> HIDE DEF T
  <2>3. \A k \in Nat : k \in T
    BY <2>1, <2>2, AllNumbers
  <2> QED BY <1>1, <2>3 DEF T
<1>10. w \in [0 .. n -> S]
  BY <1>7, <1>9
<1>11. \A k \in 1 .. n : w[k] = f[w[k - 1]]
  BY <1>1, <1>3, <1>8, <1>9
<1> QED BY <1>1, <1>8, <1>10, <1>11 DEF Steps, n, S, f, w

(* ... and comes to its end, because ranks decrease and no block comes     *)
(* twice.                                                                  *)
LEMMA WalkEnds ==
  ASSUME NEW h \in HeapType, NEW L, NEW r, NEW top, Chain(h, L, r, top), IsFiniteSet(Blocks(h))
  PROVE  Walk(h)[Cardinality(Blocks(h))] = NULL
<1> DEFINE n == Cardinality(Blocks(h))
           w == Walk(h)
<1>1. n \in Nat /\ w \in [0 .. n -> L \cup {NULL}] /\ \A k \in 1 .. n : w[k] = NextOf(h, L)[w[k - 1]]
  BY WalkSteps DEF Steps
<1>2. /\ \A b \in L : /\ r[b] \in Nat /\ b # NULL /\ b \in Blocks(h)
                      /\ h.block[b].next # NULL => h.block[b].next \in L /\ r[h.block[b].next] < r[b]
  BY HeapFacts, ConstantFacts DEF Chain, OnChain
<1>3. ASSUME NEW k \in 1 .. n, w[k] # NULL
      PROVE  w[k - 1] \in L /\ w[k] \in L /\ r[w[k]] < r[w[k - 1]]
  <2>1. k - 1 \in 0 .. n /\ k \in 0 .. n
    BY <1>1
  <2>2. w[k - 1] \in L \cup {NULL} /\ w[k] = NextOf(h, L)[w[k - 1]]
    BY <1>1, <2>1
  <2>3. w[k] = IF w[k - 1] = NULL THEN NULL ELSE h.block[w[k - 1]].next
    BY <2>2 DEF NextOf
  <2> HIDE DEF w
  <2>4. w[k - 1] \in L
    BY <1>3, <2>2, <2>3
  <2> QED BY <1>2, <1>3, <2>3, <2>4
<1> HIDE DEF w, n
<1> DEFINE T == { k \in Nat : k <= n /\ w[k] # NULL =>
                    \A j \in 0 .. k - 1 : w[j] \in L /\ r[w[k]] < r[w[j]] }
<1>4. 0 \in T
  OBVIOUS
<1>5. ASSUME NEW k \in Nat, k \in T PROVE k + 1 \in T
  <2> SUFFICES ASSUME k + 1 <= n, w[k + 1] # NULL, NEW j \in 0 .. (k + 1) - 1
               PROVE  w[j] \in L /\ r[w[k + 1]] < r[w[j]]
    OBVIOUS
  <2>1. k + 1 \in 1 .. n /\ (k + 1) - 1 = k
    BY <1>1
  <2>2. w[k] \in L /\ w[k + 1] \in L /\ r[w[k + 1]] < r[w[k]] /\ w[k] # NULL
    BY <1>2, <1>3, <2>1
  <2>3. CASE j = k
    BY <2>2, <2>3
  <2>4. CASE j # k
    <3>1. j \in 0 .. k - 1 /\ k <= n
      BY <1>1, <2>1, <2>4
    <3>2. w[j] \in L /\ r[w[k]] < r[w[j]]
      BY <1>5, <2>2, <3>1
    <3> QED BY <1>2, <2>2, <3>2
  <2> QED BY <2>3, <2>4
<1>6. \A k \in Nat : k \in T
  <2> HIDE DEF T
  <2> QED BY <1>4, <1>5, AllNumbers
<1>7. SUFFICES ASSUME w[n] # NULL PROVE FALSE
  BY DEF w, n
<1>8. \A j \in 0 .. n : w[j] \in L
  <2>1. n \in T
    BY <1>1, <1>6
  <2> QED BY <1>1, <1>7, <2>1
<1>9. \A j, k \in 0 .. n : j < k => w[j] # w[k]
  <2> SUFFICES ASSUME NEW j \in 0 .. n, NEW k \in 0 .. n, j < k PROVE w[j] # w[k]
    OBVIOUS
  <2>1. k \in Nat /\ k <= n /\ j \in 0 .. k - 1 /\ w[k] # NULL /\ k \in T
    BY <1>1, <1>2, <1>6, <1>8
  <2>2. r[w[k]] < r[w[j]] /\ r[w[k]] \in Nat
    BY <1>2, <1>8, <2>1
  <2> QED BY <2>2
<1>10. w \in Injection(0 .. n, Blocks(h))
  <2>1. w \in [0 .. n -> Blocks(h)]
    BY <1>1, <1>2, <1>8
  <2>2. \A j, k \in 0 .. n : w[j] = w[k] => j = k
    BY <1>1, <1>9
  <2> QED BY <2>1, <2>2 DEF Injection, IsInjective
<1>11. Cardinality(0 .. n) <= Cardinality(Blocks(h))
  BY <1>10, FS_Injection
<1>12. Cardinality(0 .. n) = n + 1
  <2>1. 0 \in Int /\ n \in Int
    BY <1>1
  <2>2. Cardinality(0 .. n) = IF 0 > n THEN 0 ELSE n - 0 + 1
    BY <2>1, FS_Interval
  <2> QED BY <1>1, <2>2
<1> QED BY <1>1, <1>11, <1>12 DEF n

(* find_free_block returns a block on the list, and the first one if that  *)
(* is large enough.                                                        *)
LEMMA Finds ==
  ASSUME NEW h \in HeapType, NEW L, NEW r, NEW top, Chain(h, L, r, top), IsFiniteSet(Blocks(h)), NEW n
  PROVE  /\ FindFreeBlock(h, n) # NULL =>
              FindFreeBlock(h, n) \in L /\ LargeEnough(h, FindFreeBlock(h, n), n)
         /\ h.free_list_head # NULL /\ LargeEnough(h, h.free_list_head, n) => FindFreeBlock(h, n) # NULL
<1> DEFINE w == Walk(h)
           fits == { k \in DOMAIN w : w[k] # NULL /\ LargeEnough(h, w[k], n) }
           c == CHOOSE k \in fits : \A j \in fits : k <= j
<1>1. /\ Cardinality(Blocks(h)) \in Nat
      /\ w \in [0 .. Cardinality(Blocks(h)) -> L \cup {NULL}] /\ w[0] = h.free_list_head
  BY WalkSteps DEF Steps
<1>2. FindFreeBlock(h, n) = IF fits = {} THEN NULL ELSE w[c]
  BY DEF FindFreeBlock
<1> HIDE DEF w
<1>3. fits \subseteq Nat
  BY <1>1
<1>4. fits # {} => c \in fits
  <2> HIDE DEF fits
  <2>1. fits # {} => \E k \in fits : \A j \in fits : k <= j
    BY <1>3, LeastNumber
  <2> QED BY <2>1
<1> HIDE DEF c
<1>5. fits # {} => w[c] # NULL /\ LargeEnough(h, w[c], n) /\ w[c] \in L
  BY <1>1, <1>4
<1>6. h.free_list_head # NULL /\ LargeEnough(h, h.free_list_head, n) => 0 \in fits
  BY <1>1
<1> HIDE DEF fits
<1> QED BY <1>2, <1>5, <1>6

-----------------------------------------------------------------------------
\* A heap that is as it should be, and that the client of every used block
\* finds as it was.
Sound(h) == h \in HeapType /\ Tiled(h) /\ Sized(h) /\ \E L, r, top : Chain(h, L, r, top)
Kept(h, g) == \A a \in Used(h) \cap Used(g) : g.block[a].size = h.block[a].size

(* heap_coalesce_free_blocks: every turn of its loop keeps the heap sound, *)
(* stands on the list, and leaves the used blocks alone.                   *)
Turns(h) ==
  { s \in [h : HeapType, at : Address \cup {NULL}] :
      /\ Tiled(s.h) /\ s.h.heap_end = h.heap_end /\ Used(s.h) = Used(h) /\ Kept(h, s.h)
      /\ \E L, r, top : Chain(s.h, L, r, top) /\ s.at \in L \cup {NULL} }

LEMMA TurnStays ==
  ASSUME NEW h \in HeapType, NEW s \in Turns(h)
  PROVE  CoalesceTurn(s) \in Turns(h)
<1>1. /\ s \in [h : HeapType, at : Address \cup {NULL}] /\ s.h \in HeapType
      /\ Tiled(s.h) /\ s.h.heap_end = h.heap_end /\ Used(s.h) = Used(h) /\ Kept(h, s.h)
  BY DEF Turns
<1>2. PICK L, r, top : Chain(s.h, L, r, top) /\ s.at \in L \cup {NULL}
  BY DEF Turns
<1> DEFINE n == s.h.block[s.at].next
<1>3. CASE s.at = NULL \/ n = NULL
  BY <1>3 DEF CoalesceTurn
<1>4. CASE s.at # NULL /\ n # NULL
  <2>1. s.at \in L /\ n \in L /\ n # s.at
    BY <1>1, <1>2, <1>4, ChainFacts
  <2>2. n \in Blocks(s.h) /\ s.at \in Blocks(s.h) /\ n \notin Used(s.h) /\ s.at \notin Used(s.h)
    BY <1>2, <2>1 DEF Chain
  <2>3. CASE EndOf(s.h, s.at) = n /\ s.h.block[n].is_free
    <3> DEFINE g == Merge(s.h, s.at)
               M == L \ {n}
               q == [a \in M |-> r[a]]
    <3>1. CoalesceTurn(s) = [h |-> g, at |-> s.at]
      BY <1>1, <1>4, <2>3 DEF CoalesceTurn
    <3> HIDE DEF n
    <3>2. n = s.h.block[s.at].next
      BY DEF n
    <3> HIDE DEF g
    <3>3. g = Merge(s.h, s.at)
      BY DEF g
    <3>4. /\ g \in HeapType /\ Blocks(g) = Blocks(s.h) \ {n} /\ g.heap_end = s.h.heap_end
          /\ g.block[s.at].size = s.h.block[s.at].size + HeaderSize + s.h.block[n].size
          /\ \A a \in Blocks(s.h) \ {s.at, n} : g.block[a].size = s.h.block[a].size
          /\ Used(g) = Used(s.h)
          /\ Chain(g, M, q, top)
      BY <1>1, <1>2, <1>4, <2>1, <3>2, <3>3, ChainMerges
    <3>5. Tiled(g)
      BY <1>1, <2>2, <2>3, <3>4, MergeTiles
    <3>6. Kept(h, g)
      <4>1. \A a \in Used(s.h) : a \in Blocks(s.h) /\ a # n /\ a # s.at
        BY <2>2 DEF Used
      <4> QED BY <1>1, <3>4, <4>1 DEF Kept
    <3>7. s.at \in M
      BY <2>1
    <3>8. s.at \in Address \cup {NULL}
      BY <1>1
    <3> HIDE DEF M, q
    <3>9. \E K, p, t : Chain(g, K, p, t) /\ s.at \in K \cup {NULL}
      BY <3>4, <3>7
    <3> QED BY <1>1, <3>1, <3>4, <3>5, <3>6, <3>8, <3>9 DEF Turns
  <2>4. CASE ~(EndOf(s.h, s.at) = n /\ s.h.block[n].is_free)
    <3>1. CoalesceTurn(s) = [h |-> s.h, at |-> n]
      BY <1>1, <1>4, <2>4 DEF CoalesceTurn
    <3>2. n \in Address
      BY <1>1, <2>2, HeapFacts
    <3> HIDE DEF n
    <3>3. \E K, p, t : Chain(s.h, K, p, t) /\ n \in K \cup {NULL}
      BY <1>2, <2>1
    <3> QED BY <1>1, <3>1, <3>2, <3>3 DEF Turns
  <2> QED BY <2>3, <2>4
<1> QED BY <1>3, <1>4

LEMMA CoalesceSound ==
  ASSUME NEW h, Sound(h), NEW g, g = Coalesce(h)
  PROVE  Sound(g) /\ g.heap_end = h.heap_end /\ Used(g) = Used(h) /\ Kept(h, g)
<1> DEFINE n == Cardinality(Blocks(h))
           S == Turns(h)
           x == [h |-> h, at |-> h.free_list_head]
           f == [s \in S |-> CoalesceTurn(s)]
           rule(t) == [k \in 0 .. n |-> IF k = 0 THEN x ELSE CoalesceTurn(t[k - 1])]
           t == CHOOSE t : t = rule(t)
<1>1. n \in Nat /\ h \in HeapType
  BY FS_CardinalityType DEF Sound, Tiled
<1>2. x \in S
  <2>1. PICK L, r, top : Chain(h, L, r, top)
    BY DEF Sound
  <2>2. h.free_list_head \in L \cup {NULL} /\ h.free_list_head \in Address \cup {NULL}
    BY <1>1, <2>1, HeapFacts DEF Chain
  <2>3. \E K, p, i : Chain(h, K, p, i) /\ h.free_list_head \in K \cup {NULL}
    BY <2>1, <2>2
  <2> QED BY <1>1, <2>2, <2>3 DEF Turns, Sound, Kept
<1>3. f \in [S -> S] /\ \A s \in S : f[s] = CoalesceTurn(s)
  BY <1>1, TurnStays
<1>4. g = t[n].h
  BY DEF Coalesce
<1> HIDE DEF n, S, x, f
<1>5. PICK v : Steps(S, f, x, n, v)
  BY <1>1, <1>2, <1>3, StepsExist
<1>6. v = rule(v)
  <2>1. \A k \in 0 .. n : v[k] = rule(v)[k]
    BY <1>1, <1>3, <1>5 DEF Steps
  <2> QED BY <1>5, <2>1 DEF Steps
<1>7. t = rule(t)
  BY <1>6
<1> HIDE DEF t
<1>8. t[0] = x /\ \A k \in 1 .. n : t[k] = CoalesceTurn(t[k - 1])
  <2>1. \A k \in 0 .. n : rule(t)[k] = IF k = 0 THEN x ELSE CoalesceTurn(t[k - 1])
    OBVIOUS
  <2> HIDE DEF rule
  <2>2. \A k \in 0 .. n : t[k] = IF k = 0 THEN x ELSE CoalesceTurn(t[k - 1])
    BY <1>7, <2>1
  <2> QED BY <1>1, <2>2
<1>9. t[n] \in S
  <2> DEFINE T == { k \in Nat : k <= n => t[k] \in S }
  <2>1. 0 \in T
    BY <1>2, <1>8
  <2>2. ASSUME NEW k \in Nat, k \in T PROVE k + 1 \in T
    <3>1. CASE k + 1 <= n
      <4>1. k + 1 \in 1 .. n /\ t[k] \in S /\ (k + 1) - 1 = k
        BY <1>1, <2>2, <3>1
      <4>2. t[k + 1] = CoalesceTurn(t[k])
        BY <1>8, <4>1
      <4> QED BY <1>3, <4>1, <4>2
    <3>2. CASE ~(k + 1 <= n)
      BY <3>2
    <3> QED BY <3>1, <3>2
  <2> HIDE DEF T
  <2>3. \A k \in Nat : k \in T
    BY <2>1, <2>2, AllNumbers
  <2> QED BY <1>1, <2>3 DEF T
<1>10. /\ g \in HeapType /\ Tiled(g) /\ g.heap_end = h.heap_end /\ Used(g) = Used(h) /\ Kept(h, g)
       /\ \E L, r, top : Chain(g, L, r, top)
  BY <1>4, <1>9 DEF S, Turns
<1> QED BY <1>10 DEF Sound, Sized

(* kfree.                                                                  *)
LEMMA ReleaseSound ==
  ASSUME NEW h, Sound(h), NEW b \in Used(h), NEW g, g = Release(h, b)
  PROVE  Sound(g) /\ Used(g) = Used(h) \ {b} /\ Kept(h, g)
<1> DEFINE k == AddToFreeList(h, b)
<1>1. PICK L, r, top : Chain(h, L, r, top)
  BY DEF Sound
<1>2. h \in HeapType /\ b \in Blocks(h) \ L
  BY <1>1 DEF Sound, Chain, Used
<1>3. /\ SameTiles(h, k) /\ Used(k) = Used(h) \ {b}
      /\ Chain(k, L \cup {b}, [a \in L \cup {b} |-> IF a = b THEN top ELSE r[a]], top + 1)
  BY <1>1, <1>2, ChainGrows
<1> HIDE DEF k
<1>4. Sound(k)
  <2>1. Tiled(k)
    BY <1>2, <1>3, TilesKept DEF Sound
  <2>2. \E K, p, t : Chain(k, K, p, t)
    BY <1>3
  <2> QED BY <1>3, <2>1, <2>2 DEF Sound, Sized, SameTiles
<1>5. \A a \in Used(h) : k.block[a].size = h.block[a].size
  BY <1>3 DEF SameTiles, Used
<1>6. Sound(g) /\ Used(g) = Used(k) /\ Kept(k, g)
  BY <1>4, CoalesceSound DEF Release, k
<1> QED BY <1>3, <1>5, <1>6 DEF Kept

(* kmalloc, on the block that was found.                                   *)
LEMMA TakeSound ==
  ASSUME NEW h, Sound(h), NEW n \in Nat \ {0}, NEW b, b = FindFreeBlock(h, n), b # NULL,
         NEW g, g = Take(h, b, n)
  PROVE  /\ Sound(g) /\ Used(g) = Used(h) \cup {b} /\ Kept(h, g)
         /\ b \notin Used(h) /\ g.block[b].size >= n
<1> DEFINE k == RemoveFromFreeList(h, b)
<1>1. PICK L, r, top : Chain(h, L, r, top)
  BY DEF Sound
<1>2. h \in HeapType /\ IsFiniteSet(Blocks(h)) /\ Tiled(h) /\ Sized(h)
  BY DEF Sound, Tiled
<1>3. b \in L /\ b \in Blocks(h) /\ b \notin Used(h) /\ h.block[b].size >= n
  BY <1>1, <1>2, Finds DEF LargeEnough, Chain
<1>4. /\ SameTiles(h, k) /\ Used(k) = Used(h) \cup {b}
      /\ Chain(k, L \ {b}, [a \in L \ {b} |-> r[a]], top)
  BY <1>1, <1>2, <1>3, ChainShrinks
<1> DEFINE M == L \ {b}
           q == [a \in M |-> r[a]]
<1>5. g = SplitBlock(k, b, n)
  BY DEF Take
<1> HIDE DEF k
<1>6. /\ k \in HeapType /\ Tiled(k) /\ Sized(k) /\ Chain(k, M, q, top)
      /\ b \in Blocks(k) /\ k.block[b].size = h.block[b].size
      /\ \A a \in Used(h) : k.block[a].size = h.block[a].size /\ a \in Blocks(k) /\ a # b
  BY <1>2, <1>3, <1>4, TilesKept DEF SameTiles, Sized, Used
<1>7. k.block[b].size \in Nat
  BY <1>6, HeapFacts
<1> HIDE DEF M, q
<1>8. CASE k.block[b].size <= n + HeaderSize + WorthSplitting
  <2>1. g = k
    BY <1>5, <1>8 DEF SplitBlock
  <2> QED BY <1>3, <1>4, <1>6, <2>1 DEF Sound, Kept
<1>9. CASE k.block[b].size > n + HeaderSize + WorthSplitting
  <2>1. RestOf(b, n) \in Address \ Blocks(k)
    BY <1>6, <1>9, TilesSplit
  <2>2. /\ g \in HeapType /\ Blocks(g) = Blocks(k) \cup {RestOf(b, n)}
        /\ g.heap_end = k.heap_end /\ g.free_list_head = k.free_list_head
        /\ g.block[b].size = n
        /\ Used(g) = Used(k)
        /\ \A a \in Blocks(k) \ {b} : g.block[a] = k.block[a]
    BY <1>5, <1>6, <1>9, <2>1, SplitBlockEffect
  <2>3. Tiled(g)
    BY <1>5, <1>6, <1>9, SplitTiles
  <2>4. M \subseteq Blocks(k) \ Used(k) /\ b \notin M
    BY <1>6, <1>4 DEF Chain
  <2>5. Chain(g, M, q, top)
    BY <1>6, <2>2, <2>4, ChainKept
  <2>6. Sound(g)
    BY <1>6, <2>2, <2>3, <2>5 DEF Sound, Sized
  <2>7. Kept(h, g)
    BY <1>6, <2>2 DEF Kept
  <2> QED BY <1>3, <1>4, <2>2, <2>6, <2>7
<1>10. HeaderSize \in Nat /\ WorthSplitting \in Nat
  BY DEF HeaderSize, WorthSplitting
<1> QED BY <1>7, <1>8, <1>9, <1>10

(* heap_expand rounds up to whole pages, after it has tested its limit.    *)
LEMMA WholePages ==
  ASSUME NEW e \in Nat, e % PageSize = 0, NEW n \in Nat \ {0}, e + n <= MaxSize,
         NEW size, size = ((n + HeaderSize + PageSize - 1) \div PageSize) * PageSize
  PROVE  /\ size \in Nat /\ size >= n + HeaderSize
         /\ e + size <= MaxSize + PageSize /\ (e + size) % PageSize = 0
<1> DEFINE x == n + HeaderSize + PageSize - 1
           m == x \div PageSize
           i == e \div PageSize
           j == MaxSize \div PageSize
<1>0. PageSize \in Nat /\ PageSize > 2 /\ MaxSize \in Nat /\ MaxSize % PageSize = 0
  BY ConstantFacts, HeapAssumption
<1>1. \A y \in Nat : /\ y = PageSize * (y \div PageSize) + (y % PageSize)
                     /\ y \div PageSize \in Nat /\ y % PageSize \in 0 .. PageSize - 1
  BY <1>0
<1>2. x \in Nat /\ x = n + PageSize + 1
  BY <1>0 DEF HeaderSize
<1> HIDE DEF x
<1>3. m \in Nat /\ i \in Nat /\ j \in Nat
  BY <1>0, <1>1, <1>2
<1>4. /\ x < PageSize * m + PageSize /\ PageSize * m <= x
      /\ e = PageSize * i /\ MaxSize = PageSize * j
  <2>1. PageSize * m \in Nat
    BY <1>0, <1>3
  <2> QED BY <1>0, <1>1, <1>2, <2>1
<1>5. size = PageSize * m
  <2>1. size = m * PageSize
    BY DEF x
  <2> QED BY <1>0, <1>3, <2>1
<1> HIDE DEF m, i, j
<1>6. size \in Nat /\ size >= n + HeaderSize
  <2>1. PageSize * m \in Nat
    BY <1>0, <1>3
  <2> QED BY <1>0, <1>2, <1>4, <1>5, <2>1 DEF HeaderSize
<1>7. e + size = PageSize * (i + m)
  BY <1>0, <1>3, <1>4, <1>5
<1>8. i + m <= j + 1
  <2> SUFFICES ASSUME i + m >= j + 2 PROVE FALSE
    BY <1>3
  <2>1. PageSize * (i + m) >= PageSize * (j + 2)
    BY <1>0, <1>3
  <2>2. PageSize * (j + 2) = MaxSize + 2 * PageSize
    BY <1>0, <1>3, <1>4
  <2>3. e + size <= MaxSize + PageSize + 1
    BY <1>0, <1>2, <1>4, <1>5, <1>6
  <2> QED BY <1>0, <1>6, <1>7, <2>1, <2>2, <2>3
<1>9. e + size <= MaxSize + PageSize
  <2>1. PageSize * (i + m) <= PageSize * (j + 1)
    BY <1>0, <1>3, <1>8
  <2>2. PageSize * (j + 1) = MaxSize + PageSize
    BY <1>0, <1>3, <1>4
  <2> QED BY <1>7, <2>1, <2>2
<1>10. (PageSize * (i + m)) % PageSize = 0
  <2> DEFINE k == i + m
             y == PageSize * k
             d == y \div PageSize
             z == y % PageSize
  <2>1. k \in Nat /\ y \in Nat
    BY <1>0, <1>3
  <2>2. y = PageSize * d + z /\ d \in Nat /\ z \in 0 .. PageSize - 1
    BY <1>1, <2>1
  <2> HIDE DEF d, z, k
  <2>3. z = PageSize * (k - d) /\ k - d \in Int
    BY <1>0, <2>1, <2>2
  <2>4. k - d >= 1 => PageSize * (k - d) >= PageSize
    BY <1>0, <2>3
  <2>5. k - d <= -1 => PageSize * (k - d) <= 0 - PageSize
    BY <1>0, <2>3
  <2>6. k - d = 0
    BY <1>0, <2>2, <2>3, <2>4, <2>5
  <2>7. z = 0
    BY <1>0, <2>3, <2>6
  <2> QED BY <2>7 DEF z, k
<1> QED BY <1>6, <1>7, <1>9, <1>10

(* heap_expand.                                                            *)
LEMMA ExpandSound ==
  ASSUME NEW h, Sound(h), NEW n \in Nat \ {0}, MayExpand(h, n), NEW g, g = Expand(h, n)
  PROVE  Sound(g) /\ Used(g) = Used(h) /\ Kept(h, g) /\ FindFreeBlock(g, n) # NULL
<1> DEFINE e == h.heap_end
           size == ((n + HeaderSize + PageSize - 1) \div PageSize) * PageSize
<1>1. PICK L, r, top : Chain(h, L, r, top)
  BY DEF Sound
<1>2. h \in HeapType /\ Tiled(h) /\ e \in Nat /\ e % PageSize = 0 /\ e + n <= MaxSize
  BY HeapFacts DEF Sound, Sized, MayExpand
<1>3. /\ size \in Nat /\ size >= n + HeaderSize /\ size > HeaderSize
      /\ e + size <= MaxSize + PageSize /\ (e + size) % PageSize = 0
  <2>1. /\ size \in Nat /\ size >= n + HeaderSize
        /\ e + size <= MaxSize + PageSize /\ (e + size) % PageSize = 0
    <3> HIDE DEF e
    <3> QED BY <1>2, WholePages
  <2> HIDE DEF size
  <2> QED BY <2>1 DEF HeaderSize
<1>4. e \in Address \ Blocks(h)
  <2>1. e \in Address
    BY <1>2, ConstantFacts DEF Address
  <2>2. \A b \in Blocks(h) : b < e /\ b \in Nat
    BY <1>2, TileFacts
  <2> QED BY <1>2, <2>1, <2>2
<1>5. PICK k \in HeapType :
        /\ g = AddToFreeList(k, e)
        /\ Blocks(k) = Blocks(h) \cup {e}
        /\ k.heap_end = e + size /\ k.free_list_head = h.free_list_head
        /\ k.block[e].size = size - HeaderSize
        /\ Used(k) = Used(h)
        /\ \A a \in Blocks(h) : k.block[a] = h.block[a]
  <2>1. n \in Nat
    OBVIOUS
  <2> QED BY <1>2, <1>3, <1>4, <2>1, ExpandEffect
<1> HIDE DEF size
<1>6. Tiled(k)
  <2>1. /\ \A a \in Blocks(h) : /\ a \in Nat /\ EndOf(h, a) \in Nat /\ a < e
                                /\ EndOf(h, a) <= e /\ EndOf(h, a) \in Blocks(h) \cup {e}
        /\ \A a, c \in Blocks(h) : a <= c \/ a >= EndOf(h, c)
        /\ IsFiniteSet(Blocks(h)) /\ 0 \in Blocks(h)
    BY <1>2, TileFacts DEF Tiled
  <2>2. EndOf(k, e) = e + size /\ \A a \in Blocks(h) : EndOf(k, a) = EndOf(h, a)
    BY <1>2, <1>3, <1>5 DEF EndOf, HeaderSize
  <2>3. IsFiniteSet(Blocks(k)) /\ 0 \in Blocks(k)
    BY <1>5, <2>1, FS_AddElement
  <2>4. \A a \in Blocks(k) : EndOf(k, a) \in Blocks(k) \cup {k.heap_end} /\ EndOf(k, a) <= k.heap_end
    BY <1>2, <1>3, <1>5, <2>1, <2>2
  <2>5. \A a, c \in Blocks(k) : a <= c \/ a >= EndOf(k, c)
    BY <1>2, <1>3, <1>5, <2>1, <2>2
  <2> QED BY <2>3, <2>4, <2>5 DEF Tiled
<1>7. Chain(k, L, r, top)
  <2>1. L \subseteq Blocks(h) \ Used(h)
    BY <1>1 DEF Chain
  <2> QED BY <1>1, <1>2, <1>5, <2>1, ChainKept
<1> DEFINE M == L \cup {e}
           q == [a \in M |-> IF a = e THEN top ELSE r[a]]
           t == top + 1
<1>8. /\ SameTiles(k, g) /\ Used(g) = Used(k) \ {e} /\ g.free_list_head = e
      /\ Chain(g, M, q, t)
  <2>1. e \in Blocks(k) \ L
    BY <1>1, <1>4, <1>5 DEF Chain
  <2> HIDE DEF e
  <2> QED BY <1>5, <1>7, <2>1, ChainGrows
<1> HIDE DEF M, q, t
<1>9. Used(g) = Used(h)
  BY <1>4, <1>5, <1>8 DEF Used
<1>10. Sound(g)
  <2>1. Tiled(g)
    BY <1>6, <1>8, TilesKept
  <2> QED BY <1>3, <1>5, <1>8, <2>1 DEF Sound, Sized, SameTiles
<1>11. Kept(h, g)
  BY <1>5, <1>8 DEF Kept, SameTiles, Used
<1>12. FindFreeBlock(g, n) # NULL
  <2>1. g \in HeapType /\ IsFiniteSet(Blocks(g))
    BY <1>10 DEF Sound, Tiled
  <2>2. e \in Blocks(g) /\ e \notin Used(g) /\ g.block[e].size = size - HeaderSize /\ e # NULL
    BY <1>4, <1>5, <1>8, <1>9, ConstantFacts DEF SameTiles, Used
  <2>3. LargeEnough(g, g.free_list_head, n)
    BY <1>3, <1>8, <2>2 DEF LargeEnough, Used, HeaderSize
  <2> QED BY <1>8, <2>1, <2>2, <2>3, Finds
<1> QED BY <1>9, <1>10, <1>11, <1>12

-----------------------------------------------------------------------------
\* Each used block is held by a client, and is as large as it asked.
Held ==
  /\ Used(heap) = DOMAIN live
  /\ \A b \in DOMAIN live : live[b] \in Sizes /\ heap.block[b].size >= live[b]

IInv ==
  /\ heap_initialized \in BOOLEAN
  /\ heap_initialized => Sound(heap)
  /\ ~heap_initialized => heap = NoHeap
  /\ Held

LEMMA NoHeapFacts ==
  NoHeap \in HeapType /\ Blocks(NoHeap) = {} /\ Used(NoHeap) = {} /\ NoHeap.heap_end = 0
  /\ NoHeap.free_list_head = NULL /\ Chain(NoHeap, {}, [a \in {} |-> 0], 0)
<1>1. << >> \in [{} -> Header]
  OBVIOUS
<1>2. NoHeap \in HeapType
  BY <1>1 DEF NoHeap, HeapType, Headers
<1>3. Blocks(NoHeap) = {} /\ NoHeap.heap_end = 0 /\ NoHeap.free_list_head = NULL
  BY DEF NoHeap, Blocks
<1>4. Used(NoHeap) = {}
  BY <1>3 DEF Used
<1> QED BY <1>2, <1>3, <1>4 DEF Chain

LEMMA InitialHeapSound ==
  Sound(InitialHeap) /\ Used(InitialHeap) = {}
<1> DEFINE h == InitialHeap
           hd == [size |-> InitialSize - HeaderSize, is_free |-> TRUE, next |-> NULL, prev |-> NULL]
           t == [b \in {0} |-> hd]
           r == [b \in {0} |-> 0]
<1>1. /\ InitialSize \in Nat /\ InitialSize > 2 /\ PageSize \in Nat /\ MaxSize \in Nat
      /\ InitialSize <= MaxSize /\ InitialSize % PageSize = 0 /\ 0 \in Address /\ NULL # 0
  <2>1. InitialSize >= PageSize
    <3> SUFFICES ASSUME InitialSize < PageSize PROVE FALSE
      BY ConstantFacts
    <3>1. InitialSize % PageSize = InitialSize
      BY ConstantFacts
    <3> QED BY <3>1, ConstantFacts, HeapAssumption
  <2> QED BY <2>1, ConstantFacts, HeapAssumption DEF Address
<1>2. hd \in Header /\ hd.size = InitialSize - 2 /\ hd.is_free /\ hd.next = NULL /\ hd.prev = NULL
  BY <1>1 DEF Header, HeaderSize
<1>3. h = [free_list_head |-> 0, heap_end |-> InitialSize, block |-> t]
  BY DEF InitialHeap
<1> HIDE DEF hd, h
<1>4. t \in [{0} -> Header] /\ t[0] = hd
  BY <1>2
<1> HIDE DEF t
<1>5. h \in HeapType /\ Blocks(h) = {0}
  BY <1>1, <1>3, <1>4, HeapFrom
<1>6. h.free_list_head = 0 /\ h.heap_end = InitialSize /\ h.block[0] = hd
  BY <1>3, <1>4
<1>7. Used(h) = {}
  BY <1>2, <1>5, <1>6 DEF Used
<1>8. Tiled(h)
  <2>1. EndOf(h, 0) = InitialSize
    BY <1>1, <1>2, <1>6 DEF EndOf, HeaderSize
  <2>2. IsFiniteSet({0})
    BY FS_Singleton
  <2> QED BY <1>1, <1>5, <1>6, <2>1, <2>2 DEF Tiled
<1>9. Sized(h)
  BY <1>1, <1>6 DEF Sized
<1>10. Chain(h, {0}, r, 1)
  BY <1>1, <1>2, <1>5, <1>6, <1>7 DEF Chain, OnChain
<1>11. \E L, q, top : Chain(h, L, q, top)
  BY <1>10
<1> QED BY <1>5, <1>7, <1>8, <1>9, <1>11 DEF Sound, h

(* kmalloc: with a block that was found, in the heap as it is or expanded. *)
LEMMA AllocationSound ==
  ASSUME Sound(heap), NEW n \in Sizes, NEW h, ReadyFor(n, h),
         NEW b, b = FindFreeBlock(h, n), NEW g, g = Take(h, b, n)
  PROVE  /\ Sound(g) /\ Used(g) = Used(heap) \cup {b} /\ Kept(heap, g)
         /\ b \notin Used(heap) /\ g.block[b].size >= n
<1>1. n \in Nat \ {0}
  BY ConstantFacts
<1>2. Sound(h) /\ Used(h) = Used(heap) /\ Kept(heap, h) /\ b # NULL
  <2>1. CASE h = heap /\ FindFreeBlock(heap, n) # NULL
    BY <2>1 DEF Kept
  <2>2. CASE MayExpand(heap, n) /\ h = Expand(heap, n)
    BY <1>1, <2>2, ExpandSound
  <2> QED BY <2>1, <2>2 DEF ReadyFor
<1>3. /\ Sound(g) /\ Used(g) = Used(h) \cup {b} /\ Kept(h, g)
      /\ b \notin Used(h) /\ g.block[b].size >= n
  BY <1>1, <1>2, TakeSound
<1> QED BY <1>2, <1>3 DEF Kept

LEMMA InitInv == Init => IInv
<1> SUFFICES ASSUME Init PROVE IInv
  OBVIOUS
<1>1. DOMAIN live = {} /\ heap = NoHeap /\ heap_initialized = FALSE
  BY DEF Init
<1> QED BY <1>1, NoHeapFacts DEF IInv, Held

LEMMA NextInv == IInv /\ [Next]_vars => IInv' /\ Kept(heap, heap')
<1> SUFFICES ASSUME IInv, [Next]_vars PROVE IInv' /\ Kept(heap, heap')
  OBVIOUS
<1>0. ASSUME NEW b \in DOMAIN live PROVE Sound(heap) /\ heap_initialized /\ b \in Used(heap)
  BY <1>0, NoHeapFacts DEF IInv, Held
<1>1. CASE HeapInit
  <2>1. DOMAIN live' = {} /\ Used(heap) = {}
    BY <1>1 DEF HeapInit, IInv, Held
  <2>2. Sound(heap') /\ Used(heap') = {} /\ heap_initialized'
    BY <1>1, InitialHeapSound DEF HeapInit
  <2>3. Held'
    BY <2>1, <2>2 DEF Held
  <2>4. Kept(heap, heap')
    BY <2>1 DEF Kept
  <2> QED BY <1>1, <2>2, <2>3, <2>4 DEF HeapInit, IInv
<1>2. ASSUME NEW n \in Sizes, Kmalloc(n) PROVE IInv' /\ Kept(heap, heap')
  <2>1. PICK h : /\ ReadyFor(n, h)
                 /\ heap' = Take(h, FindFreeBlock(h, n), n)
                 /\ live' = Put(live, FindFreeBlock(h, n), n)
    BY <1>2 DEF Kmalloc
  <2> DEFINE b == FindFreeBlock(h, n)
  <2>2. Sound(heap) /\ heap_initialized /\ heap_initialized'
    BY <1>2 DEF Kmalloc, IInv
  <2>3. /\ Sound(heap') /\ Used(heap') = Used(heap) \cup {b} /\ Kept(heap, heap')
        /\ b \notin Used(heap) /\ heap'.block[b].size >= n
    BY <2>1, <2>2, AllocationSound
  <2> HIDE DEF b
  <2>4. /\ DOMAIN live' = DOMAIN live \cup {b} /\ live'[b] = n
        /\ \A a \in DOMAIN live : a # b => live'[a] = live[a]
    BY <2>1 DEF Put, b
  <2>5. Held'
    BY <2>3, <2>4 DEF IInv, Held, Kept
  <2> QED BY <2>2, <2>3, <2>5 DEF IInv
<1>3. ASSUME NEW b \in DOMAIN live, Kfree(b) PROVE IInv' /\ Kept(heap, heap')
  <2>1. Sound(heap) /\ heap_initialized /\ heap_initialized' /\ b \in Used(heap)
    BY <1>0, <1>3 DEF Kfree
  <2>2. heap' = Release(heap, b) /\ live' = Drop(live, b)
    BY <1>3 DEF Kfree
  <2>3. Sound(heap') /\ Used(heap') = Used(heap) \ {b} /\ Kept(heap, heap')
    BY <2>1, <2>2, ReleaseSound
  <2>4. DOMAIN live' = DOMAIN live \ {b} /\ \A a \in DOMAIN live' : live'[a] = live[a]
    BY <2>2 DEF Drop
  <2>5. Held'
    BY <2>3, <2>4 DEF IInv, Held, Kept
  <2> QED BY <2>1, <2>3, <2>5 DEF IInv
<1>4. ASSUME NEW b \in DOMAIN live, NEW n \in Sizes, Krealloc(b, n) PROVE IInv' /\ Kept(heap, heap')
  <2>1. Sound(heap) /\ heap_initialized /\ heap_initialized' /\ b \in Used(heap)
    BY <1>0, <1>4 DEF Krealloc
  <2>2. CASE n <= heap.block[b].size
    <3>1. heap' = heap /\ live' = [live EXCEPT ![b] = n]
      BY <1>4, <2>2 DEF Krealloc
    <3>2. DOMAIN live' = DOMAIN live /\ live'[b] = n /\ \A a \in DOMAIN live : a # b => live'[a] = live[a]
      BY <3>1
    <3>3. heap.block[b].size >= n
      <4>1. heap.block[b].size \in Nat /\ n \in Nat
        BY <2>1, HeapFacts, ConstantFacts DEF Sound, Used
      <4> QED BY <2>2, <4>1
    <3>4. Held'
      BY <3>1, <3>2, <3>3 DEF IInv, Held
    <3> QED BY <2>1, <3>1, <3>4 DEF IInv, Kept
  <2>3. CASE ~(n <= heap.block[b].size)
    <3>1. PICK h : /\ ReadyFor(n, h)
                   /\ heap' = Release(Take(h, FindFreeBlock(h, n), n), b)
                   /\ live' = Put(Drop(live, b), FindFreeBlock(h, n), n)
      BY <1>4, <2>3 DEF Krealloc
    <3> DEFINE c == FindFreeBlock(h, n)
               g == Take(h, c, n)
    <3>2. /\ Sound(g) /\ Used(g) = Used(heap) \cup {c} /\ Kept(heap, g)
          /\ c \notin Used(heap) /\ g.block[c].size >= n
      BY <2>1, <3>1, AllocationSound
    <3>3. heap' = Release(g, b) /\ live' = Put(Drop(live, b), c, n)
      BY <3>1
    <3> HIDE DEF c, g
    <3>4. Sound(heap') /\ Used(heap') = Used(g) \ {b} /\ Kept(g, heap')
      BY <2>1, <3>2, <3>3, ReleaseSound
    <3>5. Kept(heap, heap')
      BY <3>2, <3>4 DEF Kept
    <3>6. b # c /\ Used(heap') = (Used(heap) \ {b}) \cup {c} /\ heap'.block[c].size = g.block[c].size
      BY <2>1, <3>2, <3>4 DEF Kept
    <3>7. /\ DOMAIN live' = (DOMAIN live \ {b}) \cup {c} /\ live'[c] = n
          /\ \A a \in DOMAIN live \ {b} : a # c => live'[a] = live[a]
      BY <3>3 DEF Put, Drop
    <3>8. Held'
      BY <3>2, <3>5, <3>6, <3>7 DEF IInv, Held, Kept
    <3> QED BY <2>1, <3>4, <3>5, <3>8 DEF IInv
  <2> QED BY <2>2, <2>3
<1>5. CASE UNCHANGED vars
  BY <1>5 DEF vars, IInv, Held, Kept
<1> QED BY <1>1, <1>2, <1>3, <1>4, <1>5 DEF Next

(* The heap is sound whenever there is one, and its used blocks are those  *)
(* the clients hold.                                                       *)
THEOREM HeapStaysSound == Spec => []IInv
<1> QED BY InitInv, NextInv, PTL DEF Spec

(* The blocks tile the heap from heap_start to heap_end, which is at most  *)
(* a page beyond HEAP_MAX_SIZE: heap_get_used_size walks from header to    *)
(* header and no block reaches into the next.                              *)
THEOREM HeapIsTiled == Spec => []BlocksTileHeap
<1>1. IInv => BlocksTileHeap
  <2> SUFFICES ASSUME IInv PROVE BlocksTileHeap
    OBVIOUS
  <2>1. CASE heap_initialized
    <3>1. PICK L, r, top : Chain(heap, L, r, top)
      BY <2>1 DEF IInv, Sound
    <3>2. heap \in HeapType /\ Tiled(heap) /\ heap.heap_end <= MaxSize + PageSize
      BY <2>1 DEF IInv, Sound, Sized
    <3>3. heap.free_list_head \in Blocks(heap) \cup {NULL}
      BY <3>1 DEF Chain
    <3>4. heap.heap_end \in 0 .. MaxSize + PageSize /\ Blocks(heap) \subseteq Address
      BY <3>2, HeapFacts, ConstantFacts
    <3>5. ASSUME NEW b \in Blocks(heap)
          PROVE  heap.block[b] \in [size : 1 .. MaxSize + PageSize, is_free : BOOLEAN,
                                    next : Address \cup {NULL}, prev : Address \cup {NULL}]
      <4>1. heap.block[b] \in Header
        BY <3>2, HeapFacts
      <4>2. /\ EndOf(heap, b) = b + 2 + heap.block[b].size /\ heap.block[b].size \in Nat \ {0}
            /\ EndOf(heap, b) <= heap.heap_end /\ b \in Nat
        BY <3>2, TileFacts DEF Tiled
      <4>3. heap.block[b].size \in 1 .. MaxSize + PageSize
        BY <3>2, <3>4, <4>2, ConstantFacts
      <4> QED BY <4>1, <4>3 DEF Header
    <3>6. DOMAIN live \subseteq Address /\ \A b \in DOMAIN live : live[b] \in Sizes
      BY <3>4 DEF IInv, Held, Used
    <3>7. TypeOK
      BY <3>3, <3>4, <3>5, <3>6 DEF TypeOK, IInv
    <3> QED BY <3>2, <3>7 DEF BlocksTileHeap, Tiled
  <2>2. CASE ~heap_initialized
    <3>1. heap = NoHeap /\ DOMAIN live = {}
      BY <2>2, NoHeapFacts DEF IInv, Held
    <3>2. TypeOK
      BY <3>1, NoHeapFacts, ConstantFacts DEF TypeOK, IInv
    <3> QED BY <2>2, <3>2 DEF BlocksTileHeap
  <2> QED BY <2>1, <2>2 DEF IInv
<1> QED BY <1>1, HeapStaysSound, PTL

(* The free list ends, is linked both ways, and has only blocks that are   *)
(* free and that no client holds: kmalloc's search ends, and hands out     *)
(* nobody's block.                                                         *)
THEOREM FreeListIsSound == Spec => []FreeListSound
<1>1. IInv => FreeListSound
  <2> SUFFICES ASSUME IInv PROVE FreeListSound
    OBVIOUS
  <2>1. PICK L, r, top : heap \in HeapType /\ IsFiniteSet(Blocks(heap)) /\ Chain(heap, L, r, top)
    <3>1. CASE heap_initialized
      BY <3>1 DEF IInv, Sound, Tiled
    <3>2. CASE ~heap_initialized
      <4>1. IsFiniteSet({})
        BY FS_EmptySet
      <4> QED BY <3>2, <4>1, NoHeapFacts DEF IInv
    <3> QED BY <3>1, <3>2 DEF IInv
  <2>2. Walk(heap)[Cardinality(Blocks(heap))] = NULL
    BY <2>1, WalkEnds
  <2>3. heap.free_list_head # NULL => heap.block[heap.free_list_head].prev = NULL
    BY <2>1 DEF Chain
  <2>4. ASSUME NEW b \in Listed(heap)
        PROVE  /\ b \in Blocks(heap) /\ heap.block[b].is_free /\ b \notin DOMAIN live
               /\ heap.block[b].next # NULL => heap.block[heap.block[b].next].prev = b
    <3>1. Walk(heap) \in [0 .. Cardinality(Blocks(heap)) -> L \cup {NULL}]
      BY <2>1, WalkSteps DEF Steps
    <3>2. b \in L
      <4> HIDE DEF IInv
      <4>1. \A k \in DOMAIN Walk(heap) : Walk(heap)[k] \in L \cup {NULL}
        BY <3>1
      <4> QED BY <4>1 DEF Listed
    <3>3. b \in Blocks(heap) /\ b \notin Used(heap) /\ OnChain(heap, L, r, b)
      BY <2>1, <3>2 DEF Chain
    <3> QED BY <3>3 DEF Used, OnChain, IInv, Held
  <2> QED BY <2>2, <2>3, <2>4 DEF FreeListSound
<1> QED BY <1>1, HeapStaysSound, PTL

(* The blocks that heap_get_used_size counts are those the clients hold,   *)
(* and each is at least as large as its client asked.                      *)
THEOREM UsedBlocksAreHeld == Spec => []HeldBlocksAreUsed
<1>1. IInv => HeldBlocksAreUsed
  BY DEF IInv, Held, Used, HeldBlocksAreUsed
<1> QED BY <1>1, HeapStaysSound, PTL

(* No kmalloc, kfree or krealloc of one client moves or resizes a block    *)
(* that another one holds.                                                 *)
THEOREM NobodyElseIsDisturbed == Spec => OthersUndisturbed
<1> DEFINE Undisturbed ==
             \A b \in DOMAIN live \cap DOMAIN live' :
               b \in Blocks(heap') /\ heap'.block[b].size = heap.block[b].size
<1>1. IInv /\ IInv' /\ Kept(heap, heap') => Undisturbed
  BY DEF IInv, Held, Used, Kept
<1>2. IInv /\ [Next]_vars => [Undisturbed]_vars
  BY <1>1, NextInv
<1> QED BY <1>2, HeapStaysSound, PTL DEF Spec, OthersUndisturbed
=============================================================================
