--------------------------- MODULE SimpleFsProofs ---------------------------
(***************************************************************************)
(* Proofs about SimpleFS, fs/simplefs.c, for any size of the table, of     *)
(* blocks and of the directory: chains stay apart in memory and on the     *)
(* drive, wherever a save or a load stops; no block is lost; descriptors   *)
(* stay in their files; and files hold what was written to them.           *)
(***************************************************************************)
EXTENDS SimpleFsDisk, FiniteSetTheorems, SequenceTheorems, WellFoundedInduction, TLAPS

Index == 0 .. MaxBlocks
Fat == [DataBlock -> FatValue]

-----------------------------------------------------------------------------
LEMMA Sizes ==
  /\ MaxBlocks \in Nat /\ MaxBlocks > 3 /\ FatEntries \in Nat /\ FatEntries > 3 /\ FatEntries < MaxBlocks
  /\ BlockSize \in Nat /\ BlockSize > 0
  /\ DirEntries \in Nat /\ CountRange \in Nat /\ MaxBlocks < CountRange
  /\ MaxFd \in Nat /\ MaxFd > 0 /\ MaxSize \in Nat /\ MaxSize > 0
  /\ DataBlock \subseteq Nat /\ Free \notin DataBlock /\ EndOfFile \notin DataBlock
  /\ Free # EndOfFile /\ FatValue \subseteq Nat
  /\ Fd \subseteq Nat
BY SimpleFsAssumption DEF DataBlock, Free, EndOfFile, FatValue, Fd

LEMMA LeastNumber ==
  ASSUME NEW S, S \subseteq Nat, S # {}
  PROVE  \E i \in S : \A j \in S : i <= j
<1>1. PICK i \in S : \A j \in S : ~(<<j, i>> \in OpToRel(<, Nat))
  BY NatLessThanWellFounded, WFMin
<1>2. \A j \in S : i <= j
  <2> SUFFICES ASSUME NEW j \in S, j < i PROVE FALSE
    OBVIOUS
  <2>1. <<j, i>> \in Nat \X Nat
    OBVIOUS
  <2>2. <<j, i>> \in OpToRel(<, Nat)
    BY <2>1 DEF OpToRel
  <2> QED BY <1>1, <2>2
<1> QED BY <1>2

(* Min is the least element of a set of naturals.                          *)
LEMMA MinIsLeast ==
  ASSUME NEW S, S \subseteq Nat, S # {}
  PROVE  Min(S) \in S /\ \A x \in S : Min(S) <= x
BY LeastNumber DEF Min

-----------------------------------------------------------------------------
(* The way along a FAT f from b: it exists, and there is only one.         *)
WalkIn(f, b) ==
  LET w[k \in 0 .. MaxBlocks] ==
        IF k = 0 THEN b ELSE Step(f, w[k - 1])
  IN w

IsWay(f, b, n, w) ==
  /\ w \in [0 .. n -> FatValue]
  /\ w[0] = b
  /\ \A k \in 1 .. n : w[k] = Step(f, w[k - 1])

LEMMA WayExists ==
  ASSUME NEW f \in Fat, NEW b \in FatValue, NEW n \in Nat
  PROVE  \E w : IsWay(f, b, n, w)
<1> DEFINE Without == { m \in Nat : ~ \E w : IsWay(f, b, m, w) }
<1> SUFFICES ASSUME Without # {} PROVE FALSE
  OBVIOUS
<1>1. PICK m \in Without : \A j \in Without : m <= j
  BY LeastNumber
<1>2. m # 0
  <2>1. IsWay(f, b, 0, [k \in 0 .. 0 |-> b])
    BY DEF IsWay
  <2> QED BY <1>1, <2>1
<1>3. m - 1 \in Nat /\ m - 1 \notin Without
  BY <1>1, <1>2
<1>4. PICK w : IsWay(f, b, m - 1, w)
  BY <1>3
<1> DEFINE v == [k \in 0 .. m |-> IF k = m THEN Step(f, w[m - 1]) ELSE w[k]]
<1>5. Step(f, w[m - 1]) \in FatValue
  BY <1>3, <1>4 DEF IsWay, Step, Fat
<1>6. v \in [0 .. m -> FatValue]
  BY <1>3, <1>4, <1>5 DEF IsWay
<1>7. v[0] = b
  BY <1>1, <1>2, <1>4 DEF IsWay
<1>8. ASSUME NEW k \in 1 .. m PROVE v[k] = Step(f, v[k - 1])
  <2>1. CASE k = m
    BY <1>1, <2>1
  <2>2. CASE k # m
    BY <1>1, <1>4, <2>2 DEF IsWay
  <2> QED BY <2>1, <2>2
<1>9. IsWay(f, b, m, v)
  BY <1>6, <1>7, <1>8 DEF IsWay
<1> QED BY <1>1, <1>9

LEMMA WayIsUnique ==
  ASSUME NEW f, NEW b, NEW n \in Nat, NEW v, NEW w, IsWay(f, b, n, v), IsWay(f, b, n, w)
  PROVE  v = w
<1> DEFINE Apart == { k \in 0 .. n : v[k] # w[k] }
<1> SUFFICES ASSUME Apart # {} PROVE FALSE
  BY DEF IsWay
<1>1. Apart \subseteq Nat
  OBVIOUS
<1>2. PICK m \in Apart : \A j \in Apart : m <= j
  BY <1>1, LeastNumber
<1>3. m \in 1 .. n
  BY <1>2 DEF IsWay
<1>4. m - 1 \in 0 .. n /\ m - 1 \notin Apart
  BY <1>2, <1>3
<1> QED BY <1>2, <1>3, <1>4 DEF IsWay

LEMMA WalkIsWay ==
  ASSUME NEW f \in Fat, NEW b \in FatValue
  PROVE  IsWay(f, b, MaxBlocks, WalkIn(f, b))
<1>1. MaxBlocks \in Nat
  BY Sizes
<1>2. PICK w : IsWay(f, b, MaxBlocks, w)
  BY <1>1, WayExists
<1> DEFINE rule(g) == [k \in 0 .. MaxBlocks |->
                         IF k = 0 THEN b ELSE Step(f, g[k - 1])]
<1>3. w = rule(w)
  BY <1>1, <1>2 DEF IsWay, Step
<1>4. WalkIn(f, b) = CHOOSE g : g = rule(g)
  BY DEF WalkIn
<1> DEFINE v == WalkIn(f, b)
<1>5. v = rule(v)
  <2> HIDE DEF rule
  <2> QED BY <1>3, <1>4
<1> HIDE DEF v
<1>6. v[0] = b /\ \A k \in 1 .. MaxBlocks : v[k] = Step(f, v[k - 1])
  <2>1. \A k \in 0 .. MaxBlocks : rule(v)[k] =
          IF k = 0 THEN b ELSE Step(f, v[k - 1])
    OBVIOUS
  <2> HIDE DEF rule
  <2>2. \A k \in 0 .. MaxBlocks : v[k] =
          IF k = 0 THEN b ELSE Step(f, v[k - 1])
    BY <1>5, <2>1
  <2> QED BY <1>1, <2>2 DEF Step
<1>7. \A k \in 0 .. MaxBlocks : v[k] \in FatValue
  <2> DEFINE Outside == { k \in 0 .. MaxBlocks : v[k] \notin FatValue }
  <2>1. Outside \subseteq Nat /\ \A k \in Outside : k \in 0 .. MaxBlocks /\ v[k] \notin FatValue
    BY <1>1
  <2>2. \A k \in 0 .. MaxBlocks : k \notin Outside => v[k] \in FatValue
    OBVIOUS
  <2> HIDE DEF Outside
  <2>3. ASSUME Outside # {} PROVE FALSE
    <3>1. PICK m \in Outside : \A j \in Outside : m <= j
      BY <2>1, <2>3, LeastNumber
    <3>2. m \in 0 .. MaxBlocks /\ m # 0
      BY <1>6, <2>1, <3>1
    <3>3. m - 1 \in 0 .. MaxBlocks /\ m \in 1 .. MaxBlocks
      BY <1>1, <3>2
    <3>4. m - 1 \notin Outside
      BY <3>1, <3>2, <3>3
    <3>5. v[m - 1] \in FatValue /\ v[m] = Step(f, v[m - 1])
      BY <1>6, <2>2, <3>3, <3>4
    <3>6. v[m] \in FatValue
      BY <3>5 DEF Step, Fat
    <3> QED BY <2>1, <3>1, <3>6
  <2> QED BY <2>2, <2>3
<1>8. v \in [0 .. MaxBlocks -> FatValue]
  BY <1>5, <1>7
<1> QED BY <1>6, <1>8 DEF IsWay, v

LEMMA WalkFacts ==
  ASSUME NEW m, m.fat \in Fat, NEW b \in FatValue
  PROVE  /\ Walk(m, b) \in [Index -> FatValue]
         /\ Walk(m, b)[0] = b
         /\ \A k \in 1 .. MaxBlocks : Walk(m, b)[k] = Step(m.fat, Walk(m, b)[k - 1])
         /\ \A k \in 0 .. MaxBlocks - 1 : Walk(m, b)[k + 1] = Step(m.fat, Walk(m, b)[k])
<1>1. Walk(m, b) = WalkIn(m.fat, b)
  BY DEF Walk, WalkIn
<1>2. IsWay(m.fat, b, MaxBlocks, Walk(m, b))
  BY <1>1, WalkIsWay
<1>3. ASSUME NEW k \in 0 .. MaxBlocks - 1
      PROVE  Walk(m, b)[k + 1] = Step(m.fat, Walk(m, b)[k])
  <2>1. k + 1 \in 1 .. MaxBlocks /\ (k + 1) - 1 = k
    BY Sizes
  <2> QED BY <1>2, <2>1 DEF IsWay
<1> QED BY <1>2, <1>3 DEF IsWay, Index

(* What takes the steps of the way is the way.                             *)
LEMMA WalkIs ==
  ASSUME NEW m, m.fat \in Fat, NEW b \in FatValue, NEW v \in [Index -> FatValue], v[0] = b,
         \A k \in 0 .. MaxBlocks - 1 : v[k + 1] = Step(m.fat, v[k])
  PROVE  Walk(m, b) = v
<1>1. Walk(m, b) = WalkIn(m.fat, b)
  BY DEF Walk, WalkIn
<1>2. IsWay(m.fat, b, MaxBlocks, Walk(m, b))
  BY <1>1, WalkIsWay
<1>3. ASSUME NEW k \in 1 .. MaxBlocks PROVE v[k] = Step(m.fat, v[k - 1])
  <2>1. k - 1 \in 0 .. MaxBlocks - 1 /\ (k - 1) + 1 = k
    BY Sizes
  <2> QED BY <2>1
<1>4. IsWay(m.fat, b, MaxBlocks, v)
  BY <1>3 DEF IsWay, Index
<1> QED BY <1>2, <1>4, WayIsUnique, Sizes

(* A FAT that says the same of the blocks on a way has the same way.       *)
LEMMA SameWay ==
  ASSUME NEW m, NEW n, m.fat \in Fat, n.fat \in Fat, NEW b \in FatValue,
         \A k \in 0 .. MaxBlocks - 1 : Walk(m, b)[k] \in DataBlock =>
           n.fat[Walk(m, b)[k]] = m.fat[Walk(m, b)[k]]
  PROVE  Walk(n, b) = Walk(m, b)
<1> DEFINE v == Walk(m, b)
<1>1. v \in [Index -> FatValue] /\ v[0] = b
  BY WalkFacts
<1>2. \A k \in 0 .. MaxBlocks - 1 : v[k + 1] = Step(m.fat, v[k])
  BY WalkFacts
<1>3. \A k \in 0 .. MaxBlocks - 1 : v[k + 1] = Step(n.fat, v[k])
  BY <1>2 DEF Step
<1> QED BY <1>1, <1>3, WalkIs

(* Once a way has left the blocks, it stays where it is.                   *)
LEMMA WayStays ==
  ASSUME NEW m, m.fat \in Fat, NEW b \in FatValue, NEW k \in Index, NEW j \in k .. MaxBlocks,
         Walk(m, b)[k] \notin DataBlock
  PROVE  Walk(m, b)[j] = Walk(m, b)[k]
<1> DEFINE v == Walk(m, b)
           Moved == { i \in k .. MaxBlocks : v[i] # v[k] }
<1>1. Moved \subseteq Nat
  BY Sizes DEF Index
<1>2. \A i \in 0 .. MaxBlocks - 1 : v[i + 1] = Step(m.fat, v[i])
  BY WalkFacts
<1> HIDE DEF v
<1>3. ASSUME Moved # {} PROVE FALSE
  <2>1. PICK i \in Moved : \A l \in Moved : i <= l
    BY <1>1, <1>3, LeastNumber
  <2>2. i # k /\ i \in k .. MaxBlocks
    BY <2>1
  <2>3. i - 1 \in k .. MaxBlocks /\ i - 1 \in 0 .. MaxBlocks - 1 /\ (i - 1) + 1 = i /\ i - 1 < i
    BY <2>2, Sizes DEF Index
  <2>4. v[i - 1] = v[k]
    BY <2>1, <2>3
  <2>5. v[i] = Step(m.fat, v[i - 1])
    BY <1>2, <2>3
  <2>6. v[i] = v[k]
    BY <2>4, <2>5 DEF Step, v
  <2> QED BY <2>1, <2>6
<1> QED BY <1>3 DEF v

LEMMA WayBefore ==
  ASSUME NEW m, m.fat \in Fat, NEW b \in FatValue, NEW k \in Index, Walk(m, b)[k] \in DataBlock,
         NEW j \in 0 .. k
  PROVE  Walk(m, b)[j] \in DataBlock
<1>1. j \in Index /\ k \in j .. MaxBlocks
  BY Sizes DEF Index
<1> QED BY <1>1, WayStays

-----------------------------------------------------------------------------
(***************************************************************************)
(* Sound: the ways from all entries end, never meet and never come back,   *)
(* and names are unique.  Extends(m, n): what was in m is there in n, and  *)
(* the chains have only grown.  Older: a FAT of which blocks were taken or *)
(* linked since.  Counted: no block is lost but those of u.                *)
(***************************************************************************)
First(m, i) == m.root_dir[i].first_block
Way(m, i) == Walk(m, First(m, i))

Sound(m) ==
  /\ \A i \in Entries(m) : Way(m, i)[MaxBlocks] = EndOfFile
  /\ \A i, j \in Entries(m), k, l \in Index :
       Way(m, i)[k] \in DataBlock /\ Way(m, i)[k] = Way(m, j)[l] => i = j /\ k = l
  /\ \A i, j \in Entries(m) :
       m.root_dir[i].name = m.root_dir[j].name => i = j \/ m.root_dir[i].name \in FullNames

SameEntry(m, n, i) ==
  /\ n.root_dir[i].name = m.root_dir[i].name
  /\ n.root_dir[i].first_block = m.root_dir[i].first_block
  /\ n.root_dir[i].type = m.root_dir[i].type

Extends(m, n) ==
  /\ Entries(m) \subseteq Entries(n)
  /\ \A i \in Entries(m) : SameEntry(m, n, i)
  /\ \A i \in Entries(m), k \in Index : Way(m, i)[k] \in DataBlock => Way(n, i)[k] = Way(m, i)[k]

Older(f, g) == \A b \in DataBlock : f[b] \in {Free, EndOfFile, g[b]}

Counted(m, u) ==
  /\ m.free_blocks = Cardinality(FreeBlocks(m)) + (MaxBlocks - FatEntries)
  /\ \A b \in (DataBlock \ FreeBlocks(m)) \ u : \E i \in Entries(m), k \in Index : b = Way(m, i)[k]

\* What every operation on the blocks does, and all but one that loses a block.
Grows(m, n) == n \in Blocks /\ Sound(n) /\ Extends(m, n) /\ Older(m.fat, n.fat)
Keeps(m, n) == Grows(m, n) /\ \A u : Counted(m, u) => Counted(n, u)

Entry == [name : Names, first_block : DataBlock \cup {0}, size : 0 .. MaxSize, type : {"file", "dir"}]

LEMMA BlockFacts ==
  ASSUME NEW m \in Blocks
  PROVE  /\ m.fat \in Fat /\ m.free_blocks \in 0 .. CountRange - 1 /\ m.magic \in BOOLEAN
         /\ m.root_dir \in Seq(Entry) /\ Len(m.root_dir) \in Nat
         /\ Entries(m) = 1 .. Len(m.root_dir) /\ Entries(m) \subseteq Nat
         /\ \A i \in Entries(m) : /\ m.root_dir[i] \in Entry
                                  /\ First(m, i) \in DataBlock \cup {0} /\ First(m, i) \in FatValue
         /\ m.data \in [DataBlock -> [Offset -> Bytes \cup {0}]]
<1>1. m.root_dir \in Seq(Entry)
  BY DEF Blocks, Entry
<1>2. Entries(m) = 1 .. Len(m.root_dir) /\ Len(m.root_dir) \in Nat
  BY <1>1 DEF Entries
<1>3. \A i \in Entries(m) : m.root_dir[i] \in Entry
  BY <1>1, <1>2
<1> QED BY <1>1, <1>2, <1>3 DEF Blocks, Fat, First, Entry, FatValue, Free

LEMMA WayFacts ==
  ASSUME NEW m \in Blocks, NEW i \in Entries(m)
  PROVE  /\ Way(m, i) \in [Index -> FatValue]
         /\ Way(m, i)[0] = First(m, i)
         /\ \A k \in 0 .. MaxBlocks - 1 : Way(m, i)[k + 1] = Step(m.fat, Way(m, i)[k])
BY BlockFacts, WalkFacts DEF Way

(* Each block on a chain is followed by another one or the end, so that    *)
(* it is not free.                                                         *)
LEMMA SoundWays ==
  ASSUME NEW m \in Blocks, Sound(m), NEW i \in Entries(m), NEW k \in Index
  PROVE  /\ Way(m, i)[k] \in DataBlock \cup {EndOfFile}
         /\ Way(m, i)[k] \in DataBlock =>
              /\ k \in 0 .. MaxBlocks - 1 /\ k + 1 \in Index
              /\ m.fat[Way(m, i)[k]] = Way(m, i)[k + 1]
              /\ Way(m, i)[k] \notin FreeBlocks(m)
<1>1. m.fat \in Fat /\ First(m, i) \in FatValue
  BY BlockFacts
<1>2. Way(m, i)[MaxBlocks] = EndOfFile
  BY DEF Sound
<1>3. ASSUME NEW j \in Index PROVE Way(m, i)[j] \in DataBlock \cup {EndOfFile}
  <2>1. CASE Way(m, i)[j] \notin DataBlock
    <3>1. MaxBlocks \in j .. MaxBlocks
      BY Sizes DEF Index
    <3>2. Way(m, i)[MaxBlocks] = Way(m, i)[j]
      BY <1>1, <2>1, <3>1, WayStays DEF Way
    <3> QED BY <1>2, <3>2
  <2> QED BY <2>1
<1>4. ASSUME Way(m, i)[k] \in DataBlock
      PROVE  /\ k \in 0 .. MaxBlocks - 1 /\ k + 1 \in Index
             /\ m.fat[Way(m, i)[k]] = Way(m, i)[k + 1]
             /\ Way(m, i)[k] \notin FreeBlocks(m)
  <2>1. k # MaxBlocks
    BY <1>2, <1>4, Sizes
  <2>2. k \in 0 .. MaxBlocks - 1 /\ k + 1 \in Index
    BY <2>1, Sizes DEF Index
  <2>3. m.fat[Way(m, i)[k]] = Way(m, i)[k + 1]
    BY <1>4, <2>2, WayFacts DEF Step
  <2>4. Way(m, i)[k + 1] # Free
    BY <1>3, <2>2, Sizes
  <2> QED BY <2>2, <2>3, <2>4 DEF FreeBlocks
<1> QED BY <1>3, <1>4

LEMMA SoundFirst ==
  ASSUME NEW m \in Blocks, Sound(m), NEW i \in Entries(m)
  PROVE  First(m, i) \in DataBlock
<1>1. Way(m, i)[0] = First(m, i) /\ 0 \in Index
  BY WayFacts, Sizes DEF Index
<1>2. First(m, i) # EndOfFile
  BY BlockFacts, Sizes DEF EndOfFile
<1> QED BY <1>1, <1>2, SoundWays

(* A chain has at most as many blocks as there are data blocks.            *)
LEMMA Room ==
  ASSUME NEW m \in Blocks, Sound(m), NEW i \in Entries(m), NEW k \in Index,
         Way(m, i)[k] \in DataBlock
  PROVE  k + 1 \in 0 .. MaxBlocks - 1
<1> DEFINE f == [j \in 0 .. k |-> Way(m, i)[j]]
<1>1. m.fat \in Fat /\ First(m, i) \in FatValue
  BY BlockFacts
<1>2. \A j \in 0 .. k : j \in Index /\ Way(m, i)[j] \in DataBlock
  <2> TAKE j \in 0 .. k
  <2>1. j \in Index
    BY Sizes DEF Index
  <2> QED BY <1>1, <2>1, WayBefore DEF Way
<1>3. f \in Injection(0 .. k, DataBlock)
  <2>1. f \in [0 .. k -> DataBlock]
    BY <1>2
  <2>2. \A j, l \in 0 .. k : f[j] = f[l] => j = l
    BY <1>2 DEF Sound
  <2> QED BY <2>1, <2>2 DEF Injection, IsInjective
<1>4. IsFiniteSet(DataBlock) /\ Cardinality(DataBlock) = FatEntries - 3
  BY FS_Interval, Sizes DEF DataBlock
<1>5. Cardinality(0 .. k) = k + 1
  <2>1. 0 \in Int /\ k \in Int /\ 0 <= k
    BY Sizes DEF Index
  <2> QED BY <2>1, FS_Interval
<1>6. Cardinality(0 .. k) <= Cardinality(DataBlock)
  BY <1>3, <1>4, FS_Injection
<1> QED BY <1>4, <1>5, <1>6, Sizes DEF Index

LEMMA ExtendsSelf == ASSUME NEW m PROVE Extends(m, m) /\ Older(m.fat, m.fat)
BY DEF Extends, SameEntry, Older

LEMMA ExtendsFurther ==
  ASSUME NEW m, NEW n, NEW o, Extends(m, n), Extends(n, o)
  PROVE  Extends(m, o)
BY DEF Extends, SameEntry

LEMMA OlderFurther ==
  ASSUME NEW f, NEW g, NEW h, Older(f, g), Older(g, h)
  PROVE  Older(f, h)
BY DEF Older

(* What leaves the FAT and the first blocks of the files alone.            *)
LEMMA SameTable ==
  ASSUME NEW m \in Blocks, NEW n \in Blocks, Sound(m), n.fat = m.fat,
         n.free_blocks = m.free_blocks,
         Entries(n) = Entries(m), \A i \in Entries(m) : SameEntry(m, n, i)
  PROVE  /\ Keeps(m, n)
         /\ \A i \in Entries(m) : Way(n, i) = Way(m, i)
<1>1. ASSUME NEW i \in Entries(m) PROVE Way(n, i) = Way(m, i)
  BY DEF Way, First, Walk, SameEntry
<1>2. Sound(n)
  BY <1>1 DEF Sound, SameEntry
<1>3. Extends(m, n)
  BY <1>1 DEF Extends
<1>4. FreeBlocks(n) = FreeBlocks(m)
  BY DEF FreeBlocks
<1>5. \A u : Counted(m, u) => Counted(n, u)
  BY <1>1, <1>4 DEF Counted
<1>6. Older(m.fat, n.fat)
  BY DEF Older
<1> QED BY <1>1, <1>2, <1>3, <1>5, <1>6 DEF Keeps, Grows

-----------------------------------------------------------------------------
(* A block is taken: nothing that is on a way changes.                     *)
LEMMA AllocEffect ==
  ASSUME NEW m \in Blocks, FreeBlocks(m) # {}
  PROVE  LET b == Min(FreeBlocks(m))
             n == AllocBlock(m)
         IN /\ b \in DataBlock /\ m.fat[b] = Free /\ b \in FreeBlocks(m)
            /\ n \in Blocks
            /\ n.fat = [m.fat EXCEPT ![b] = EndOfFile]
            /\ n.free_blocks = (m.free_blocks - 1) % CountRange
            /\ n.magic = m.magic /\ n.root_dir = m.root_dir /\ n.data = m.data
            /\ FreeBlocks(n) = FreeBlocks(m) \ {b}
<1> DEFINE b == Min(FreeBlocks(m))
           n == AllocBlock(m)
<1>1. b \in FreeBlocks(m)
  <2>1. FreeBlocks(m) \subseteq Nat
    BY Sizes DEF FreeBlocks
  <2> QED BY <2>1, MinIsLeast
<1>2. b \in DataBlock /\ m.fat[b] = Free
  BY <1>1 DEF FreeBlocks
<1> HIDE DEF b
<1>3. (m.free_blocks - 1) % CountRange \in 0 .. CountRange - 1
  BY BlockFacts, Sizes
<1>4. [m.fat EXCEPT ![b] = EndOfFile] \in [DataBlock -> FatValue]
  BY BlockFacts DEF Fat, FatValue
<1>5. /\ n.fat = [m.fat EXCEPT ![b] = EndOfFile]
      /\ n.free_blocks = (m.free_blocks - 1) % CountRange
      /\ n.magic = m.magic /\ n.root_dir = m.root_dir /\ n.data = m.data
      /\ n \in Blocks
  BY <1>3, <1>4 DEF AllocBlock, Range32, Blocks, b
<1>6. FreeBlocks(n) = FreeBlocks(m) \ {b}
  <2>1. \A c \in DataBlock : n.fat[c] = IF c = b THEN EndOfFile ELSE m.fat[c]
    BY <1>2, <1>5, BlockFacts DEF Fat
  <2> HIDE DEF n
  <2> QED BY <1>2, <2>1, Sizes DEF FreeBlocks
<1> QED BY <1>1, <1>2, <1>5, <1>6 DEF b

LEMMA CountsDown ==
  ASSUME NEW m \in Blocks, FreeBlocks(m) # {}, NEW b \in FreeBlocks(m),
         m.free_blocks = Cardinality(FreeBlocks(m)) + (MaxBlocks - FatEntries)
  PROVE  (m.free_blocks - 1) % CountRange = Cardinality(FreeBlocks(m) \ {b}) + (MaxBlocks - FatEntries)
<1>1. IsFiniteSet(FreeBlocks(m))
  <2>1. IsFiniteSet(DataBlock)
    BY FS_Interval, Sizes DEF DataBlock
  <2>2. FreeBlocks(m) \in SUBSET DataBlock
    BY DEF FreeBlocks
  <2> QED BY <2>1, <2>2, FS_Subset
<1>2. /\ Cardinality(FreeBlocks(m) \ {b}) = Cardinality(FreeBlocks(m)) - 1
      /\ Cardinality(FreeBlocks(m)) \in Nat /\ Cardinality(FreeBlocks(m) \ {b}) \in Nat
  BY <1>1, FS_RemoveElement, FS_CardinalityType
<1>3. m.free_blocks - 1 \in Nat /\ m.free_blocks - 1 < CountRange
  BY <1>2, BlockFacts, Sizes
<1>4. \A x \in Nat : x < CountRange => x % CountRange = x
  BY Sizes
<1>5. (m.free_blocks - 1) % CountRange = m.free_blocks - 1
  BY <1>3, <1>4
<1> QED BY <1>2, <1>5, Sizes

(* A block that was free is put behind the last one of a chain.            *)
LEMMA LinkKeeps ==
  ASSUME NEW m \in Blocks, Sound(m), FreeBlocks(m) # {}, NEW i \in Entries(m), NEW k \in Index,
         Way(m, i)[k] \in DataBlock, m.fat[Way(m, i)[k]] = EndOfFile
  PROVE  LET b == Min(FreeBlocks(m))
             n == [AllocBlock(m) EXCEPT !.fat[Way(m, i)[k]] = b]
         IN /\ Keeps(m, n)
            /\ b \in DataBlock
            /\ k + 1 \in Index /\ Way(n, i)[k + 1] = b
            /\ n.root_dir = m.root_dir /\ n.data = m.data
<1> DEFINE b == Min(FreeBlocks(m))
           c == Way(m, i)[k]
           n == [AllocBlock(m) EXCEPT !.fat[c] = b]
           f == [j \in Index |-> IF j <= k THEN Way(m, i)[j] ELSE IF j = k + 1 THEN b ELSE EndOfFile]
<1>1. /\ b \in DataBlock /\ m.fat[b] = Free /\ b \in FreeBlocks(m)
      /\ AllocBlock(m) \in Blocks
      /\ AllocBlock(m).fat = [m.fat EXCEPT ![b] = EndOfFile]
      /\ AllocBlock(m).free_blocks = (m.free_blocks - 1) % CountRange
      /\ AllocBlock(m).root_dir = m.root_dir /\ AllocBlock(m).data = m.data
  BY AllocEffect
<1>2. c # b /\ c \in DataBlock
  BY <1>1, Sizes
<1> HIDE DEF b, c
<1>3. /\ n \in Blocks
      /\ n.fat = [[m.fat EXCEPT ![b] = EndOfFile] EXCEPT ![c] = b]
      /\ n.free_blocks = (m.free_blocks - 1) % CountRange
      /\ n.root_dir = m.root_dir /\ n.data = m.data
  <2>1. [AllocBlock(m).fat EXCEPT ![c] = b] \in [DataBlock -> FatValue]
    BY <1>1 DEF Blocks, FatValue
  <2> QED BY <1>1, <2>1 DEF Blocks
<1>4. n.fat \in Fat /\ m.fat \in Fat
  BY <1>3, BlockFacts
<1>5. \A d \in DataBlock : n.fat[d] = IF d = c THEN b ELSE IF d = b THEN EndOfFile ELSE m.fat[d]
  BY <1>1, <1>2, <1>3, <1>4 DEF Fat
<1> HIDE DEF n
<1>6. Entries(n) = Entries(m) /\ \A j \in Entries(m) : SameEntry(m, n, j) /\ First(n, j) = First(m, j)
  BY <1>3 DEF Entries, SameEntry, First
<1>7. k + 1 \in 0 .. MaxBlocks - 1 /\ k + 1 \in Index /\ k \in 0 .. MaxBlocks - 1
  BY Room, Sizes DEF Index
<1>8. \A j \in Entries(m), l \in Index : Way(m, j)[l] # b
  BY <1>1, SoundWays
<1>9. Way(n, i) = f
  <2>1. First(m, i) \in FatValue
    BY BlockFacts
  <2>2. f \in [Index -> FatValue]
    BY <1>1, WayFacts DEF FatValue
  <2>3. f[0] = First(m, i)
    <3>1. 0 \in Index /\ 0 <= k
      BY Sizes DEF Index
    <3>2. f[0] = Way(m, i)[0]
      BY <3>1
    <3> QED BY <3>2, WayFacts
  <2>4. ASSUME NEW j \in 0 .. MaxBlocks - 1 PROVE f[j + 1] = Step(n.fat, f[j])
    <3>1. j \in Index /\ j + 1 \in Index /\ j \in Nat /\ k \in Nat
      BY <1>7, Sizes DEF Index
    <3>2. CASE j < k
      <4>1. f[j] = Way(m, i)[j] /\ f[j + 1] = Way(m, i)[j + 1]
        BY <3>1, <3>2
      <4>2. Way(m, i)[j + 1] = Step(m.fat, Way(m, i)[j])
        BY WayFacts
      <4>3. Way(m, i)[j] # c
        BY <3>1, <3>2 DEF Sound, c
      <4>4. Way(m, i)[j] # b
        BY <1>8, <3>1
      <4> QED BY <1>5, <4>1, <4>2, <4>3, <4>4 DEF Step
    <3>3. CASE j = k
      <4>1. f[j] = c /\ f[j + 1] = b
        BY <3>1, <3>3 DEF c
      <4> QED BY <1>2, <1>5, <4>1 DEF Step
    <3>4. CASE j = k + 1
      <4>1. f[j] = b /\ f[j + 1] = EndOfFile
        BY <3>1, <3>4
      <4> QED BY <1>1, <1>2, <1>5, <4>1 DEF Step
    <3>5. CASE j > k + 1
      <4>1. f[j] = EndOfFile /\ f[j + 1] = EndOfFile
        BY <3>1, <3>5
      <4> QED BY <4>1, Sizes DEF Step
    <3> QED BY <3>1, <3>2, <3>3, <3>4, <3>5
  <2> HIDE DEF f
  <2>5. Walk(n, First(m, i)) = f
    BY <1>4, <2>1, <2>2, <2>3, <2>4, WalkIs
  <2> QED BY <1>6, <2>5 DEF Way
<1>10. ASSUME NEW j \in Entries(m), j # i PROVE Way(n, j) = Way(m, j)
  <2>1. First(m, j) \in FatValue
    BY BlockFacts
  <2>2. ASSUME NEW l \in 0 .. MaxBlocks - 1, Way(m, j)[l] \in DataBlock
        PROVE  n.fat[Way(m, j)[l]] = m.fat[Way(m, j)[l]]
    <3>1. l \in Index
      BY Sizes DEF Index
    <3>2. Way(m, j)[l] # b
      BY <1>8, <3>1
    <3>3. Way(m, j)[l] # c
      BY <1>10, <2>2, <3>1 DEF Sound, c
    <3> QED BY <1>5, <2>2, <3>2, <3>3
  <2>3. Walk(n, First(m, j)) = Walk(m, First(m, j))
    BY <1>4, <2>1, <2>2, SameWay DEF Way
  <2> QED BY <1>6, <2>3 DEF Way
<1>11. \A l \in Index : l > k => Way(m, i)[l] = EndOfFile
  <2>1. Way(m, i)[k + 1] = EndOfFile
    BY SoundWays
  <2> TAKE l \in Index
  <2>2. ASSUME l > k PROVE Way(m, i)[l] = EndOfFile
    <3>1. l \in k + 1 .. MaxBlocks
      BY <1>7, <2>2 DEF Index
    <3>2. First(m, i) \in FatValue
      BY BlockFacts
    <3> QED BY <1>4, <1>7, <2>1, <3>1, <3>2, WayStays, Sizes DEF Way
  <2> QED BY <2>2
<1>12. \A l \in Index : l <= k => Way(m, i)[l] \in DataBlock
  <2> TAKE l \in Index
  <2>1. ASSUME l <= k PROVE l \in 0 .. k
    BY <2>1 DEF Index
  <2>2. First(m, i) \in FatValue
    BY BlockFacts
  <2> QED BY <1>4, <2>1, <2>2, WayBefore DEF Way
<1>13. Sound(n)
  <2>1. ASSUME NEW j \in Entries(n) PROVE Way(n, j)[MaxBlocks] = EndOfFile
    <3>1. MaxBlocks \in Index /\ ~(MaxBlocks <= k) /\ MaxBlocks # k + 1
      BY <1>7, Sizes DEF Index
    <3>2. CASE j = i
      BY <1>9, <3>1, <3>2
    <3>3. CASE j # i
      BY <1>6, <1>10, <3>3 DEF Sound
    <3> QED BY <3>2, <3>3
  <2>2. ASSUME NEW g \in Entries(n), NEW j \in Entries(n), NEW h \in Index, NEW l \in Index,
               Way(n, g)[h] \in DataBlock, Way(n, g)[h] = Way(n, j)[l]
        PROVE  g = j /\ h = l
    <3>1. ASSUME NEW p \in Entries(m), NEW q \in Index, Way(n, p)[q] \in DataBlock
          PROVE  IF p = i /\ q = k + 1 THEN Way(n, p)[q] = b
                 ELSE Way(n, p)[q] = Way(m, p)[q]
      <4>1. CASE p = i
        <5>1. q \in Nat /\ k \in Nat
          BY <1>7, Sizes DEF Index
        <5>2. Way(n, p)[q] = IF q <= k THEN Way(m, i)[q] ELSE IF q = k + 1 THEN b ELSE EndOfFile
          BY <1>9, <4>1
        <5> QED BY <3>1, <4>1, <5>1, <5>2, Sizes
      <4>2. CASE p # i
        BY <1>10, <4>2
      <4> QED BY <4>1, <4>2
    <3>2. g \in Entries(m) /\ j \in Entries(m)
      BY <1>6
    <3>3. CASE (g = i /\ h = k + 1) <=> (j = i /\ l = k + 1)
      <4>1. CASE g = i /\ h = k + 1
        BY <3>3, <4>1
      <4>2. CASE ~(g = i /\ h = k + 1)
        <5>1. Way(m, g)[h] \in DataBlock /\ Way(m, g)[h] = Way(m, j)[l]
          BY <2>2, <3>1, <3>2, <3>3, <4>2
        <5> QED BY <3>2, <5>1 DEF Sound
      <4> QED BY <4>1, <4>2
    <3>4. CASE ~((g = i /\ h = k + 1) <=> (j = i /\ l = k + 1))
      <4>1. Way(m, g)[h] = b \/ Way(m, j)[l] = b
        BY <2>2, <3>1, <3>2, <3>4
      <4> QED BY <1>8, <3>2, <4>1
    <3> QED BY <3>3, <3>4
  <2>3. \A g, j \in Entries(n) :
          n.root_dir[g].name = n.root_dir[j].name => g = j \/ n.root_dir[g].name \in FullNames
    BY <1>3, <1>6 DEF Sound
  <2> QED BY <2>1, <2>2, <2>3 DEF Sound
<1>14. Extends(m, n)
  <2>1. ASSUME NEW j \in Entries(m), NEW l \in Index, Way(m, j)[l] \in DataBlock
        PROVE  Way(n, j)[l] = Way(m, j)[l]
    <3>1. CASE j = i
      <4>1. ~(l > k)
        BY <1>11, <2>1, <3>1, Sizes
      <4>2. l <= k
        BY <1>7, <4>1, Sizes DEF Index
      <4> QED BY <1>9, <3>1, <4>2
    <3>2. CASE j # i
      BY <1>10, <3>2
    <3> QED BY <3>1, <3>2
  <2> QED BY <1>6, <2>1 DEF Extends
<1>15. ASSUME NEW u, Counted(m, u) PROVE Counted(n, u)
  <2>1. FreeBlocks(n) = FreeBlocks(m) \ {b}
    <3>1. b # Free /\ EndOfFile # Free /\ m.fat[c] = EndOfFile
      BY <1>1, Sizes DEF c
    <3>2. \A d \in DataBlock : n.fat[d] = Free <=> m.fat[d] = Free /\ d # b
      BY <1>5, <3>1
    <3> QED BY <3>2 DEF FreeBlocks
  <2>2. n.free_blocks = Cardinality(FreeBlocks(n)) + (MaxBlocks - FatEntries)
    BY <1>1, <1>3, <1>15, <2>1, CountsDown DEF Counted
  <2>3. ASSUME NEW d \in (DataBlock \ FreeBlocks(n)) \ u
        PROVE  \E j \in Entries(n), l \in Index : d = Way(n, j)[l]
    <3>1. CASE d = b
      <4>1. Way(n, i)[k + 1] = b
        <5>1. ~(k + 1 <= k)
          BY <1>7
        <5> QED BY <1>7, <1>9, <5>1
      <4> QED BY <1>6, <1>7, <3>1, <4>1
    <3>2. CASE d # b
      <4>1. PICK j \in Entries(m), l \in Index : d = Way(m, j)[l]
        BY <1>15, <2>1, <3>2 DEF Counted
      <4>2. d = Way(n, j)[l]
        BY <1>14, <4>1 DEF Extends
      <4> QED BY <1>6, <4>2
    <3> QED BY <3>1, <3>2
  <2> QED BY <2>2, <2>3 DEF Counted
<1>16. Way(n, i)[k + 1] = b
  <2>1. ~(k + 1 <= k)
    BY <1>7
  <2> QED BY <1>7, <1>9, <2>1
<1>17. Older(m.fat, n.fat)
  BY <1>1, <1>5 DEF Older, c
<1> QED BY <1>1, <1>3, <1>7, <1>13, <1>14, <1>15, <1>16, <1>17 DEF Keeps, Grows, n, b, c

-----------------------------------------------------------------------------
LEMMA CountsBack ==
  \A x \in 0 .. CountRange - 1 : (((x - 1) % CountRange) + 1) % CountRange = x
<1> TAKE x \in 0 .. CountRange - 1
<1>1. CountRange \in Nat /\ CountRange > 0 /\ x \in Int
  BY Sizes
<1>2. CASE x = 0
  <2>1. (x - 1) % CountRange = CountRange - 1
    BY <1>1, <1>2
  <2> QED BY <1>1, <1>2, <2>1
<1>3. CASE x > 0
  <2>1. (x - 1) % CountRange = x - 1
    BY <1>1, <1>3
  <2> QED BY <1>1, <1>3, <2>1
<1> QED BY <1>1, <1>2, <1>3

(* fs_create: nothing, or a block that was free becomes the chain of one   *)
(* more file, or of none when there is no name.                            *)
NewEntry(name, b, type) == [name |-> Stored(name), first_block |-> b, size |-> 0, type |-> type]

LEMMA NewFileIs ==
  ASSUME NEW m \in Blocks, NEW name, NEW type, Lookup(m, name) = {}, FreeBlocks(m) # {},
         Len(m.root_dir) # DirEntries, name # Nameless
  PROVE  LET b == Min(FreeBlocks(m))
             n == NewFile(m, name, type)
             a == AllocBlock(m)
         IN /\ n.fat = a.fat /\ n.free_blocks = a.free_blocks /\ n.magic = a.magic
            /\ n.root_dir = Append(m.root_dir, NewEntry(name, b, type))
            /\ n.data = [m.data EXCEPT ![b] = [o \in Offset |-> 0]]
            /\ n = [magic |-> n.magic, free_blocks |-> n.free_blocks, fat |-> n.fat,
                    root_dir |-> n.root_dir, data |-> n.data]
<1>1. PICK a : a = AllocBlock(m)
  OBVIOUS
<1>2. a \in Blocks /\ a.root_dir = m.root_dir /\ a.data = m.data
  BY <1>1, AllocEffect
<1>3. NewFile(m, name, type) =
        [[a EXCEPT !.root_dir = Append(@, NewEntry(name, Min(FreeBlocks(m)), type))]
            EXCEPT !.data[Min(FreeBlocks(m))] = [o \in Offset |-> 0]]
  BY <1>1 DEF NewFile, AddDirEntry, NewEntry
<1> QED BY <1>1, <1>2, <1>3 DEF Blocks

LEMMA NamelessFileIs ==
  ASSUME NEW m \in Blocks, NEW type, Lookup(m, Nameless) = {}, FreeBlocks(m) # {},
         Len(m.root_dir) # DirEntries
  PROVE  LET b == Min(FreeBlocks(m))
             n == NewFile(m, Nameless, type)
             a == AllocBlock(m)
         IN /\ n.fat = a.fat /\ n.free_blocks = a.free_blocks /\ n.magic = a.magic
            /\ n.root_dir = m.root_dir
            /\ n.data = [m.data EXCEPT ![b] = [o \in Offset |-> 0]]
            /\ n = [magic |-> n.magic, free_blocks |-> n.free_blocks, fat |-> n.fat,
                    root_dir |-> n.root_dir, data |-> n.data]
<1>1. PICK a : a = AllocBlock(m)
  OBVIOUS
<1>2. a \in Blocks /\ a.root_dir = m.root_dir /\ a.data = m.data
  BY <1>1, AllocEffect
<1>3. NewFile(m, Nameless, type) = [a EXCEPT !.data[Min(FreeBlocks(m))] = [o \in Offset |-> 0]]
  BY <1>1 DEF NewFile, AddDirEntry
<1> QED BY <1>1, <1>2, <1>3 DEF Blocks

LEMMA NameFacts ==
  /\ \A name \in PathName \ {Nameless} :
       /\ Stored(name) \in Names
       /\ name \in Names => Stored(name) = name
       /\ name \notin Names => Stored(name) \in FullNames
  /\ \A name \in Names : name # Nameless /\ name \notin LongName
  /\ \A m \in Blocks, name \in PathName \ Names : Lookup(m, name) = {}
<1>1. \A m \in Blocks, name \in PathName \ Names : Lookup(m, name) = {}
  <2> TAKE m \in Blocks, name \in PathName \ Names
  <2>1. \A i \in Entries(m) : m.root_dir[i].name \in Names
    BY BlockFacts DEF Entry
  <2> QED BY <2>1 DEF Lookup
<1>2. \A name \in LongName : name.start \in FullNames
  BY DEF LongName
<1> QED BY <1>1, <1>2, SimpleFsAssumption DEF PathName, Stored

(* Where only a free block was taken, all ways are as they were.           *)
LEMMA WaysStay ==
  ASSUME NEW m \in Blocks, Sound(m), NEW b \in FreeBlocks(m), NEW n, n.fat = [m.fat EXCEPT ![b] = EndOfFile]
  PROVE  /\ \A i \in Entries(m) : Walk(n, First(m, i)) = Way(m, i)
         /\ FreeBlocks(n) = FreeBlocks(m) \ {b}
         /\ Older(m.fat, n.fat)
<1>1. b \in DataBlock /\ m.fat[b] = Free /\ m.fat \in Fat
  BY BlockFacts DEF FreeBlocks
<1>2. n.fat \in Fat /\ \A d \in DataBlock : n.fat[d] = IF d = b THEN EndOfFile ELSE m.fat[d]
  BY <1>1 DEF Fat, FatValue
<1>3. ASSUME NEW i \in Entries(m) PROVE Walk(n, First(m, i)) = Way(m, i)
  <2>1. First(m, i) \in FatValue
    BY BlockFacts
  <2>2. ASSUME NEW k \in 0 .. MaxBlocks - 1, Way(m, i)[k] \in DataBlock
        PROVE  n.fat[Way(m, i)[k]] = m.fat[Way(m, i)[k]]
    <3>1. k \in Index
      BY Sizes DEF Index
    <3>2. Way(m, i)[k] # b
      BY <2>2, <3>1, SoundWays
    <3> QED BY <1>2, <2>2, <3>2
  <2> QED BY <1>1, <1>2, <2>1, <2>2, SameWay DEF Way
<1>4. FreeBlocks(n) = FreeBlocks(m) \ {b}
  <2>1. b # Free /\ EndOfFile # Free
    BY <1>1, Sizes
  <2>2. \A d \in DataBlock : n.fat[d] = Free <=> m.fat[d] = Free /\ d # b
    BY <1>2, <2>1
  <2> QED BY <2>2 DEF FreeBlocks
<1> QED BY <1>1, <1>2, <1>3, <1>4 DEF Older

LEMMA DirectoryFullIs ==
  ASSUME NEW m \in Blocks, Sound(m), FreeBlocks(m) # {}
  PROVE  FreeBlock(AllocBlock(m), Min(FreeBlocks(m))) = m
<1> DEFINE b == Min(FreeBlocks(m))
<1>1. /\ b \in DataBlock /\ m.fat[b] = Free
      /\ AllocBlock(m) \in Blocks
      /\ AllocBlock(m).fat = [m.fat EXCEPT ![b] = EndOfFile]
      /\ AllocBlock(m).free_blocks = (m.free_blocks - 1) % CountRange
      /\ AllocBlock(m).magic = m.magic
      /\ AllocBlock(m).root_dir = m.root_dir /\ AllocBlock(m).data = m.data
  BY AllocEffect
<1> HIDE DEF b
<1>2. [AllocBlock(m).fat EXCEPT ![b] = Free] = m.fat
  BY <1>1, BlockFacts DEF Fat
<1>3. (AllocBlock(m).free_blocks + 1) % CountRange = m.free_blocks
  BY <1>1, BlockFacts, CountsBack
<1>4. FreeBlock(AllocBlock(m), b) = m
  BY <1>1, <1>2, <1>3 DEF FreeBlock, Range32, Blocks
<1> QED BY <1>4 DEF b

\* Blocks that a file without a name takes with it.
Taken(m, n, name) == IF name = Nameless THEN FreeBlocks(m) \ FreeBlocks(n) ELSE {}

LEMMA NewFileKeeps ==
  ASSUME NEW m \in Blocks, Sound(m), NEW name \in PathName, NEW type \in {"file", "dir"}
  PROVE  LET n == NewFile(m, name, type) IN
         /\ Grows(m, n)
         /\ \A u : Counted(m, u) => Counted(n, u \cup Taken(m, n, name))
         /\ n = m \/ /\ Lookup(m, name) = {} /\ FreeBlocks(m) # {}
                     /\ n.root_dir = IF name = Nameless THEN m.root_dir
                                     ELSE Append(m.root_dir, NewEntry(name, Min(FreeBlocks(m)), type))
         /\ \A c \in DataBlock \ FreeBlocks(m) : n.data[c] = m.data[c]
         /\ \A i \in Entries(m) : n.root_dir[i] = m.root_dir[i]
<1> DEFINE n == NewFile(m, name, type)
<1>1. ASSUME n = m
      PROVE  Grows(m, n) /\ \A u : Counted(m, u) => Counted(n, u \cup Taken(m, n, name))
  <2>1. Taken(m, n, name) = {}
    BY <1>1 DEF Taken
  <2>2. \A u : u \cup {} = u
    OBVIOUS
  <2> HIDE DEF n
  <2> QED BY <1>1, <2>1, <2>2, ExtendsSelf DEF Grows
<1>2. CASE Lookup(m, name) # {} \/ FreeBlocks(m) = {}
  <2>1. n = m
    BY <1>2 DEF NewFile
  <2> QED BY <1>1, <2>1
<1>3. CASE Lookup(m, name) = {} /\ FreeBlocks(m) # {} /\ Len(m.root_dir) = DirEntries
  <2>1. n = m
    BY <1>3, DirectoryFullIs DEF NewFile
  <2> QED BY <1>1, <2>1
<1>4. CASE Lookup(m, name) = {} /\ FreeBlocks(m) # {} /\ Len(m.root_dir) # DirEntries /\ name = Nameless
  <2> DEFINE b == Min(FreeBlocks(m))
  <2>1. /\ b \in DataBlock /\ b \in FreeBlocks(m)
        /\ AllocBlock(m) \in Blocks
        /\ AllocBlock(m).fat = [m.fat EXCEPT ![b] = EndOfFile]
        /\ AllocBlock(m).free_blocks = (m.free_blocks - 1) % CountRange
    BY <1>4, AllocEffect
  <2>2. /\ n.fat = AllocBlock(m).fat /\ n.free_blocks = AllocBlock(m).free_blocks
        /\ n.magic = AllocBlock(m).magic
        /\ n.root_dir = m.root_dir
        /\ n.data = [m.data EXCEPT ![b] = [o \in Offset |-> 0]]
        /\ n = [magic |-> n.magic, free_blocks |-> n.free_blocks, fat |-> n.fat,
                root_dir |-> n.root_dir, data |-> n.data]
    BY <1>4, NamelessFileIs
  <2> HIDE DEF b, n
  <2>3. \A c \in DataBlock \ {b} : n.data[c] = m.data[c]
    BY <2>2, BlockFacts
  <2>4. n \in Blocks
    <3>1. n.data \in [DataBlock -> [Offset -> Bytes \cup {0}]]
      BY <2>2, BlockFacts
    <3>2. /\ n.fat \in [DataBlock -> FatValue] /\ n.free_blocks \in 0 .. CountRange - 1 /\ n.magic \in BOOLEAN
          /\ n.root_dir \in Seq([name : Names, first_block : DataBlock \cup {0}, size : 0 .. MaxSize,
                                 type : {"file", "dir"}])
      BY <2>1, <2>2 DEF Blocks
    <3> QED BY <2>2, <3>1, <3>2 DEF Blocks
  <2>5. /\ \A i \in Entries(m) : Walk(n, First(m, i)) = Way(m, i)
        /\ FreeBlocks(n) = FreeBlocks(m) \ {b}
        /\ Older(m.fat, n.fat)
    <3>1. n.fat = [m.fat EXCEPT ![b] = EndOfFile] /\ b \in FreeBlocks(m)
      BY <2>1, <2>2
    <3> QED BY <3>1, WaysStay
  <2>6. Entries(n) = Entries(m) /\ \A i \in Entries(m) : SameEntry(m, n, i) /\ Way(n, i) = Way(m, i)
    BY <2>2, <2>5 DEF Entries, SameEntry, Way, First
  <2>7. Sound(n) /\ Extends(m, n)
    BY <2>6 DEF Sound, Extends, SameEntry
  <2>8. Taken(m, n, name) = {b}
    BY <1>4, <2>1, <2>5 DEF Taken
  <2>9. ASSUME NEW u, Counted(m, u) PROVE Counted(n, u \cup {b})
    <3>1. n.free_blocks = Cardinality(FreeBlocks(n)) + (MaxBlocks - FatEntries)
      BY <1>4, <2>1, <2>2, <2>5, <2>9, CountsDown DEF Counted
    <3>2. \A d \in (DataBlock \ FreeBlocks(n)) \ (u \cup {b}) : \E i \in Entries(n), k \in Index : d = Way(n, i)[k]
      BY <2>5, <2>6, <2>9 DEF Counted
    <3> QED BY <3>1, <3>2 DEF Counted
  <2> QED BY <1>4, <2>1, <2>2, <2>3, <2>4, <2>5, <2>7, <2>8, <2>9 DEF Grows, n, b
<1>5. CASE Lookup(m, name) = {} /\ FreeBlocks(m) # {} /\ Len(m.root_dir) # DirEntries /\ name # Nameless
  <2> DEFINE b == Min(FreeBlocks(m))
             e == NewEntry(name, b, type)
             last == Len(m.root_dir) + 1
  <2>1. /\ b \in DataBlock /\ m.fat[b] = Free /\ b \in FreeBlocks(m)
        /\ AllocBlock(m) \in Blocks
        /\ AllocBlock(m).fat = [m.fat EXCEPT ![b] = EndOfFile]
        /\ AllocBlock(m).free_blocks = (m.free_blocks - 1) % CountRange
        /\ FreeBlocks(AllocBlock(m)) = FreeBlocks(m) \ {b}
    BY <1>5, AllocEffect
  <2>2. /\ n.fat = AllocBlock(m).fat /\ n.free_blocks = AllocBlock(m).free_blocks
        /\ n.magic = AllocBlock(m).magic
        /\ n.root_dir = Append(m.root_dir, e)
        /\ n.data = [m.data EXCEPT ![b] = [o \in Offset |-> 0]]
        /\ n = [magic |-> n.magic, free_blocks |-> n.free_blocks, fat |-> n.fat,
                root_dir |-> n.root_dir, data |-> n.data]
    BY <1>5, NewFileIs
  <2> HIDE DEF b, n
  <2>3. e \in Entry
    BY <1>5, <2>1, NameFacts, Sizes DEF NewEntry, Entry
  <2> HIDE DEF e
  <2>4. /\ n.root_dir \in Seq(Entry) /\ Len(n.root_dir) = last
        /\ \A i \in Entries(m) : n.root_dir[i] = m.root_dir[i]
        /\ n.root_dir[last] = e
        /\ Entries(n) = 1 .. last /\ Entries(m) = 1 .. last - 1 /\ last \in Nat
    <3>1. m.root_dir \in Seq(Entry) /\ Len(m.root_dir) \in Nat /\ Entries(m) = 1 .. Len(m.root_dir)
      BY BlockFacts
    <3> QED BY <2>2, <2>3, <3>1 DEF Entries
  <2>5. \A c \in DataBlock \ {b} : n.data[c] = m.data[c]
    BY <2>2, BlockFacts
  <2>6. n \in Blocks
    <3>1. n.data \in [DataBlock -> [Offset -> Bytes \cup {0}]]
      BY <2>2, BlockFacts
    <3>2. n.fat \in [DataBlock -> FatValue] /\ n.free_blocks \in 0 .. CountRange - 1 /\ n.magic \in BOOLEAN
      BY <2>1, <2>2 DEF Blocks
    <3>3. n.root_dir \in Seq([name : Names, first_block : DataBlock \cup {0}, size : 0 .. MaxSize,
                              type : {"file", "dir"}])
      BY <2>4 DEF Entry
    <3> QED BY <2>2, <3>1, <3>2, <3>3 DEF Blocks
  <2>7. m.fat \in Fat /\ n.fat \in Fat
    BY <2>6, BlockFacts
  <2>8. \A d \in DataBlock : n.fat[d] = IF d = b THEN EndOfFile ELSE m.fat[d]
    BY <2>1, <2>2, <2>7 DEF Fat
  <2>18. /\ \A i \in Entries(m) : Walk(n, First(m, i)) = Way(m, i)
        /\ FreeBlocks(n) = FreeBlocks(m) \ {b}
        /\ Older(m.fat, n.fat)
    <3>1. n.fat = [m.fat EXCEPT ![b] = EndOfFile] /\ b \in FreeBlocks(m)
      BY <2>1, <2>2
    <3> QED BY <3>1, WaysStay
  <2>9. ASSUME NEW i \in Entries(m)
        PROVE  SameEntry(m, n, i) /\ First(n, i) = First(m, i) /\ Way(n, i) = Way(m, i)
    <3>1. SameEntry(m, n, i) /\ First(n, i) = First(m, i)
      BY <2>4 DEF SameEntry, First
    <3> QED BY <2>18, <3>1 DEF Way
  <2>10. First(n, last) = b /\ n.root_dir[last].name = Stored(name)
    BY <2>4 DEF First, NewEntry, e
  <2>11. Way(n, last) = [k \in Index |-> IF k = 0 THEN b ELSE EndOfFile]
    <3> DEFINE f == [k \in Index |-> IF k = 0 THEN b ELSE EndOfFile]
    <3>1. b \in FatValue /\ f \in [Index -> FatValue]
      BY <2>1 DEF FatValue
    <3>2. f[0] = b
      BY Sizes DEF Index
    <3>3. ASSUME NEW k \in 0 .. MaxBlocks - 1 PROVE f[k + 1] = Step(n.fat, f[k])
      <4>1. k \in Index /\ k + 1 \in Index /\ k + 1 # 0
        BY Sizes DEF Index
      <4>2. f[k + 1] = EndOfFile /\ f[k] = IF k = 0 THEN b ELSE EndOfFile
        BY <4>1
      <4> QED BY <2>1, <2>8, <4>2, Sizes DEF Step
    <3> HIDE DEF f
    <3>4. Walk(n, b) = f
      BY <2>7, <3>1, <3>2, <3>3, WalkIs
    <3> QED BY <2>10, <3>4 DEF Way, f
  <2>12. \A k \in Index : Way(n, last)[k] \in DataBlock => k = 0 /\ Way(n, last)[k] = b
    BY <2>11, Sizes
  <2>13. \A i \in Entries(m), k \in Index : Way(n, i)[k] # b
    BY <2>1, <2>9, SoundWays
  <2>14. \A i \in Entries(n) : i \in Entries(m) \/ i = last
    BY <2>4
  <2>15. Sound(n)
    <3>1. ASSUME NEW i \in Entries(n) PROVE Way(n, i)[MaxBlocks] = EndOfFile
      <4>1. CASE i \in Entries(m)
        BY <2>9, <4>1 DEF Sound
      <4>2. CASE i = last
        <5>1. MaxBlocks \in Index /\ MaxBlocks # 0
          BY Sizes DEF Index
        <5> QED BY <2>11, <4>2, <5>1
      <4> QED BY <2>14, <4>1, <4>2
    <3>2. ASSUME NEW i \in Entries(n), NEW j \in Entries(n), NEW k \in Index, NEW l \in Index,
                 Way(n, i)[k] \in DataBlock, Way(n, i)[k] = Way(n, j)[l]
          PROVE  i = j /\ k = l
      <4>1. CASE i \in Entries(m) /\ j \in Entries(m)
        BY <2>9, <3>2, <4>1 DEF Sound
      <4>2. CASE i = last \/ j = last
        <5>1. Way(n, i)[k] = b /\ Way(n, j)[l] = b
          BY <2>12, <3>2, <4>2
        <5>2. i = last /\ j = last
          BY <2>13, <2>14, <5>1
        <5> QED BY <2>12, <3>2, <5>2
      <4> QED BY <2>14, <4>1, <4>2
    <3>3. ASSUME NEW i \in Entries(n), NEW j \in Entries(n), n.root_dir[i].name = n.root_dir[j].name
          PROVE  i = j \/ n.root_dir[i].name \in FullNames
      <4>1. \A g \in Entries(m) : n.root_dir[g].name = m.root_dir[g].name /\ m.root_dir[g].name # name
        BY <1>5, <2>9 DEF SameEntry, Lookup
      <4>2. CASE i \in Entries(m) /\ j \in Entries(m)
        BY <3>3, <4>1, <4>2 DEF Sound
      <4>3. CASE i = last \/ j = last
        <5>1. CASE name \in Names
          <6>1. Stored(name) = name
            BY <1>5, <5>1, NameFacts
          <6> QED BY <2>10, <2>14, <3>3, <4>1, <4>3, <6>1
        <5>2. CASE name \notin Names
          BY <1>5, <2>10, <3>3, <4>3, <5>2, NameFacts
        <5> QED BY <5>1, <5>2
      <4> QED BY <2>14, <4>2, <4>3
    <3> QED BY <3>1, <3>2, <3>3 DEF Sound
  <2>16. Extends(m, n)
    BY <2>4, <2>9 DEF Extends
  <2>17. ASSUME NEW u, Counted(m, u) PROVE Counted(n, u)
    <3>1. FreeBlocks(n) = FreeBlocks(m) \ {b}
      BY <2>18
    <3>2. n.free_blocks = Cardinality(FreeBlocks(n)) + (MaxBlocks - FatEntries)
      BY <1>5, <2>1, <2>2, <2>17, <3>1, CountsDown DEF Counted
    <3>3. ASSUME NEW d \in (DataBlock \ FreeBlocks(n)) \ u
          PROVE  \E i \in Entries(n), k \in Index : d = Way(n, i)[k]
      <4>1. CASE d = b
        <5>1. 0 \in Index /\ last \in Entries(n)
          BY <2>4, Sizes DEF Index
        <5>2. Way(n, last)[0] = b
          BY <2>11, <5>1
        <5> QED BY <4>1, <5>1, <5>2
      <4>2. CASE d # b
        <5>1. PICK i \in Entries(m), k \in Index : d = Way(m, i)[k]
          BY <2>17, <3>1, <4>2 DEF Counted
        <5> QED BY <2>4, <2>9, <5>1
      <4> QED BY <4>1, <4>2
    <3> QED BY <3>2, <3>3 DEF Counted
  <2>19. \A u : Counted(m, u) => Counted(n, u \cup Taken(m, n, name))
    <3>1. Taken(m, n, name) = {}
      BY <1>5 DEF Taken
    <3>2. \A u : u \cup {} = u
      OBVIOUS
    <3> QED BY <2>17, <3>1, <3>2
  <2> QED BY <1>5, <2>1, <2>2, <2>4, <2>5, <2>6, <2>15, <2>16, <2>18, <2>19 DEF Grows, n, b, e
<1> QED BY <1>2, <1>3, <1>4, <1>5

-----------------------------------------------------------------------------
(* A transfer in file i whose descriptor is at the k-th block of its way.  *)
Transfers == [mem : Blocks, fd : Descriptor, stopped : BOOLEAN]

At(s, i, k) ==
  /\ s \in Transfers /\ Sound(s.mem) /\ i \in Entries(s.mem) /\ k \in Index
  /\ s.fd.first_block = First(s.mem, i) /\ s.fd.current_block = Way(s.mem, i)[k]

Put(s, byte) ==
  [s EXCEPT !.mem.data[s.fd.current_block][s.fd.position % BlockSize] = byte,
            !.fd.position = @ + 1,
            !.fd.file_size = Larger(@, s.fd.position + 1)]

\* Where byte o of block b is byte p of the file whose way is w.
PlaceOf(w, p, b, o) == b = w[p \div BlockSize] /\ o = p % BlockSize

LEMMA KeepsSelf == ASSUME NEW m \in Blocks, Sound(m) PROVE Keeps(m, m)
BY ExtendsSelf DEF Keeps, Grows

LEMMA KeepsFurther ==
  ASSUME NEW m, NEW n, NEW o, Keeps(m, n), Keeps(n, o)
  PROVE  Keeps(m, o)
BY ExtendsFurther, OlderFurther DEF Keeps, Grows

LEMMA GrowsFurther ==
  ASSUME NEW m, NEW n, NEW o, Grows(m, n), Grows(n, o)
  PROVE  Grows(m, o)
BY ExtendsFurther, OlderFurther DEF Grows

LEMMA Parts ==
  /\ \A p \in Nat : /\ p \div BlockSize \in Nat /\ p % BlockSize \in Offset
                    /\ p = (BlockSize * (p \div BlockSize)) + (p % BlockSize)
  /\ \A p \in Nat : IF (p + 1) % BlockSize = 0 THEN (p + 1) \div BlockSize = p \div BlockSize + 1
                    ELSE (p + 1) \div BlockSize = p \div BlockSize
  /\ 0 \div BlockSize = 0 /\ 0 % BlockSize = 0
<1>1. BlockSize \in Nat /\ BlockSize > 0
  BY Sizes
<1>2. ASSUME NEW p \in Nat
      PROVE  /\ p \div BlockSize \in Nat /\ p % BlockSize \in Offset
             /\ p = (BlockSize * (p \div BlockSize)) + (p % BlockSize)
  BY <1>1 DEF Offset
<1>3. ASSUME NEW p \in Nat
      PROVE  IF (p + 1) % BlockSize = 0 THEN (p + 1) \div BlockSize = p \div BlockSize + 1
             ELSE (p + 1) \div BlockSize = p \div BlockSize
  BY <1>1
<1>4. 0 \div BlockSize = 0 /\ 0 % BlockSize = 0
  BY <1>1
<1> QED BY <1>2, <1>3, <1>4

LEMMA SamePlace ==
  ASSUME NEW p \in Nat, NEW q \in Nat, p \div BlockSize = q \div BlockSize,
         p % BlockSize = q % BlockSize
  PROVE  p = q
BY Parts

(* One byte is written: nothing but this byte of this block changes.       *)
LEMMA PutKeeps ==
  ASSUME NEW s, NEW i, NEW k, At(s, i, k), NEW byte \in Bytes, s.fd.position + 1 <= MaxSize
  PROVE  LET t == Put(s, byte) IN
         /\ At(t, i, k) /\ Keeps(s.mem, t.mem)
         /\ \A j \in Entries(s.mem) : Way(t.mem, j) = Way(s.mem, j)
         /\ t.mem.root_dir = s.mem.root_dir /\ t.stopped = s.stopped
         /\ t.fd.position = s.fd.position + 1
         /\ t.fd.file_size = Larger(s.fd.file_size, s.fd.position + 1)
         /\ t.fd.first_block = s.fd.first_block /\ t.fd.mode = s.fd.mode
         /\ \A b \in DataBlock, o \in Offset :
              t.mem.data[b][o] = IF b = s.fd.current_block /\ o = s.fd.position % BlockSize
                                 THEN byte ELSE s.mem.data[b][o]
<1> DEFINE t == Put(s, byte)
           c == s.fd.current_block
           at == s.fd.position % BlockSize
           size == Larger(s.fd.file_size, s.fd.position + 1)
           data == [s.mem.data EXCEPT ![c] = [@ EXCEPT ![at] = byte]]
           fd == [s.fd EXCEPT !.position = s.fd.position + 1, !.file_size = size]
           m == [s.mem EXCEPT !.data = data]
<1>1. /\ s.mem \in Blocks /\ s.fd \in Descriptor /\ Sound(s.mem) /\ i \in Entries(s.mem)
      /\ s.stopped \in BOOLEAN /\ s = [mem |-> s.mem, fd |-> s.fd, stopped |-> s.stopped]
  BY DEF At, Transfers
<1>2. /\ s.fd.position \in Nat /\ s.fd.position + 1 \in 0 .. MaxSize
      /\ s.fd.file_size \in 0 .. MaxSize /\ c \in DataBlock
  BY <1>1, Sizes DEF Descriptor
<1>3. at \in Offset /\ size \in 0 .. MaxSize
  BY <1>2, Parts DEF Larger
<1>4. t = [mem |-> m, fd |-> fd, stopped |-> s.stopped]
  <2> DEFINE s1 == [s EXCEPT !.mem = m]
             s2 == [s1 EXCEPT !.fd = [s1.fd EXCEPT !.position = s1.fd.position + 1]]
             g == [s2.fd EXCEPT !.file_size = Larger(s2.fd.file_size, s.fd.position + 1)]
             s3 == [s2 EXCEPT !.fd = g]
  <2>1. t = s3
    BY DEF Put
  <2> HIDE DEF m, t
  <2>2. s1 = [mem |-> m, fd |-> s.fd, stopped |-> s.stopped]
    BY <1>1
  <2> HIDE DEF s1
  <2>3. s2 = [mem |-> m, fd |-> [s.fd EXCEPT !.position = s.fd.position + 1], stopped |-> s.stopped]
    BY <2>2
  <2> HIDE DEF s2
  <2>4. s2.fd.file_size = s.fd.file_size /\ s2.fd = [s.fd EXCEPT !.position = s.fd.position + 1]
    BY <1>1, <2>3 DEF Descriptor
  <2>5. g = fd
    BY <1>1, <2>4 DEF Descriptor
  <2> HIDE DEF g
  <2>6. s3 = [mem |-> m, fd |-> g, stopped |-> s.stopped]
    BY <2>3
  <2> QED BY <2>1, <2>5, <2>6
<1>5. /\ m.magic = s.mem.magic /\ m.free_blocks = s.mem.free_blocks /\ m.fat = s.mem.fat
      /\ m.root_dir = s.mem.root_dir /\ m.data = data
      /\ m = [magic |-> s.mem.magic, free_blocks |-> s.mem.free_blocks, fat |-> s.mem.fat,
              root_dir |-> s.mem.root_dir, data |-> data]
  <2> HIDE DEF data
  <2> QED BY <1>1 DEF Blocks
<1>6. s.mem.data \in [DataBlock -> [Offset -> Bytes \cup {0}]]
  BY <1>1, BlockFacts
<1>7. /\ data \in [DataBlock -> [Offset -> Bytes \cup {0}]]
      /\ \A b \in DataBlock, o \in Offset :
           data[b][o] = IF b = c /\ o = at THEN byte ELSE s.mem.data[b][o]
  <2> HIDE DEF c, at
  <2> QED BY <1>2, <1>3, <1>6
<1>8. /\ fd \in Descriptor /\ fd.first_block = s.fd.first_block /\ fd.current_block = c
  <2> HIDE DEF size
  <2> QED BY <1>1, <1>2, <1>3 DEF Descriptor
<1> HIDE DEF data, fd, m
<1>9. m \in Blocks
  BY <1>1, <1>5, <1>7 DEF Blocks
<1>10. Keeps(s.mem, m) /\ Sound(m) /\ \A j \in Entries(s.mem) : Way(m, j) = Way(s.mem, j)
  <2>1. Entries(m) = Entries(s.mem) /\ \A j \in Entries(m) : SameEntry(s.mem, m, j)
    BY <1>5 DEF Entries, SameEntry
  <2>2. Keeps(s.mem, m) /\ \A j \in Entries(s.mem) : Way(m, j) = Way(s.mem, j)
    BY <1>1, <1>5, <1>9, <2>1, SameTable
  <2> QED BY <2>2 DEF Keeps, Grows
<1>11. t.mem = m /\ t.fd = fd /\ t.stopped = s.stopped /\ t \in Transfers
  <2> HIDE DEF t
  <2> QED BY <1>1, <1>4, <1>8, <1>9 DEF Transfers
<1>12. First(m, i) = First(s.mem, i) /\ i \in Entries(m)
  BY <1>1, <1>5 DEF First, Entries
<1>13. At(t, i, k)
  <2> HIDE DEF t
  <2> QED BY <1>1, <1>8, <1>10, <1>11, <1>12 DEF At
<1>14. /\ fd.position = s.fd.position + 1 /\ fd.file_size = size /\ fd.mode = s.fd.mode
       /\ fd.first_block = s.fd.first_block
  <2> HIDE DEF size
  <2> QED BY <1>1 DEF fd, Descriptor
<1> HIDE DEF t
<1>15. \A b \in DataBlock, o \in Offset :
         t.mem.data[b][o] = IF b = c /\ o = at THEN byte ELSE s.mem.data[b][o]
  BY <1>5, <1>7, <1>11
<1> QED BY <1>5, <1>10, <1>11, <1>13, <1>14, <1>15 DEF t

LEMMA NextBlockKeeps ==
  ASSUME NEW s, NEW i, NEW k, At(s, i, k), ~s.stopped
  PROVE  LET t == NextBlock(s) IN
         /\ Keeps(s.mem, t.mem) /\ t.mem.root_dir = s.mem.root_dir /\ t.mem.data = s.mem.data
         /\ t.fd.position = s.fd.position /\ t.fd.file_size = s.fd.file_size
         /\ t.fd.first_block = s.fd.first_block /\ t.fd.mode = s.fd.mode
         /\ IF t.stopped THEN At(t, i, k) ELSE k + 1 \in Index /\ At(t, i, k + 1)
<1> DEFINE c == s.fd.current_block
           b == Min(FreeBlocks(s.mem))
           n == [AllocBlock(s.mem) EXCEPT !.fat[c] = b]
           next == s.mem.fat[c]
<1>1. /\ s.mem \in Blocks /\ s.fd \in Descriptor /\ Sound(s.mem) /\ i \in Entries(s.mem) /\ k \in Index
      /\ s.stopped = FALSE /\ s = [mem |-> s.mem, fd |-> s.fd, stopped |-> s.stopped]
      /\ s.fd.first_block = First(s.mem, i) /\ c = Way(s.mem, i)[k]
  BY DEF At, Transfers
<1>2. c \in DataBlock
  BY <1>1 DEF Descriptor
<1>3. k + 1 \in Index /\ next = Way(s.mem, i)[k + 1] /\ Way(s.mem, i)[k + 1] \in DataBlock \cup {EndOfFile}
  BY <1>1, <1>2, SoundWays
<1>4. Keeps(s.mem, s.mem)
  BY <1>1, KeepsSelf
<1>5. CASE next # EndOfFile
  <2>1. NextBlock(s) = [s EXCEPT !.fd.current_block = next]
    BY <1>5 DEF NextBlock
  <2> DEFINE fd == [s.fd EXCEPT !.current_block = next]
             t == [mem |-> s.mem, fd |-> fd, stopped |-> FALSE]
  <2>2. NextBlock(s) = t
    BY <1>1, <2>1
  <2>3. /\ fd \in Descriptor /\ fd.first_block = s.fd.first_block /\ fd.position = s.fd.position
        /\ fd.file_size = s.fd.file_size /\ fd.mode = s.fd.mode /\ fd.current_block = next
    BY <1>1, <1>3, <1>5 DEF Descriptor
  <2> HIDE DEF fd
  <2>4. At(t, i, k + 1)
    BY <1>1, <1>3, <2>3 DEF At, Transfers
  <2> QED BY <1>3, <1>4, <2>2, <2>3, <2>4
<1>6. CASE next = EndOfFile /\ FreeBlocks(s.mem) = {}
  <2>1. NextBlock(s) = [s EXCEPT !.stopped = TRUE]
    BY <1>6 DEF NextBlock
  <2> DEFINE t == [mem |-> s.mem, fd |-> s.fd, stopped |-> TRUE]
  <2>2. NextBlock(s) = t
    BY <1>1, <2>1
  <2>3. At(t, i, k)
    BY <1>1 DEF At, Transfers
  <2> QED BY <1>4, <2>2, <2>3
<1>7. CASE next = EndOfFile /\ FreeBlocks(s.mem) # {}
  <2>1. NextBlock(s) = [s EXCEPT !.mem = n, !.fd.current_block = b]
    BY <1>7 DEF NextBlock
  <2>2. Keeps(s.mem, n) /\ b \in DataBlock /\ Way(n, i)[k + 1] = b
        /\ n.root_dir = s.mem.root_dir /\ n.data = s.mem.data
    BY <1>1, <1>2, <1>7, LinkKeeps
  <2> DEFINE fd == [s.fd EXCEPT !.current_block = b]
             t == [mem |-> n, fd |-> fd, stopped |-> FALSE]
  <2> HIDE DEF b, n
  <2>3. NextBlock(s) = t
    BY <1>1, <2>1
  <2>4. /\ fd \in Descriptor /\ fd.first_block = s.fd.first_block /\ fd.position = s.fd.position
        /\ fd.file_size = s.fd.file_size /\ fd.mode = s.fd.mode /\ fd.current_block = b
    BY <1>1, <2>2 DEF Descriptor
  <2> HIDE DEF fd
  <2>5. n \in Blocks /\ Sound(n) /\ i \in Entries(n) /\ First(n, i) = First(s.mem, i)
    BY <1>1, <2>2 DEF Keeps, Grows, Extends, SameEntry, First
  <2>6. At(t, i, k + 1)
    BY <1>1, <1>3, <2>2, <2>4, <2>5 DEF At, Transfers
  <2> QED BY <1>3, <2>2, <2>3, <2>4, <2>6
<1> QED BY <1>5, <1>6, <1>7

-----------------------------------------------------------------------------
(* Induction up to n, over the numbers that have a property.               *)
LEMMA UpTo ==
  ASSUME NEW n \in Nat, NEW S, 0 \in S, \A k \in 0 .. n - 1 : k \in S => k + 1 \in S
  PROVE  \A k \in 0 .. n : k \in S
<1> DEFINE Out == { k \in 0 .. n : k \notin S }
<1> SUFFICES ASSUME Out # {} PROVE FALSE
  OBVIOUS
<1>1. Out \subseteq Nat
  OBVIOUS
<1>2. PICK k \in Out : \A j \in Out : k <= j
  BY <1>1, LeastNumber
<1>3. k - 1 \in 0 .. n - 1 /\ k - 1 \in 0 .. n /\ k - 1 \notin Out /\ (k - 1) + 1 = k
  BY <1>2
<1> QED BY <1>2, <1>3

LEMMA WriteLoopIs ==
  ASSUME NEW start, NEW byte, NEW count \in Nat
  PROVE  LET s == WriteLoop(start, byte, count) IN
         s[0] = start /\ \A n \in 0 .. count - 1 : s[n + 1] = WriteByte(s[n], byte, n + 1 < count)
<1> DEFINE Loop(s, n) == /\ DOMAIN s = 0 .. n /\ s[0] = start
                         /\ \A k \in 1 .. n : s[k] = WriteByte(s[k - 1], byte, k < count)
           S == { n \in 0 .. count : \E s : Loop(s, n) /\ s = [k \in DOMAIN s |-> s[k]] }
<1>1. 0 \in S
  <2> DEFINE f == [k \in 0 .. 0 |-> start]
  <2>1. Loop(f, 0) /\ f = [k \in DOMAIN f |-> f[k]]
    OBVIOUS
  <2> HIDE DEF f, Loop
  <2> QED BY <2>1
<1>2. ASSUME NEW n \in 0 .. count - 1, n \in S PROVE n + 1 \in S
  <2>1. PICK s : Loop(s, n)
    BY <1>2
  <2> DEFINE t == [k \in 0 .. n + 1 |-> IF k = n + 1 THEN WriteByte(s[n], byte, n + 1 < count) ELSE s[k]]
  <2>2. t[0] = start
    BY <2>1
  <2>3. ASSUME NEW k \in 1 .. n + 1 PROVE t[k] = WriteByte(t[k - 1], byte, k < count)
    <3>1. k - 1 \in 0 .. n + 1 /\ k - 1 # n + 1
      OBVIOUS
    <3>2. CASE k = n + 1
      BY <3>1, <3>2
    <3>3. CASE k # n + 1
      <4>1. k \in 1 .. n
        BY <3>3
      <4> QED BY <2>1, <3>1, <3>3, <4>1
    <3> QED BY <3>2, <3>3
  <2>4. Loop(t, n + 1) /\ t = [k \in DOMAIN t |-> t[k]]
    BY <2>2, <2>3
  <2> HIDE DEF t, Loop
  <2> QED BY <2>4
<1>3. count \in S
  <2> HIDE DEF S
  <2>1. \A n \in 0 .. count : n \in S
    BY <1>1, <1>2, UpTo
  <2> QED BY <2>1
<1>4. PICK w : Loop(w, count) /\ w = [k \in DOMAIN w |-> w[k]]
  BY <1>3
<1> DEFINE rule(g) == [n \in 0 .. count |-> IF n = 0 THEN start ELSE WriteByte(g[n - 1], byte, n < count)]
<1>5. w = rule(w)
  BY <1>4
<1>6. WriteLoop(start, byte, count) = CHOOSE g : g = rule(g)
  BY DEF WriteLoop
<1> DEFINE v == WriteLoop(start, byte, count)
<1>7. v = rule(v)
  <2> HIDE DEF rule
  <2> QED BY <1>5, <1>6
<1> HIDE DEF v
<1>8. \A n \in 0 .. count : rule(v)[n] = IF n = 0 THEN start ELSE WriteByte(v[n - 1], byte, n < count)
  OBVIOUS
<1> HIDE DEF rule
<1>9. \A n \in 0 .. count : v[n] = IF n = 0 THEN start ELSE WriteByte(v[n - 1], byte, n < count)
  BY <1>7, <1>8
<1>10. v[0] = start
  BY <1>9
<1>11. ASSUME NEW n \in 0 .. count - 1 PROVE v[n + 1] = WriteByte(v[n], byte, n + 1 < count)
  <2>1. n + 1 \in 0 .. count /\ n + 1 # 0 /\ (n + 1) - 1 = n
    OBVIOUS
  <2> QED BY <1>9, <2>1
<1> QED BY <1>10, <1>11 DEF v

LEMMA ReadLoopIs ==
  ASSUME NEW start, NEW count \in Nat
  PROVE  LET s == ReadLoop(start, count) IN
         s[0] = start /\ \A n \in 0 .. count - 1 : s[n + 1] = ReadByte(s[n])
<1> DEFINE Loop(s, n) == /\ DOMAIN s = 0 .. n /\ s[0] = start
                         /\ \A k \in 1 .. n : s[k] = ReadByte(s[k - 1])
           S == { n \in 0 .. count : \E s : Loop(s, n) /\ s = [k \in DOMAIN s |-> s[k]] }
<1>1. 0 \in S
  <2> DEFINE f == [k \in 0 .. 0 |-> start]
  <2>1. Loop(f, 0) /\ f = [k \in DOMAIN f |-> f[k]]
    OBVIOUS
  <2> HIDE DEF f, Loop
  <2> QED BY <2>1
<1>2. ASSUME NEW n \in 0 .. count - 1, n \in S PROVE n + 1 \in S
  <2>1. PICK s : Loop(s, n)
    BY <1>2
  <2> DEFINE t == [k \in 0 .. n + 1 |-> IF k = n + 1 THEN ReadByte(s[n]) ELSE s[k]]
  <2>2. t[0] = start
    BY <2>1
  <2>3. ASSUME NEW k \in 1 .. n + 1 PROVE t[k] = ReadByte(t[k - 1])
    <3>1. k - 1 \in 0 .. n + 1 /\ k - 1 # n + 1
      OBVIOUS
    <3>2. CASE k = n + 1
      BY <3>1, <3>2
    <3>3. CASE k # n + 1
      <4>1. k \in 1 .. n
        BY <3>3
      <4> QED BY <2>1, <3>1, <3>3, <4>1
    <3> QED BY <3>2, <3>3
  <2>4. Loop(t, n + 1) /\ t = [k \in DOMAIN t |-> t[k]]
    BY <2>2, <2>3
  <2> HIDE DEF t, Loop
  <2> QED BY <2>4
<1>3. count \in S
  <2> HIDE DEF S
  <2>1. \A n \in 0 .. count : n \in S
    BY <1>1, <1>2, UpTo
  <2> QED BY <2>1
<1>4. PICK w : Loop(w, count) /\ w = [k \in DOMAIN w |-> w[k]]
  BY <1>3
<1> DEFINE rule(g) == [n \in 0 .. count |-> IF n = 0 THEN start ELSE ReadByte(g[n - 1])]
<1>5. w = rule(w)
  BY <1>4
<1>6. ReadLoop(start, count) = CHOOSE g : g = rule(g)
  BY DEF ReadLoop
<1> DEFINE v == ReadLoop(start, count)
<1>7. v = rule(v)
  <2> HIDE DEF rule
  <2> QED BY <1>5, <1>6
<1> HIDE DEF v
<1>8. \A n \in 0 .. count : rule(v)[n] = IF n = 0 THEN start ELSE ReadByte(v[n - 1])
  OBVIOUS
<1> HIDE DEF rule
<1>9. \A n \in 0 .. count : v[n] = IF n = 0 THEN start ELSE ReadByte(v[n - 1])
  BY <1>7, <1>8
<1>10. v[0] = start
  BY <1>9
<1>11. ASSUME NEW n \in 0 .. count - 1 PROVE v[n + 1] = ReadByte(v[n])
  <2>1. n + 1 \in 0 .. count /\ n + 1 # 0 /\ (n + 1) - 1 = n
    OBVIOUS
  <2> QED BY <1>9, <2>1
<1> QED BY <1>10, <1>11 DEF v

-----------------------------------------------------------------------------
(* One byte of fs_write, and all it does.                                  *)
ByteWritten(s, t, i, k, byte, more) ==
  LET edge == more /\ (s.fd.position + 1) % BlockSize = 0
  IN /\ Keeps(s.mem, t.mem) /\ t.mem.root_dir = s.mem.root_dir
     /\ t.fd.first_block = s.fd.first_block /\ t.fd.mode = s.fd.mode
     /\ t.fd.position = s.fd.position + 1
     /\ t.fd.file_size = Larger(s.fd.file_size, s.fd.position + 1)
     /\ \A b \in DataBlock, o \in Offset :
          t.mem.data[b][o] = IF b = s.fd.current_block /\ o = s.fd.position % BlockSize
                             THEN byte ELSE s.mem.data[b][o]
     /\ IF edge /\ ~t.stopped THEN k + 1 \in Index /\ At(t, i, k + 1) ELSE At(t, i, k)
     /\ t.stopped => edge

LEMMA WriteByteKeeps ==
  ASSUME NEW s, NEW i, NEW k, At(s, i, k), NEW byte \in Bytes, NEW more \in BOOLEAN,
         s.fd.position + 1 <= MaxSize, ~s.stopped
  PROVE  ByteWritten(s, WriteByte(s, byte, more), i, k, byte, more)
<1> DEFINE put == Put(s, byte)
           t == WriteByte(s, byte, more)
           edge == more /\ (s.fd.position + 1) % BlockSize = 0
<1>1. /\ At(put, i, k) /\ Keeps(s.mem, put.mem)
      /\ put.mem.root_dir = s.mem.root_dir /\ put.stopped = s.stopped
      /\ put.fd.first_block = s.fd.first_block /\ put.fd.mode = s.fd.mode
      /\ put.fd.position = s.fd.position + 1
      /\ put.fd.file_size = Larger(s.fd.file_size, s.fd.position + 1)
      /\ \A b \in DataBlock, o \in Offset :
           put.mem.data[b][o] = IF b = s.fd.current_block /\ o = s.fd.position % BlockSize
                                THEN byte ELSE s.mem.data[b][o]
  BY PutKeeps
<1>2. t = IF more /\ put.fd.position % BlockSize = 0 THEN NextBlock(put) ELSE put
  BY DEF WriteByte, Put
<1> HIDE DEF put, t
<1>5. CASE edge
  <2>1. t = NextBlock(put) /\ ~put.stopped
    BY <1>1, <1>2, <1>5
  <2>2. /\ Keeps(put.mem, t.mem) /\ t.mem.root_dir = put.mem.root_dir /\ t.mem.data = put.mem.data
        /\ t.fd.position = put.fd.position /\ t.fd.file_size = put.fd.file_size
        /\ t.fd.first_block = put.fd.first_block /\ t.fd.mode = put.fd.mode
        /\ IF t.stopped THEN At(t, i, k) ELSE k + 1 \in Index /\ At(t, i, k + 1)
    BY <1>1, <2>1, NextBlockKeeps
  <2>3. Keeps(s.mem, t.mem)
    BY <1>1, <2>2, KeepsFurther
  <2>4. \A b \in DataBlock, o \in Offset :
          t.mem.data[b][o] = IF b = s.fd.current_block /\ o = s.fd.position % BlockSize
                             THEN byte ELSE s.mem.data[b][o]
    BY <1>1, <2>2
  <2>5. /\ IF edge /\ ~t.stopped THEN k + 1 \in Index /\ At(t, i, k + 1) ELSE At(t, i, k)
        /\ t.stopped => edge
    BY <1>5, <2>2
  <2>6. /\ t.mem.root_dir = s.mem.root_dir
        /\ t.fd.first_block = s.fd.first_block /\ t.fd.mode = s.fd.mode
        /\ t.fd.position = s.fd.position + 1
        /\ t.fd.file_size = Larger(s.fd.file_size, s.fd.position + 1)
    BY <1>1, <2>2
  <2>7. ByteWritten(s, t, i, k, byte, more)
    BY <2>3, <2>4, <2>5, <2>6 DEF ByteWritten
  <2> QED BY <2>7 DEF t
<1>6. CASE ~edge
  <2>1. t = put
    BY <1>1, <1>2, <1>6
  <2> QED BY <1>1, <1>6, <2>1 DEF t, ByteWritten
<1> QED BY <1>5, <1>6

(* What n bytes of fs_write in file i have done since start.               *)
Wrote(start, s, i, byte, n) ==
  LET p == start.fd.position
      q == s.fd.position
  IN /\ Keeps(start.mem, s.mem) /\ s.mem.root_dir = start.mem.root_dir
     /\ \E k \in Index : At(s, i, k)
     /\ q \in p .. p + n /\ (q = p => n = 0 /\ ~s.stopped) /\ (~s.stopped => q = p + n)
     /\ s.fd.file_size = IF q = p THEN start.fd.file_size ELSE Larger(start.fd.file_size, q)
     /\ s.fd.first_block = start.fd.first_block /\ s.fd.mode = start.fd.mode

\* In bytes, for a descriptor whose block is the one of its position.
WroteBytes(start, s, i, byte, n, count) ==
  LET p == start.fd.position
      q == s.fd.position
  IN /\ \A x \in p .. q - 1 :
          /\ x \div BlockSize \in Index /\ Way(s.mem, i)[x \div BlockSize] \in DataBlock
          /\ s.mem.data[Way(s.mem, i)[x \div BlockSize]][x % BlockSize] = byte
     /\ \A j \in Entries(start.mem), x \in Nat :
          /\ x \div BlockSize \in Index /\ Way(start.mem, j)[x \div BlockSize] \in DataBlock
          /\ ~(j = i /\ x \in p .. q - 1)
          => s.mem.data[Way(start.mem, j)[x \div BlockSize]][x % BlockSize]
               = start.mem.data[Way(start.mem, j)[x \div BlockSize]][x % BlockSize]
     /\ ~s.stopped /\ n < count => At(s, i, q \div BlockSize)

LEMMA LargerTwice ==
  ASSUME NEW a \in Nat, NEW b \in Nat
  PROVE  Larger(Larger(a, b), b + 1) = Larger(a, b + 1) /\ Larger(a, b) \in Nat
BY DEF Larger

LEMMA WroteOneMore ==
  ASSUME NEW start, NEW s, NEW i, NEW byte \in Bytes, NEW n \in Nat, NEW count \in Nat, n < count,
         start \in Transfers, start.fd.position + count <= MaxSize,
         Wrote(start, s, i, byte, n), NEW more \in BOOLEAN, more = (n + 1 < count)
  PROVE  LET t == WriteByte(s, byte, more) IN
         /\ Wrote(start, t, i, byte, n + 1)
         /\ WroteBytes(start, s, i, byte, n, count) => WroteBytes(start, t, i, byte, n + 1, count)
<1> DEFINE t == WriteByte(s, byte, more)
           p == start.fd.position
           q == s.fd.position
           place == q \div BlockSize
<1>1. p \in Nat /\ start.fd.file_size \in Nat
  BY Sizes DEF Transfers, Descriptor
<1>2. /\ Keeps(start.mem, s.mem) /\ s.mem.root_dir = start.mem.root_dir
      /\ q \in p .. p + n /\ (q = p => n = 0 /\ ~s.stopped) /\ (~s.stopped => q = p + n)
      /\ s.fd.file_size = IF q = p THEN start.fd.file_size ELSE Larger(start.fd.file_size, q)
      /\ s.fd.first_block = start.fd.first_block /\ s.fd.mode = start.fd.mode
  BY DEF Wrote
<1>3. PICK k \in Index : At(s, i, k)
  BY DEF Wrote
<1>4. CASE s.stopped
  <2>1. t = s
    BY <1>4 DEF WriteByte
  <2>3. q \in p .. p + (n + 1) /\ q # p
    BY <1>1, <1>2, <1>4
  <2>4. Wrote(start, s, i, byte, n + 1)
    BY <1>2, <1>3, <1>4, <2>3 DEF Wrote
  <2>5. ASSUME WroteBytes(start, s, i, byte, n, count) PROVE WroteBytes(start, s, i, byte, n + 1, count)
    BY <1>4, <2>5 DEF WroteBytes
  <2> QED BY <2>1, <2>4, <2>5
<1>5. CASE ~s.stopped
  <2>1. q = p + n /\ q + 1 <= MaxSize /\ q \in Nat
    BY <1>1, <1>2, <1>5, Sizes
  <2> DEFINE edge == more /\ (q + 1) % BlockSize = 0
  <2>a. \A l : At(s, i, l) => ByteWritten(s, t, i, l, byte, more)
    BY <1>5, <2>1, WriteByteKeeps
  <2> HIDE DEF t
  <2>2. /\ Keeps(s.mem, t.mem) /\ t.mem.root_dir = s.mem.root_dir
        /\ t.fd.first_block = s.fd.first_block /\ t.fd.mode = s.fd.mode
        /\ t.fd.position = q + 1
        /\ t.fd.file_size = Larger(s.fd.file_size, q + 1)
        /\ \A b \in DataBlock, o \in Offset :
             t.mem.data[b][o] = IF b = s.fd.current_block /\ o = q % BlockSize
                                THEN byte ELSE s.mem.data[b][o]
    BY <1>3, <2>a DEF ByteWritten
  <2>3. ASSUME NEW l \in Index, At(s, i, l)
        PROVE  IF edge /\ ~t.stopped THEN l + 1 \in Index /\ At(t, i, l + 1) ELSE At(t, i, l)
    BY <2>3, <2>a DEF ByteWritten
  <2>4. t.stopped => edge
    BY <1>3, <2>a DEF ByteWritten
  <2>5. Wrote(start, t, i, byte, n + 1)
    <3>1. Keeps(start.mem, t.mem) /\ t.mem.root_dir = start.mem.root_dir
      BY <1>2, <2>2, KeepsFurther
    <3>2. \E l \in Index : At(t, i, l)
      BY <1>3, <2>3
    <3>3. q + 1 \in p .. p + (n + 1) /\ q + 1 = p + (n + 1) /\ q + 1 # p
      BY <1>1, <2>1
    <3>4. t.fd.file_size = Larger(start.fd.file_size, q + 1)
      <4>1. CASE q = p
        BY <1>2, <2>2, <4>1
      <4>2. CASE q # p
        <5>1. Larger(Larger(start.fd.file_size, q), q + 1) = Larger(start.fd.file_size, q + 1)
          BY <1>1, <2>1, LargerTwice
        <5> QED BY <1>2, <2>2, <4>2, <5>1
      <4> QED BY <4>1, <4>2
    <3> QED BY <1>2, <2>2, <3>1, <3>2, <3>3, <3>4 DEF Wrote
  <2>6. ASSUME WroteBytes(start, s, i, byte, n, count) PROVE WroteBytes(start, t, i, byte, n + 1, count)
    <3>1. At(s, i, place)
      BY <1>5, <2>6 DEF WroteBytes
    <3>2. /\ place \in Index /\ s.fd.current_block = Way(s.mem, i)[place] /\ s.mem \in Blocks
          /\ Sound(s.mem) /\ i \in Entries(s.mem) /\ s.fd.current_block \in DataBlock
      BY <3>1 DEF At, Transfers, Descriptor
    <3>3. \A x \in p .. q : x \in Nat
      BY <1>1
    <3>4. \A b \in DataBlock, o \in Offset : ~(b = s.fd.current_block /\ o = q % BlockSize) =>
            t.mem.data[b][o] = s.mem.data[b][o]
      BY <2>2
    <3>5. \A j \in Entries(s.mem), x \in Nat :
            /\ x \div BlockSize \in Index /\ Way(s.mem, j)[x \div BlockSize] \in DataBlock
            /\ ~(j = i /\ x = q)
            => t.mem.data[Way(s.mem, j)[x \div BlockSize]][x % BlockSize]
                 = s.mem.data[Way(s.mem, j)[x \div BlockSize]][x % BlockSize]
      <4> SUFFICES ASSUME NEW j \in Entries(s.mem), NEW x \in Nat, x \div BlockSize \in Index,
                          Way(s.mem, j)[x \div BlockSize] \in DataBlock, ~(j = i /\ x = q)
                   PROVE  t.mem.data[Way(s.mem, j)[x \div BlockSize]][x % BlockSize]
                            = s.mem.data[Way(s.mem, j)[x \div BlockSize]][x % BlockSize]
        OBVIOUS
      <4>1. ~(Way(s.mem, j)[x \div BlockSize] = s.fd.current_block /\ x % BlockSize = q % BlockSize)
        <5> SUFFICES ASSUME Way(s.mem, j)[x \div BlockSize] = Way(s.mem, i)[place],
                            x % BlockSize = q % BlockSize
                     PROVE  FALSE
          BY <3>2
        <5>1. j = i /\ x \div BlockSize = place
          BY <3>2 DEF Sound
        <5> QED BY <2>1, <5>1, SamePlace
      <4>2. x % BlockSize \in Offset
        BY Parts
      <4> QED BY <3>4, <4>1, <4>2
    <3>6. \A j \in Entries(s.mem), l \in Index : Way(s.mem, j)[l] \in DataBlock =>
            Way(t.mem, j)[l] = Way(s.mem, j)[l]
      BY <2>2 DEF Keeps, Grows, Extends
    <3>7. \A j \in Entries(start.mem), l \in Index : Way(start.mem, j)[l] \in DataBlock =>
            j \in Entries(s.mem) /\ Way(s.mem, j)[l] = Way(start.mem, j)[l]
      BY <1>2 DEF Keeps, Grows, Extends
    <3>8. ASSUME NEW x \in p .. q
          PROVE  /\ x \div BlockSize \in Index /\ Way(t.mem, i)[x \div BlockSize] \in DataBlock
                 /\ t.mem.data[Way(t.mem, i)[x \div BlockSize]][x % BlockSize] = byte
      <4>1. CASE x = q
        <5>1. Way(t.mem, i)[place] = s.fd.current_block /\ q % BlockSize \in Offset
          BY <2>1, <3>2, <3>6, Parts
        <5> QED BY <2>2, <3>2, <4>1, <5>1
      <4>2. CASE x # q
        <5>1. x \in p .. q - 1 /\ x \in Nat
          BY <1>1, <2>1, <4>2
        <5>2. /\ x \div BlockSize \in Index /\ Way(s.mem, i)[x \div BlockSize] \in DataBlock
              /\ s.mem.data[Way(s.mem, i)[x \div BlockSize]][x % BlockSize] = byte
          BY <2>6, <5>1 DEF WroteBytes
        <5> QED BY <3>2, <3>5, <3>6, <4>2, <5>1, <5>2
      <4> QED BY <4>1, <4>2
    <3>9. ASSUME NEW j \in Entries(start.mem), NEW x \in Nat, x \div BlockSize \in Index,
                 Way(start.mem, j)[x \div BlockSize] \in DataBlock, ~(j = i /\ x \in p .. q)
          PROVE  t.mem.data[Way(start.mem, j)[x \div BlockSize]][x % BlockSize]
                   = start.mem.data[Way(start.mem, j)[x \div BlockSize]][x % BlockSize]
      <4>1. ~(j = i /\ x \in p .. q - 1) /\ ~(j = i /\ x = q)
        BY <1>1, <2>1, <3>9
      <4>2. s.mem.data[Way(start.mem, j)[x \div BlockSize]][x % BlockSize]
              = start.mem.data[Way(start.mem, j)[x \div BlockSize]][x % BlockSize]
        BY <2>6, <3>9, <4>1 DEF WroteBytes
      <4> QED BY <3>5, <3>7, <3>9, <4>1, <4>2
    <3>10. ~t.stopped /\ n + 1 < count => At(t, i, (q + 1) \div BlockSize)
      <4> SUFFICES ASSUME ~t.stopped, n + 1 < count PROVE At(t, i, (q + 1) \div BlockSize)
        OBVIOUS
      <4>1. CASE (q + 1) % BlockSize = 0
        <5>1. (q + 1) \div BlockSize = place + 1
          BY <2>1, <4>1, Parts
        <5> QED BY <2>3, <3>1, <3>2, <4>1, <5>1
      <4>2. CASE (q + 1) % BlockSize # 0
        <5>1. (q + 1) \div BlockSize = place
          BY <2>1, <4>2, Parts
        <5> QED BY <2>3, <3>1, <3>2, <4>2, <5>1
      <4> QED BY <4>1, <4>2
    <3>11. (q + 1) - 1 = q
      BY <2>1
    <3>12. t.fd.position = q + 1 /\ p = start.fd.position
      BY <2>2, <1>1
    <3> HIDE DEF t, p, q, place
    <3> QED BY <3>8, <3>9, <3>10, <3>11, <3>12 DEF WroteBytes
  <2> QED BY <2>5, <2>6 DEF t
<1> QED BY <1>4, <1>5

LEMMA WriteKeeps ==
  ASSUME NEW start, NEW i, NEW k, At(start, i, k), ~start.stopped, NEW byte \in Bytes,
         NEW count \in Nat, start.fd.position + count <= MaxSize
  PROVE  LET s == WriteLoop(start, byte, count)[count] IN
         /\ Wrote(start, s, i, byte, count)
         /\ At(start, i, start.fd.position \div BlockSize) => WroteBytes(start, s, i, byte, count, count)
<1> DEFINE w == WriteLoop(start, byte, count)
           inStep == At(start, i, start.fd.position \div BlockSize)
           S == { n \in 0 .. count : /\ Wrote(start, w[n], i, byte, n)
                                     /\ inStep => WroteBytes(start, w[n], i, byte, n, count) }
<1>1. w[0] = start /\ \A n \in 0 .. count - 1 : w[n + 1] = WriteByte(w[n], byte, n + 1 < count)
  BY WriteLoopIs
<1>2. start \in Transfers /\ start.mem \in Blocks /\ Sound(start.mem) /\ start.fd.position \in Nat
  BY Sizes DEF At, Transfers, Descriptor
<1> HIDE DEF w, inStep
<1>3. 0 \in S
  <2>1. Keeps(start.mem, start.mem)
    BY <1>2, KeepsSelf
  <2>2. \E l \in Index : At(start, i, l)
    BY DEF At
  <2>3. Wrote(start, start, i, byte, 0)
    BY <1>2, <2>1, <2>2 DEF Wrote
  <2>4. ASSUME inStep PROVE WroteBytes(start, start, i, byte, 0, count)
    <3>1. \A x \in start.fd.position .. start.fd.position - 1 : FALSE
      BY <1>2
    <3> QED BY <2>4, <3>1 DEF WroteBytes, inStep
  <2> QED BY <1>1, <2>3, <2>4
<1>4. ASSUME NEW n \in 0 .. count - 1, n \in S PROVE n + 1 \in S
  <2>1. Wrote(start, w[n], i, byte, n) /\ (inStep => WroteBytes(start, w[n], i, byte, n, count))
    BY <1>4
  <2>2. n \in Nat /\ n < count
    OBVIOUS
  <2>3. w[n + 1] = WriteByte(w[n], byte, n + 1 < count)
    BY <1>1
  <2>4. Wrote(start, w[n + 1], i, byte, n + 1) /\ (inStep => WroteBytes(start, w[n + 1], i, byte, n + 1, count))
    <3> DEFINE more == n + 1 < count
    <3>1. more \in BOOLEAN /\ more = (n + 1 < count)
      OBVIOUS
    <3> HIDE DEF more
    <3>2. w[n + 1] = WriteByte(w[n], byte, more)
      BY <2>3, <3>1, Zenon
    <3> QED BY <1>2, <2>1, <2>2, <3>1, <3>2, WroteOneMore
  <2> QED BY <2>2, <2>4
<1>5. count \in S
  <2>1. \A n \in 0 .. count : n \in S
    <3> HIDE DEF S
    <3> QED BY <1>3, <1>4, UpTo
  <2> QED BY <2>1
<1> QED BY <1>5 DEF w, inStep

(* What n bytes of fs_read in file i have done since start.                *)
Got(start, s, i, n) ==
  LET p == start.fd.position
      q == s.fd.position
  IN /\ s.mem = start.mem
     /\ \E k \in Index : At(s, i, k)
     /\ q \in p .. p + n /\ (q = p => s.fd = start.fd) /\ (q > p => q <= s.fd.file_size)
     /\ s.fd.first_block = start.fd.first_block /\ s.fd.mode = start.fd.mode
     /\ s.fd.file_size = start.fd.file_size

LEMMA SetPart ==
  ASSUME NEW s \in Transfers
  PROVE  /\ \A g \in Descriptor : /\ [s EXCEPT !.fd = g] \in Transfers
                                  /\ [s EXCEPT !.fd = g].mem = s.mem /\ [s EXCEPT !.fd = g].fd = g
         /\ [s EXCEPT !.stopped = TRUE] \in Transfers
         /\ [s EXCEPT !.stopped = TRUE].mem = s.mem /\ [s EXCEPT !.stopped = TRUE].fd = s.fd
BY DEF Transfers

LEMMA GotOneMore ==
  ASSUME NEW start, NEW s, NEW i, NEW n \in Nat, start \in Transfers, Got(start, s, i, n)
  PROVE  Got(start, ReadByte(s), i, n + 1)
<1> DEFINE t == ReadByte(s)
           p == start.fd.position
           q == s.fd.position
           next == s.mem.fat[s.fd.current_block]
           got == [s EXCEPT !.fd.position = @ + 1]
           fd == [s.fd EXCEPT !.position = s.fd.position + 1]
<1>1. p \in Nat
  BY Sizes DEF Transfers, Descriptor
<1>2. /\ s.mem = start.mem
      /\ q \in p .. p + n /\ (q = p => s.fd = start.fd) /\ (q > p => q <= s.fd.file_size)
      /\ s.fd.first_block = start.fd.first_block /\ s.fd.mode = start.fd.mode
      /\ s.fd.file_size = start.fd.file_size
  BY DEF Got
<1>3. PICK k \in Index : At(s, i, k)
  BY DEF Got
<1>4. CASE s.stopped \/ q >= s.fd.file_size
  <2>1. t = s
    BY <1>4 DEF ReadByte
  <2>2. q \in p .. p + (n + 1)
    BY <1>1, <1>2
  <2>3. Got(start, s, i, n + 1)
    BY <1>2, <1>3, <2>2 DEF Got
  <2> QED BY <2>1, <2>3
<1>5. CASE ~(s.stopped \/ q >= s.fd.file_size)
  <2>1. /\ s.mem \in Blocks /\ s.fd \in Descriptor /\ Sound(s.mem) /\ i \in Entries(s.mem)
        /\ s.stopped = FALSE /\ s = [mem |-> s.mem, fd |-> s.fd, stopped |-> s.stopped]
        /\ s.fd.first_block = First(s.mem, i) /\ s.fd.current_block = Way(s.mem, i)[k]
        /\ s.fd.current_block \in DataBlock
    BY <1>3, <1>5 DEF At, Transfers, Descriptor
  <2>2. q \in Nat /\ s.fd.file_size \in 0 .. MaxSize /\ q + 1 \in 0 .. MaxSize /\ q + 1 <= s.fd.file_size
    BY <1>1, <1>2, <1>5, <2>1, Sizes DEF Descriptor
  <2>3. k + 1 \in Index /\ next = Way(s.mem, i)[k + 1] /\ Way(s.mem, i)[k + 1] \in DataBlock \cup {EndOfFile}
    BY <2>1, SoundWays
  <2>4. /\ fd \in Descriptor /\ fd.position = q + 1 /\ fd.file_size = s.fd.file_size
        /\ fd.mode = s.fd.mode /\ fd.first_block = s.fd.first_block
        /\ fd.current_block = s.fd.current_block
    BY <2>1, <2>2 DEF Descriptor
  <2>5. got \in Transfers /\ got.mem = s.mem /\ got.fd = fd
    <3>1. got = [s EXCEPT !.fd = fd] /\ s \in Transfers
      BY <1>3 DEF At
    <3> HIDE DEF fd, got
    <3> QED BY <2>4, <3>1, SetPart
  <2>6. t = IF got.fd.position % BlockSize # 0 \/ got.fd.position >= got.fd.file_size THEN got
            ELSE IF next = EndOfFile THEN [got EXCEPT !.stopped = TRUE]
            ELSE [got EXCEPT !.fd.current_block = next]
    BY <1>5 DEF ReadByte
  <2> DEFINE Ok(u) == /\ u.mem = s.mem /\ \E l \in Index : At(u, i, l)
                      /\ u.fd.position = q + 1 /\ u.fd.file_size = s.fd.file_size
                      /\ u.fd.mode = s.fd.mode /\ u.fd.first_block = s.fd.first_block
  <2> HIDE DEF got, fd, t, next
  <2>7. \A u \in Transfers : u.mem = s.mem /\ u.fd = fd => Ok(u)
    BY <2>1, <2>4 DEF At
  <2>8. Ok(got) /\ Ok([got EXCEPT !.stopped = TRUE])
    <3> HIDE DEF Ok
    <3> QED BY <2>5, <2>7, SetPart
  <2>9. ASSUME next # EndOfFile PROVE Ok([got EXCEPT !.fd.current_block = next])
    <3> DEFINE g == [fd EXCEPT !.current_block = next]
    <3>1. [got EXCEPT !.fd.current_block = next] = [got EXCEPT !.fd = g]
      BY <2>5
    <3>2. /\ g \in Descriptor /\ g.position = q + 1 /\ g.file_size = s.fd.file_size
          /\ g.mode = s.fd.mode /\ g.first_block = s.fd.first_block /\ g.current_block = next
      BY <2>3, <2>4, <2>9 DEF Descriptor
    <3> HIDE DEF g
    <3>3. /\ [got EXCEPT !.fd = g] \in Transfers /\ [got EXCEPT !.fd = g].mem = s.mem
          /\ [got EXCEPT !.fd = g].fd = g
      BY <2>5, <3>2, SetPart
    <3>4. \A u \in Transfers : u.mem = s.mem /\ u.fd = g => Ok(u)
      BY <2>1, <2>3, <3>2 DEF At
    <3> HIDE DEF Ok
    <3> QED BY <3>1, <3>3, <3>4
  <2>10. Ok(t)
    <3> HIDE DEF Ok
    <3> QED BY <2>6, <2>8, <2>9
  <2>11. q + 1 \in p .. p + (n + 1) /\ q + 1 # p
    BY <1>1, <1>2
  <2>12. Got(start, t, i, n + 1)
    BY <1>2, <2>2, <2>10, <2>11 DEF Got
  <2> QED BY <2>12 DEF t
<1> QED BY <1>4, <1>5

LEMMA ReadKeeps ==
  ASSUME NEW start, NEW i, NEW k, At(start, i, k), NEW count \in Nat
  PROVE  Got(start, ReadLoop(start, count)[count], i, count)
<1> DEFINE w == ReadLoop(start, count)
           S == { n \in 0 .. count : Got(start, w[n], i, n) }
<1>1. w[0] = start /\ \A n \in 0 .. count - 1 : w[n + 1] = ReadByte(w[n])
  BY ReadLoopIs
<1>2. start \in Transfers /\ start.fd.position \in Nat
  BY Sizes DEF At, Transfers, Descriptor
<1> HIDE DEF w
<1>3. 0 \in S
  <2>1. \E l \in Index : At(start, i, l)
    BY DEF At
  <2>2. Got(start, start, i, 0)
    BY <1>2, <2>1 DEF Got
  <2> QED BY <1>1, <2>2
<1>4. ASSUME NEW n \in 0 .. count - 1, n \in S PROVE n + 1 \in S
  BY <1>1, <1>2, <1>4, GotOneMore
<1>5. count \in S
  <2>1. \A n \in 0 .. count : n \in S
    <3> HIDE DEF S
    <3> QED BY <1>3, <1>4, UpTo
  <2> QED BY <2>1
<1> QED BY <1>5 DEF w

-----------------------------------------------------------------------------
(* The size of an entry, and nothing else, is changed.                     *)
LEMMA SetSize ==
  ASSUME NEW m \in Blocks, Sound(m), NEW i \in Entries(m), NEW size \in 0 .. MaxSize
  PROVE  LET n == [m EXCEPT !.root_dir[i].size = size] IN
         /\ Keeps(m, n) /\ Entries(n) = Entries(m) /\ n.data = m.data
         /\ \A j \in Entries(m) :
              /\ Way(n, j) = Way(m, j) /\ First(n, j) = First(m, j) /\ SameEntry(m, n, j)
              /\ n.root_dir[j].size = IF j = i THEN size ELSE m.root_dir[j].size
<1> DEFINE e == [m.root_dir[i] EXCEPT !.size = size]
           dir == [m.root_dir EXCEPT ![i] = e]
           n == [m EXCEPT !.root_dir = dir]
<1>1. /\ m.root_dir \in Seq(Entry) /\ Entries(m) = 1 .. Len(m.root_dir) /\ Len(m.root_dir) \in Nat
      /\ \A j \in Entries(m) : m.root_dir[j] \in Entry
  BY BlockFacts
<1>2. e \in Entry
  BY <1>1 DEF Entry
<1>3. e.size = size /\ e.name = m.root_dir[i].name /\ e.first_block = m.root_dir[i].first_block
      /\ e.type = m.root_dir[i].type
  BY <1>1 DEF Entry
<1> HIDE DEF e
<1>4. dir \in Seq(Entry) /\ DOMAIN dir = Entries(m)
  BY <1>1, <1>2 DEF Entries
<1>5. \A j \in Entries(m) : dir[j] = IF j = i THEN e ELSE m.root_dir[j]
  BY <1>1
<1> HIDE DEF dir
<1>6. /\ n \in Blocks /\ n.root_dir = dir /\ n.fat = m.fat /\ n.free_blocks = m.free_blocks
      /\ n.data = m.data
  BY <1>4 DEF Blocks, Entry
<1> HIDE DEF n
<1>7. Entries(n) = Entries(m)
  BY <1>4, <1>6 DEF Entries
<1>8. ASSUME NEW j \in Entries(m)
      PROVE  SameEntry(m, n, j) /\ First(n, j) = First(m, j)
             /\ n.root_dir[j].size = IF j = i THEN size ELSE m.root_dir[j].size
  BY <1>3, <1>5, <1>6 DEF SameEntry, First
<1>9. Keeps(m, n) /\ \A j \in Entries(m) : Way(n, j) = Way(m, j)
  BY <1>6, <1>7, <1>8, SameTable
<1>10. n = [m EXCEPT !.root_dir[i].size = size]
  BY DEF n, dir, e
<1> QED BY <1>6, <1>7, <1>8, <1>9, <1>10

-----------------------------------------------------------------------------
(* A descriptor at block k of the way of file i.                           *)
FdAt(m, fd, i, k) ==
  /\ i \in Entries(m) /\ k \in Index /\ m.root_dir[i].type = "file"
  /\ fd.first_block = First(m, i) /\ fd.current_block = Way(m, i)[k]

FdsIn(m, fds) ==
  /\ fds \in [Fd -> Descriptor \cup {Closed}]
  /\ \A d \in Fd : fds[d] # Closed => \E i, k : FdAt(m, fds[d], i, k)

Marks == {overrun, exact} \subseteq BOOLEAN /\ unnamed \subseteq DataBlock

InMemory == mem \in Blocks /\ Sound(mem) /\ FdsIn(mem, fd_table) /\ Marks

\* What every call of a client does.
MemoryGrows == InMemory' /\ Grows(mem, mem') /\ (Counted(mem, unnamed) => Counted(mem', unnamed'))

LEMMA FdStays ==
  ASSUME NEW m, NEW n, Grows(m, n), NEW fd \in Descriptor, NEW i, NEW k, FdAt(m, fd, i, k)
  PROVE  FdAt(n, fd, i, k)
<1>1. Way(m, i)[k] \in DataBlock
  BY DEF FdAt, Descriptor
<1> QED BY <1>1 DEF FdAt, Grows, Extends, SameEntry, First

LEMMA FdsStay ==
  ASSUME NEW m, NEW n, Grows(m, n), NEW fds, FdsIn(m, fds)
  PROVE  FdsIn(n, fds)
BY FdStays DEF FdsIn

LEMMA FdsWith ==
  ASSUME NEW m, NEW fds, FdsIn(m, fds), NEW d \in Fd, NEW fd,
         fd = Closed \/ (fd \in Descriptor /\ \E i, k : FdAt(m, fd, i, k))
  PROVE  FdsIn(m, [fds EXCEPT ![d] = fd])
BY DEF FdsIn

LEMMA OpenFdFacts ==
  ASSUME InMemory, NEW d \in OpenFds
  PROVE  /\ d \in Fd /\ fd_table[d] \in Descriptor /\ Start(d) \in Transfers
         /\ fd_table[d].position \in Nat
         /\ \E i, k : FdAt(mem, fd_table[d], i, k)
         /\ \A i, k : FdAt(mem, fd_table[d], i, k) => At(Start(d), i, k)
<1>1. d \in Fd /\ fd_table[d] \in Descriptor /\ \E i, k : FdAt(mem, fd_table[d], i, k)
  BY DEF InMemory, FdsIn, OpenFds
<1>2. /\ Start(d) \in Transfers /\ Start(d).mem = mem /\ Start(d).fd = fd_table[d]
  BY <1>1 DEF Start, Transfers, InMemory
<1>3. ASSUME NEW i, NEW k, FdAt(mem, fd_table[d], i, k) PROVE At(Start(d), i, k)
  BY <1>2, <1>3 DEF FdAt, At, InMemory
<1>4. fd_table[d].position \in Nat
  BY <1>1, Sizes DEF Descriptor
<1> QED BY <1>1, <1>2, <1>3, <1>4

LEMMA CreatedMarks ==
  ASSUME Marks, NEW name, NEW n, Created(name, n), exact' \in BOOLEAN
  PROVE  unnamed' = unnamed \cup Taken(mem, n, name) /\ Marks'
BY DEF Marks, Created, Taken, FreeBlocks

(* The calls of a client keep chains apart and descriptors in their files. *)
LEMMA CreateKeeps ==
  ASSUME InMemory, NEW name \in PathName, NEW type \in {"file", "dir"}, Create(name, type)
  PROVE  MemoryGrows
<1>1. /\ mem' = NewFile(mem, name, type) /\ fd_table' = fd_table
      /\ Created(name, mem') /\ exact' \in BOOLEAN
  BY DEF Create
<1>2. /\ Grows(mem, mem')
      /\ \A u : Counted(mem, u) => Counted(mem', u \cup Taken(mem, mem', name))
  BY <1>1, NewFileKeeps DEF InMemory
<1>3. FdsIn(mem', fd_table')
  BY <1>1, <1>2, FdsStay DEF InMemory
<1>4. unnamed' = unnamed \cup Taken(mem, mem', name) /\ Marks'
  BY <1>1, CreatedMarks DEF InMemory
<1> QED BY <1>2, <1>3, <1>4 DEF InMemory, MemoryGrows, Grows

LEMMA OpenInKeeps ==
  ASSUME InMemory, NEW m, Grows(mem, m), NEW name, NEW mode \in Modes,
         NEW truncate \in BOOLEAN, Lookup(m, name) # {}, OpenIn(m, name, mode, truncate)
  PROVE  FdsIn(mem', fd_table') /\ Keeps(m, mem') /\ exact' \in BOOLEAN
<1> DEFINE index == Min(Lookup(m, name))
           entry == EntryOf(m, name)
           d == Min(FreeFds)
           fd == [first_block |-> entry.first_block, current_block |-> entry.first_block, position |-> 0,
                  file_size |-> IF truncate THEN 0 ELSE entry.size, mode |-> mode]
           n == IF truncate THEN [m EXCEPT !.root_dir[index].size = 0] ELSE m
<1>1. m \in Blocks /\ Sound(m)
  BY DEF Grows
<1>2. index \in Entries(m) /\ m.root_dir[index].name = name
  <2>1. Lookup(m, name) \subseteq Nat
    BY <1>1, BlockFacts DEF Lookup
  <2> QED BY <2>1, MinIsLeast DEF Lookup
<1>3. CASE entry.type = "dir" \/ FreeFds = {}
  <2>1. mem' = m /\ UNCHANGED <<fd_table, exact>>
    BY <1>3 DEF OpenIn
  <2> QED BY <1>1, <2>1, FdsStay, KeepsSelf DEF InMemory, Marks
<1>4. CASE ~(entry.type = "dir" \/ FreeFds = {})
  <2>1. fd_table' = [fd_table EXCEPT ![d] = fd] /\ mem' = n /\ exact' \in BOOLEAN
    BY <1>4 DEF OpenIn, InMemory
  <2>2. d \in Fd
    <3>1. FreeFds \subseteq Nat /\ FreeFds \subseteq Fd
      BY Sizes DEF FreeFds
    <3> QED BY <1>4, <3>1, MinIsLeast
  <2>3. /\ entry \in Entry /\ entry.type = "file" /\ entry.first_block = First(m, index)
        /\ First(m, index) \in DataBlock
    BY <1>1, <1>2, <1>4, BlockFacts, SoundFirst DEF EntryOf, Entry, First
  <2>4. Keeps(m, n) /\ index \in Entries(n) /\ First(n, index) = First(m, index)
        /\ n.root_dir[index].type = "file"
    <3>1. CASE truncate
      <4>1. n = [m EXCEPT !.root_dir[index].size = 0] /\ 0 \in 0 .. MaxSize
        BY <3>1, Sizes
      <4>2. Keeps(m, n) /\ Entries(n) = Entries(m) /\ First(n, index) = First(m, index) /\ SameEntry(m, n, index)
        BY <1>1, <1>2, <4>1, SetSize
      <4> QED BY <1>2, <2>3, <4>2 DEF SameEntry, EntryOf
    <3>2. CASE ~truncate
      BY <1>1, <1>2, <2>3, <3>2, KeepsSelf DEF EntryOf
    <3> QED BY <3>1, <3>2
  <2> HIDE DEF d, n, index, entry
  <2>5. fd \in Descriptor
    BY <2>3, Sizes DEF Descriptor, Entry
  <2>6. FdAt(n, fd, index, 0)
    <3>1. n \in Blocks /\ 0 \in Index
      BY <2>4, Sizes DEF Keeps, Grows, Index
    <3>2. Way(n, index)[0] = First(n, index)
      BY <2>4, <3>1, WayFacts
    <3> QED BY <2>3, <2>4, <3>1, <3>2 DEF FdAt
  <2> HIDE DEF fd
  <2>7. Grows(mem, n)
    BY <2>4, GrowsFurther DEF Keeps
  <2>8. FdsIn(n, fd_table)
    BY <2>7, FdsStay DEF InMemory
  <2>9. FdsIn(n, fd_table')
    BY <2>1, <2>2, <2>5, <2>6, <2>8, FdsWith
  <2> QED BY <2>1, <2>4, <2>9
<1> QED BY <1>3, <1>4

LEMMA OpenKeeps ==
  ASSUME InMemory, NEW name \in PathName, NEW mode \in Modes, NEW create \in BOOLEAN,
         NEW truncate \in BOOLEAN, Open(name, mode, create, truncate)
  PROVE  MemoryGrows
<1> DEFINE m == IF create THEN NewFile(mem, name, "file") ELSE mem
<1>1. IF create THEN Created(name, m) ELSE NotCreated
  BY DEF Open
<1>2. Lookup(m, name) = {} => mem' = m /\ fd_table' = fd_table /\ exact' \in BOOLEAN
  BY DEF Open
<1>3. Lookup(m, name) # {} => OpenIn(m, name, mode, truncate)
  BY DEF Open
<1>4. /\ Grows(mem, m)
      /\ exact' \in BOOLEAN => Marks' /\ (Counted(mem, unnamed) => Counted(m, unnamed'))
  <2>1. CASE create
    <3>1. /\ Grows(mem, m)
          /\ \A u : Counted(mem, u) => Counted(m, u \cup Taken(mem, m, name))
      BY <2>1, NewFileKeeps DEF InMemory
    <3>2. Created(name, m)
      BY <1>1, <2>1
    <3> HIDE DEF m
    <3>3. exact' \in BOOLEAN => unnamed' = unnamed \cup Taken(mem, m, name) /\ Marks'
      BY <3>2, CreatedMarks DEF InMemory
    <3> QED BY <3>1, <3>3
  <2>2. CASE ~create
    <3>1. m = mem /\ overrun' = overrun /\ unnamed' = unnamed
      BY <1>1, <2>2 DEF NotCreated
    <3>2. Grows(mem, m)
      BY <3>1, KeepsSelf DEF Keeps, InMemory
    <3> QED BY <3>1, <3>2 DEF InMemory, Marks
  <2> QED BY <2>1, <2>2
<1> HIDE DEF m
<1>5. FdsIn(mem', fd_table') /\ Keeps(m, mem') /\ exact' \in BOOLEAN
  <2>1. CASE Lookup(m, name) = {}
    BY <1>2, <1>4, <2>1, FdsStay, KeepsSelf DEF InMemory, Grows
  <2>2. CASE Lookup(m, name) # {}
    BY <1>3, <1>4, <2>2, OpenInKeeps
  <2> QED BY <2>1, <2>2
<1>6. Grows(mem, mem') /\ (Counted(m, unnamed') => Counted(mem', unnamed'))
  BY <1>4, <1>5, GrowsFurther DEF Keeps
<1> QED BY <1>4, <1>5, <1>6 DEF InMemory, MemoryGrows, Grows

LEMMA WriteCallKeeps ==
  ASSUME InMemory, NEW d \in OpenFds, NEW byte \in Bytes, NEW count \in 1 .. MaxSize,
         Write(d, byte, count)
  PROVE  MemoryGrows
<1> DEFINE s == AfterWrite(d, byte, count)
           start == Start(d)
<1>1. PICK i, k : FdAt(mem, fd_table[d], i, k)
  BY OpenFdFacts
<1>2. At(start, i, k) /\ d \in Fd /\ fd_table[d] \in Descriptor
  BY <1>1, OpenFdFacts
<1>3. start.mem = mem /\ start.fd = fd_table[d] /\ ~start.stopped
  BY DEF Start
<1>4. count \in Nat /\ start.fd.position + count <= MaxSize
  BY <1>3, Sizes DEF Write
<1>5. Wrote(start, s, i, byte, count)
  BY <1>2, <1>3, <1>4, WriteKeeps DEF AfterWrite
<1> HIDE DEF s
<1>6. PICK l \in Index : At(s, i, l)
  BY <1>5 DEF Wrote
<1>7. Keeps(mem, s.mem) /\ s.mem.root_dir = mem.root_dir
  BY <1>3, <1>5 DEF Wrote
<1>8. /\ mem' = s.mem /\ fd_table' = [fd_table EXCEPT ![d] = s.fd] /\ exact' \in BOOLEAN
      /\ overrun' = s.stopped /\ unnamed' = unnamed
  BY DEF Write, Transfer, s
<1>9. s.fd \in Descriptor /\ FdAt(s.mem, s.fd, i, l)
  BY <1>1, <1>6, <1>7 DEF At, Transfers, FdAt
<1>10. FdsIn(s.mem, fd_table)
  BY <1>7, FdsStay DEF InMemory, Keeps
<1>11. FdsIn(s.mem, fd_table')
  BY <1>2, <1>8, <1>9, <1>10, FdsWith
<1>12. Marks'
  BY <1>6, <1>8 DEF At, Transfers, InMemory, Marks
<1> QED BY <1>7, <1>8, <1>11, <1>12 DEF InMemory, MemoryGrows, Keeps, Grows

LEMMA ReadCallKeeps ==
  ASSUME InMemory, NEW d \in OpenFds, NEW count \in 1 .. MaxSize, Read(d, count)
  PROVE  MemoryGrows
<1> DEFINE s == AfterRead(d, count)
           start == Start(d)
<1>1. PICK i, k : FdAt(mem, fd_table[d], i, k)
  BY OpenFdFacts
<1>2. At(start, i, k) /\ d \in Fd /\ fd_table[d] \in Descriptor
  BY <1>1, OpenFdFacts
<1>3. start.mem = mem /\ start.fd = fd_table[d]
  BY DEF Start
<1>4. count \in Nat
  BY Sizes
<1>5. Got(start, s, i, count)
  BY <1>2, <1>4, ReadKeeps DEF AfterRead
<1> HIDE DEF s
<1>6. PICK l \in Index : At(s, i, l)
  BY <1>5 DEF Got
<1>7. s.mem = mem
  BY <1>3, <1>5 DEF Got
<1>8. /\ mem' = mem /\ fd_table' = [fd_table EXCEPT ![d] = s.fd] /\ exact' \in BOOLEAN
      /\ overrun' = overrun /\ unnamed' = unnamed
  BY DEF Read, Transfer, s
<1>9. s.fd \in Descriptor /\ FdAt(mem, s.fd, i, l)
  BY <1>1, <1>6, <1>7 DEF At, Transfers, FdAt
<1>10. FdsIn(mem, fd_table')
  BY <1>2, <1>8, <1>9, FdsWith DEF InMemory
<1>11. Grows(mem, mem)
  BY KeepsSelf DEF InMemory, Keeps
<1> QED BY <1>8, <1>10, <1>11 DEF InMemory, Marks, MemoryGrows

LEMMA CloseKeeps ==
  ASSUME InMemory, NEW d \in OpenFds, Close(d)
  PROVE  MemoryGrows
<1> DEFINE fd == fd_table[d]
           same == { i \in Entries(mem) : /\ mem.root_dir[i].first_block = fd.first_block
                                          /\ mem.root_dir[i].type = "file" }
<1>1. /\ fd_table' = [fd_table EXCEPT ![d] = Closed] /\ UNCHANGED <<overrun, unnamed, exact>>
      /\ mem' = IF "write" \notin fd.mode \/ same = {} THEN mem
                ELSE [mem EXCEPT !.root_dir[Min(same)].size = fd.file_size]
  BY DEF Close
<1>2. d \in Fd /\ fd \in Descriptor
  BY OpenFdFacts
<1>3. Keeps(mem, mem')
  <2>1. CASE "write" \notin fd.mode \/ same = {}
    BY <1>1, <2>1, KeepsSelf DEF InMemory
  <2>2. CASE ~("write" \notin fd.mode \/ same = {})
    <3>1. same \subseteq Nat
      BY BlockFacts DEF InMemory
    <3>2. Min(same) \in Entries(mem)
      BY <2>2, <3>1, MinIsLeast
    <3>3. fd.file_size \in 0 .. MaxSize
      BY <1>2 DEF Descriptor
    <3> QED BY <1>1, <2>2, <3>2, <3>3, SetSize DEF InMemory
  <2> QED BY <2>1, <2>2
<1>4. FdsIn(mem', fd_table)
  BY <1>3, FdsStay DEF InMemory, Keeps
<1>5. FdsIn(mem', fd_table')
  BY <1>1, <1>2, <1>4, FdsWith
<1> HIDE DEF fd, same
<1> QED BY <1>1, <1>3, <1>5 DEF InMemory, Marks, MemoryGrows, Keeps, Grows

LEMMA FileOperationKeeps ==
  ASSUME InMemory, FileOperation
  PROVE  MemoryGrows
BY CreateKeeps, OpenKeeps, WriteCallKeeps, ReadCallKeeps, CloseKeeps DEF FileOperation

-----------------------------------------------------------------------------
(* Blocks on the drive and in memory.                                      *)
LEMMA SameBlocks ==
  ASSUME NEW m, NEW n, n.fat = m.fat, n.root_dir = m.root_dir
  PROVE  /\ Entries(n) = Entries(m)
         /\ \A i : First(n, i) = First(m, i) /\ Way(n, i) = Way(m, i)
         /\ Sound(m) => Sound(n)
<1>1. Entries(n) = Entries(m) /\ \A i : First(n, i) = First(m, i) /\ Way(n, i) = Way(m, i)
  BY DEF Entries, First, Way, Walk
<1>2. Sound(m) => Sound(n)
  BY <1>1 DEF Sound
<1> QED BY <1>1, <1>2

LEMMA EmptySound == ASSUME NEW m, m.root_dir = <<>> PROVE Entries(m) = {} /\ Sound(m)
BY DEF Entries, Sound

\* No block is on the ways of two files.
NeverMeet(m) ==
  \A i, j \in Entries(m), k, l \in Index :
    Way(m, i)[k] \in DataBlock /\ Way(m, i)[k] = Way(m, j)[l] => i = j

\* Every entry of m is the one of n, or has no first block yet.
Within(m, n) ==
  \A j \in Entries(m) :
    /\ j \in Entries(n)
    /\ First(m, j) = 0 \/ /\ n.root_dir[j].name = m.root_dir[j].name
                          /\ First(n, j) = First(m, j)

LEMMA SoundApart == ASSUME NEW m, Sound(m) PROVE NeverMeet(m)
BY DEF Sound, NeverMeet

(* A way along an older FAT is, as far as it goes, the way of today.       *)
LEMMA OlderWay ==
  ASSUME NEW m \in Blocks, NEW n \in Blocks, Older(n.fat, m.fat), Within(n, m),
         NEW j \in Entries(n), NEW k \in Index, Way(n, j)[k] \in DataBlock
  PROVE  j \in Entries(m) /\ Way(n, j)[k] = Way(m, j)[k]
<1>1. j \in Entries(m)
  BY DEF Within
<1> DEFINE S == { i \in Index : Way(n, j)[i] \in DataBlock => Way(n, j)[i] = Way(m, j)[i] }
<1>2. 0 \in S
  <2>1. 0 \in Index /\ 0 \notin DataBlock
    BY Sizes DEF Index, Free
  <2>2. Way(n, j)[0] = First(n, j) /\ Way(m, j)[0] = First(m, j)
    BY <1>1, WayFacts
  <2> QED BY <2>1, <2>2 DEF Within
<1>3. ASSUME NEW i \in 0 .. MaxBlocks - 1, i \in S PROVE i + 1 \in S
  <2>1. i \in Index /\ i + 1 \in Index /\ i \in 0 .. i + 1
    BY Sizes DEF Index
  <2>2. ASSUME Way(n, j)[i + 1] \in DataBlock PROVE Way(n, j)[i + 1] = Way(m, j)[i + 1]
    <3>1. n.fat \in Fat /\ First(n, j) \in FatValue
      BY BlockFacts
    <3>2. Way(n, j)[i] \in DataBlock
      BY <2>1, <2>2, <3>1, WayBefore DEF Way
    <3>3. Way(m, j)[i] = Way(n, j)[i]
      BY <1>3, <3>2
    <3>4. Way(n, j)[i + 1] = n.fat[Way(n, j)[i]] /\ Way(m, j)[i + 1] = m.fat[Way(n, j)[i]]
      BY <1>1, <3>2, <3>3, WayFacts DEF Step
    <3> QED BY <2>2, <3>2, <3>4, Sizes DEF Older
  <2> QED BY <2>1, <2>2
<1>4. \A i \in 0 .. MaxBlocks : i \in S
  <2> HIDE DEF S
  <2> QED BY <1>2, <1>3, UpTo, Sizes
<1> QED BY <1>1, <1>4 DEF Index

LEMMA OlderApart ==
  ASSUME NEW m \in Blocks, Sound(m), NEW n \in Blocks, Older(n.fat, m.fat), Within(n, m)
  PROVE  NeverMeet(n)
<1> SUFFICES ASSUME NEW i \in Entries(n), NEW j \in Entries(n), NEW k \in Index, NEW l \in Index,
                    Way(n, i)[k] \in DataBlock, Way(n, i)[k] = Way(n, j)[l]
             PROVE  i = j
  BY DEF NeverMeet
<1>1. i \in Entries(m) /\ Way(m, i)[k] = Way(n, i)[k]
  BY OlderWay
<1>2. j \in Entries(m) /\ Way(m, j)[l] = Way(n, j)[l]
  BY OlderWay
<1> QED BY <1>1, <1>2 DEF Sound

(* An older directory with a FAT of today is sound.                        *)
LEMMA OlderDirectory ==
  ASSUME NEW m, Sound(m), NEW n, n.fat = m.fat, Within(n, m), \A j \in Entries(n) : First(n, j) # 0
  PROVE  Sound(n)
<1>1. \A j \in Entries(n) : /\ j \in Entries(m) /\ Way(n, j) = Way(m, j)
                            /\ n.root_dir[j].name = m.root_dir[j].name
  BY DEF Within, Way, Walk
<1> QED BY <1>1 DEF Sound

(* A piece of what is on the drive: a chain that is there does not meet    *)
(* another one.                                                            *)
LEMMA PieceApart ==
  ASSUME NEW m \in Blocks, NeverMeet(m), NEW n \in Blocks, n.fat = m.fat, Within(n, m)
  PROVE  NeverMeet(n)
<1>1. Older(n.fat, m.fat)
  BY DEF Older
<1> SUFFICES ASSUME NEW i \in Entries(n), NEW j \in Entries(n), NEW k \in Index, NEW l \in Index,
                    Way(n, i)[k] \in DataBlock, Way(n, i)[k] = Way(n, j)[l]
             PROVE  i = j
  BY DEF NeverMeet
<1>2. i \in Entries(m) /\ Way(m, i)[k] = Way(n, i)[k]
  BY <1>1, OlderWay
<1>3. j \in Entries(m) /\ Way(m, j)[l] = Way(n, j)[l]
  BY <1>1, OlderWay
<1> QED BY <1>2, <1>3 DEF NeverMeet

-----------------------------------------------------------------------------
(* Where copying stops, and what is copied then.                           *)
LEMMA StopFacts ==
  ASSUME NEW from \in Blocks, NEW to \in Blocks, NEW stop \in Stops(from, to)
  PROVE  /\ stop.block \in Nat
         /\ stop.block = 0 => stop.part = 0
         /\ stop.block = 2 => stop.part \in 0 .. Len(from.root_dir)
         /\ stop.piece = <<>> \/ /\ stop.block = 2 /\ stop.part < Len(from.root_dir)
                                 /\ stop.part >= Len(to.root_dir)
                                 /\ \E e \in Piece : stop.piece = <<e>>
<1>1. Len(from.root_dir) \in Nat /\ Len(to.root_dir) \in Nat /\ Entries(from) = 1 .. Len(from.root_dir)
  BY BlockFacts
<1>2. Copied(from) \cup {MaxBlocks} \subseteq Nat
  BY Sizes DEF Copied, Allocated
<1>3. \A b \in Allocated(from) : b \in Nat /\ b # 0 /\ b # 2
  BY Sizes DEF Allocated, DataBlock
<1>4. CASE stop \in [block : Copied(from) \cup {MaxBlocks}, part : {0}, piece : {<<>>}]
  BY <1>1, <1>2, <1>4
<1>5. CASE stop \in [block : {1}, part : DataBlock, piece : {<<>>}]
  BY <1>5
<1>6. CASE stop \in [block : {2}, part : Entries(from), piece : {<<>>}]
  BY <1>1, <1>6
<1>7. CASE stop \in [block : {2}, part : { k \in 0 .. Len(from.root_dir) - 1 : k >= Len(to.root_dir) },
                     piece : { <<e>> : e \in Piece }]
  BY <1>1, <1>7
<1>8. CASE stop \in [block : Allocated(from), part : Offset, piece : {<<>>}]
  BY <1>3, <1>8
<1> QED BY <1>4, <1>5, <1>6, <1>7, <1>8 DEF Stops

\* The directory up to a stop, in parts.
Newer(from, stop) ==
  IF Passed(stop, 2) THEN Len(from.root_dir) ELSE IF stop.block = 2 THEN stop.part ELSE 0
Front(from, stop) == SubSeq(from.root_dir, 1, Newer(from, stop))
Rest(from, to, stop) ==
  IF Passed(stop, 2) THEN <<>> ELSE SubSeq(to.root_dir, Newer(from, stop) + 1, Len(to.root_dir))

\* Entry by entry: what is newer, what is left of the older ones, and a piece.
LaidOut(from, to, stop, newer, front, rest, dir) ==
  /\ newer \in 0 .. Len(from.root_dir)
  /\ front \in Seq(Entry) /\ Len(front) = newer
  /\ \A i \in 1 .. newer : front[i] = from.root_dir[i]
  /\ rest \in Seq(Entry)
  /\ Len(rest) = IF ~Passed(stop, 2) /\ newer < Len(to.root_dir) THEN Len(to.root_dir) - newer ELSE 0
  /\ \A i \in 1 .. Len(rest) : rest[i] = to.root_dir[newer + i]
  /\ stop.piece \in Seq(Entry) /\ Len(stop.piece) \in {0, 1}
  /\ Len(stop.piece) = 1 =>
       newer < Len(from.root_dir) /\ Len(rest) = 0 /\ stop.piece[1].first_block = 0
  /\ dir \in Seq(Entry) /\ Len(dir) = newer + Len(rest) + Len(stop.piece)
  /\ DOMAIN dir = 1 .. Len(dir)
  /\ \A i \in 1 .. Len(dir) : dir[i] = IF i <= newer THEN front[i]
                                       ELSE IF i <= newer + Len(rest) THEN rest[i - newer]
                                       ELSE stop.piece[i - newer - Len(rest)]

LEMMA DirectoryParts ==
  ASSUME NEW from \in Blocks, NEW to \in Blocks, NEW stop \in Stops(from, to)
  PROVE  LaidOut(from, to, stop, Newer(from, stop), Front(from, stop), Rest(from, to, stop),
                 Front(from, stop) \o Rest(from, to, stop) \o stop.piece)
<1> DEFINE newer == Newer(from, stop)
           front == Front(from, stop)
           rest == Rest(from, to, stop)
           both == front \o rest
           dir == both \o stop.piece
<1>1. /\ from.root_dir \in Seq(Entry) /\ Len(from.root_dir) \in Nat
      /\ to.root_dir \in Seq(Entry) /\ Len(to.root_dir) \in Nat
      /\ \A i \in 1 .. Len(from.root_dir) : from.root_dir[i] \in Entry
      /\ \A i \in 1 .. Len(to.root_dir) : to.root_dir[i] \in Entry
  BY BlockFacts
<1>2. newer \in 0 .. Len(from.root_dir)
  BY <1>1, StopFacts DEF Newer
<1>3. /\ front \in Seq(Entry) /\ Len(front) = newer
      /\ \A i \in 1 .. newer : front[i] = from.root_dir[i]
  <2> HIDE DEF newer
  <2>1. newer \in Int /\ 1 \in Int /\ \A i \in 1 .. newer : from.root_dir[i] \in Entry
    BY <1>1, <1>2
  <2>2. /\ SubSeq(from.root_dir, 1, newer) \in Seq(Entry)
        /\ Len(SubSeq(from.root_dir, 1, newer)) = IF 1 <= newer THEN newer - 1 + 1 ELSE 0
        /\ \A i \in 1 .. newer - 1 + 1 : SubSeq(from.root_dir, 1, newer)[i] = from.root_dir[1 + i - 1]
    BY <2>1, SubSeqProperties
  <2> QED BY <1>2, <2>2 DEF Front, newer
<1>4. /\ rest \in Seq(Entry)
      /\ Len(rest) = IF ~Passed(stop, 2) /\ newer < Len(to.root_dir) THEN Len(to.root_dir) - newer ELSE 0
      /\ \A i \in 1 .. Len(rest) : rest[i] = to.root_dir[newer + i]
  <2> HIDE DEF newer
  <2>1. CASE Passed(stop, 2)
    <3>1. rest = <<>>
      BY <2>1 DEF Rest
    <3> QED BY <2>1, <3>1
  <2>2. CASE ~Passed(stop, 2)
    <3> DEFINE size == Len(to.root_dir)
    <3>1. newer + 1 \in Int /\ size \in Int /\ \A i \in newer + 1 .. size : to.root_dir[i] \in Entry
      BY <1>1, <1>2
    <3>2. rest = SubSeq(to.root_dir, newer + 1, size)
      BY <2>2 DEF Rest, newer
    <3> HIDE DEF size, rest
    <3>3. /\ rest \in Seq(Entry)
          /\ Len(rest) = IF newer + 1 <= size THEN size - (newer + 1) + 1 ELSE 0
          /\ \A i \in 1 .. size - (newer + 1) + 1 : rest[i] = to.root_dir[newer + 1 + i - 1]
      BY <3>1, <3>2, SubSeqProperties
    <3>4. newer \in Nat /\ size \in Nat
      BY <1>1, <1>2 DEF size
    <3>5. Len(rest) = IF newer < size THEN size - newer ELSE 0
      BY <3>3, <3>4
    <3>6. ASSUME NEW i \in 1 .. Len(rest) PROVE rest[i] = to.root_dir[newer + i]
      <4>1. i \in 1 .. size - (newer + 1) + 1 /\ newer + 1 + i - 1 = newer + i
        BY <3>4, <3>5
      <4> QED BY <3>3, <4>1
    <3> QED BY <2>2, <3>3, <3>5, <3>6 DEF size
  <2> QED BY <2>1, <2>2
<1>5. /\ stop.piece \in Seq(Entry) /\ Len(stop.piece) \in {0, 1}
      /\ Len(stop.piece) = 1 =>
           newer < Len(from.root_dir) /\ Len(rest) = 0 /\ stop.piece[1].first_block = 0
  <2>1. CASE stop.piece = <<>>
    BY <2>1
  <2>2. CASE stop.piece # <<>>
    <3>1. /\ stop.block = 2 /\ stop.part < Len(from.root_dir) /\ stop.part >= Len(to.root_dir)
          /\ stop.part \in 0 .. Len(from.root_dir)
      BY <2>2, StopFacts
    <3>2. PICK e \in Piece : stop.piece = <<e>>
      BY <2>2, StopFacts
    <3>3. e \in Entry /\ e.first_block = 0
      BY Sizes DEF Piece, Entry
    <3>4. ~Passed(stop, 2)
      BY <3>1 DEF Passed
    <3>5. newer = stop.part
      BY <3>1, <3>4 DEF Newer
    <3>6. newer < Len(from.root_dir) /\ Len(rest) = 0
      <4> HIDE DEF newer, rest
      <4> QED BY <1>1, <1>4, <3>1, <3>5
    <3> QED BY <3>2, <3>3, <3>6
  <2> QED BY <2>1, <2>2
<1> HIDE DEF newer, front, rest
<1>6. /\ both \in Seq(Entry) /\ Len(both) = Len(front) + Len(rest)
      /\ \A i \in 1 .. Len(front) + Len(rest) :
           both[i] = IF i <= Len(front) THEN front[i] ELSE rest[i - Len(front)]
  BY <1>3, <1>4, ConcatProperties
<1> HIDE DEF both
<1>7. /\ dir \in Seq(Entry) /\ Len(dir) = Len(both) + Len(stop.piece)
      /\ \A i \in 1 .. Len(both) + Len(stop.piece) :
           dir[i] = IF i <= Len(both) THEN both[i] ELSE stop.piece[i - Len(both)]
  <2> DEFINE piece == stop.piece
  <2>1. piece \in Seq(Entry) /\ both \in Seq(Entry)
    BY <1>5, <1>6
  <2>2. dir = both \o piece
    OBVIOUS
  <2> HIDE DEF piece, dir
  <2>3. /\ dir \in Seq(Entry) /\ Len(dir) = Len(both) + Len(piece)
        /\ \A i \in 1 .. Len(both) + Len(piece) :
             dir[i] = IF i <= Len(both) THEN both[i] ELSE piece[i - Len(both)]
    BY <2>1, <2>2, ConcatProperties
  <2> QED BY <2>3 DEF piece
<1> HIDE DEF dir
<1>8. newer \in Nat /\ Len(rest) \in Nat /\ Len(stop.piece) \in Nat
  BY <1>1, <1>2, <1>4, <1>5
<1>9. Len(dir) = newer + Len(rest) + Len(stop.piece)
  BY <1>3, <1>6, <1>7
<1>10. ASSUME NEW i \in 1 .. Len(dir)
       PROVE  dir[i] = IF i <= newer THEN front[i]
                       ELSE IF i <= newer + Len(rest) THEN rest[i - newer]
                       ELSE stop.piece[i - newer - Len(rest)]
  <2>1. CASE i <= newer + Len(rest)
    <3>1. Len(both) = newer + Len(rest) /\ i \in 1 .. Len(both) + Len(stop.piece)
      BY <1>3, <1>6, <1>8, <1>9
    <3>2. dir[i] = both[i]
      BY <1>7, <2>1, <3>1
    <3>3. both[i] = IF i <= newer THEN front[i] ELSE rest[i - newer]
      BY <1>3, <1>6, <1>8, <2>1
    <3> QED BY <2>1, <3>2, <3>3
  <2>2. CASE ~(i <= newer + Len(rest))
    <3>1. dir[i] = stop.piece[i - Len(both)] /\ Len(both) = newer + Len(rest)
      BY <1>3, <1>6, <1>7, <1>8, <1>9, <2>2
    <3>2. i - Len(both) = i - newer - Len(rest) /\ ~(i <= newer)
      BY <1>8, <2>2, <3>1
    <3> QED BY <2>2, <3>1, <3>2
  <2> QED BY <2>1, <2>2
<1>11. DOMAIN dir = 1 .. Len(dir)
  BY <1>7
<1>12. LaidOut(from, to, stop, newer, front, rest, dir)
  BY <1>2, <1>3, <1>4, <1>5, <1>7, <1>9, <1>10, <1>11 DEF LaidOut
<1> QED BY <1>12 DEF newer, front, rest, both, dir

\* What copying up to a stop leaves on the other side.
CopiedTo(from, to, stop, n) ==
  /\ n \in Blocks
  /\ \A b \in DataBlock : n.fat[b] \in {from.fat[b], to.fat[b]}
  /\ Passed(stop, 1) => n.fat = from.fat
  /\ stop.block = 0 => n.fat = to.fat
  /\ stop.block < 2 => n.root_dir = to.root_dir
  /\ Passed(stop, 2) => n.root_dir = from.root_dir
  /\ \A j \in Entries(n) :
       \/ j \in Entries(from) /\ n.root_dir[j] = from.root_dir[j]
       \/ j \in Entries(to) /\ n.root_dir[j] = to.root_dir[j]
       \/ j \in Entries(from) /\ First(n, j) = 0 /\ stop.piece # <<>>
  /\ stop.block = 2 /\ to.root_dir = <<>> /\ stop.piece = <<>> =>
       \A j \in Entries(n) : j \in Entries(from) /\ n.root_dir[j] = from.root_dir[j]
  /\ Complete(stop) => \A b \in Allocated(from) : n.data[b] = from.data[b]

LEMMA CopyFacts ==
  ASSUME NEW from \in Blocks, NEW to \in Blocks, NEW stop \in Stops(from, to)
  PROVE  CopiedTo(from, to, stop, CopyBlocks(from, to, stop))
<1> DEFINE n == CopyBlocks(from, to, stop)
           newer == Newer(from, stop)
           front == Front(from, stop)
           rest == Rest(from, to, stop)
           dir == front \o rest \o stop.piece
           fat == [b \in DataBlock |-> IF PartPassed(stop, 1, b) THEN from.fat[b] ELSE to.fat[b]]
           data == [b \in DataBlock |-> [o \in Offset |->
                      IF b \in Allocated(from) /\ PartPassed(stop, b, o) THEN from.data[b][o] ELSE to.data[b][o]]]
<1>1. n = [magic |-> IF Passed(stop, 0) THEN from.magic ELSE to.magic,
           free_blocks |-> IF Passed(stop, 0) THEN from.free_blocks ELSE to.free_blocks,
           fat |-> fat, root_dir |-> dir, data |-> data]
  BY DEF CopyBlocks, Front, Rest, Newer
<1>2. /\ from.fat \in [DataBlock -> FatValue] /\ to.fat \in [DataBlock -> FatValue]
      /\ from.data \in [DataBlock -> [Offset -> Bytes \cup {0}]]
      /\ to.data \in [DataBlock -> [Offset -> Bytes \cup {0}]]
      /\ from.magic \in BOOLEAN /\ to.magic \in BOOLEAN
      /\ from.free_blocks \in 0 .. CountRange - 1 /\ to.free_blocks \in 0 .. CountRange - 1
  BY DEF Blocks
<1>3. fat \in [DataBlock -> FatValue] /\ data \in [DataBlock -> [Offset -> Bytes \cup {0}]]
  BY <1>2
<1>4. /\ \A b \in DataBlock : fat[b] = IF PartPassed(stop, 1, b) THEN from.fat[b] ELSE to.fat[b]
      /\ \A b \in DataBlock, o \in Offset :
           data[b][o] = IF b \in Allocated(from) /\ PartPassed(stop, b, o) THEN from.data[b][o] ELSE to.data[b][o]
  OBVIOUS
<1>18. LaidOut(from, to, stop, newer, front, rest, dir)
  BY DirectoryParts
<1>6. /\ stop.block \in Nat
      /\ stop.block = 2 => stop.part \in 0 .. Len(from.root_dir)
      /\ stop.piece # <<>> => stop.block = 2
  BY StopFacts
<1>7. /\ from.root_dir \in Seq(Entry) /\ to.root_dir \in Seq(Entry)
      /\ Len(from.root_dir) \in Nat /\ Entries(from) = 1 .. Len(from.root_dir)
      /\ Len(to.root_dir) \in Nat /\ Entries(to) = 1 .. Len(to.root_dir)
  BY BlockFacts
<1> HIDE DEF fat, data, dir, front, rest, newer
<1>5. /\ newer \in 0 .. Len(from.root_dir)
      /\ Len(front) = newer /\ \A i \in 1 .. newer : front[i] = from.root_dir[i]
      /\ Len(rest) = IF ~Passed(stop, 2) /\ newer < Len(to.root_dir) THEN Len(to.root_dir) - newer ELSE 0
      /\ \A i \in 1 .. Len(rest) : rest[i] = to.root_dir[newer + i]
      /\ Len(stop.piece) \in {0, 1}
      /\ Len(stop.piece) = 1 =>
           newer < Len(from.root_dir) /\ Len(rest) = 0 /\ stop.piece[1].first_block = 0
      /\ dir \in Seq(Entry) /\ Len(dir) = newer + Len(rest) + Len(stop.piece)
      /\ DOMAIN dir = 1 .. Len(dir)
      /\ \A i \in 1 .. Len(dir) : dir[i] = IF i <= newer THEN front[i]
                                           ELSE IF i <= newer + Len(rest) THEN rest[i - newer]
                                           ELSE stop.piece[i - newer - Len(rest)]
  BY <1>18 DEF LaidOut
<1>8. /\ n.fat = fat /\ n.root_dir = dir /\ n.data = data
      /\ n \in Blocks
  <2>1. dir \in Seq([name : Names, first_block : DataBlock \cup {0}, size : 0 .. MaxSize, type : {"file", "dir"}])
    BY <1>5 DEF Entry
  <2> QED BY <1>1, <1>2, <1>3, <2>1 DEF Blocks
<1> HIDE DEF n
<1>9. Passed(stop, 1) => n.fat = from.fat
  <2> SUFFICES ASSUME Passed(stop, 1) PROVE fat = from.fat
    BY <1>8
  <2>1. \A b \in DataBlock : fat[b] = from.fat[b]
    BY <1>4 DEF PartPassed
  <2> QED BY <1>2, <1>3, <2>1
<1>10. stop.block = 0 => n.fat = to.fat
  <2> SUFFICES ASSUME stop.block = 0 PROVE fat = to.fat
    BY <1>8
  <2>1. \A b \in DataBlock : ~PartPassed(stop, 1, b)
    BY DEF PartPassed, Passed
  <2>2. \A b \in DataBlock : fat[b] = to.fat[b]
    BY <1>4, <2>1
  <2> QED BY <1>2, <1>3, <2>2
<1>11. stop.block < 2 => n.root_dir = to.root_dir
  <2> SUFFICES ASSUME stop.block < 2 PROVE dir = to.root_dir
    BY <1>8
  <2>1. ~Passed(stop, 2) /\ stop.block # 2 /\ stop.piece = <<>>
    BY <1>6 DEF Passed
  <2>2. newer = 0
    BY <2>1 DEF Newer, newer
  <2>3. Len(rest) = Len(to.root_dir) /\ Len(stop.piece) = 0
    BY <1>5, <1>7, <2>1, <2>2
  <2>4. Len(dir) = Len(to.root_dir) /\ \A i \in 1 .. Len(dir) : dir[i] = to.root_dir[i]
    <3>1. Len(dir) = Len(to.root_dir)
      BY <1>5, <1>7, <2>2, <2>3
    <3>2. ASSUME NEW i \in 1 .. Len(dir) PROVE dir[i] = to.root_dir[i]
      <4>1. dir[i] = rest[i - newer] /\ i - newer = i /\ i \in 1 .. Len(rest) /\ newer + i = i
        BY <1>5, <1>7, <2>2, <2>3, <3>1
      <4> QED BY <1>5, <4>1
    <3> QED BY <3>1, <3>2
  <2> QED BY <1>5, <1>7, <2>4, SeqEqual
<1>12. Passed(stop, 2) => n.root_dir = from.root_dir
  <2> SUFFICES ASSUME Passed(stop, 2) PROVE dir = from.root_dir
    BY <1>8
  <2>1. newer = Len(from.root_dir)
    BY DEF Newer, newer
  <2>2. stop.piece = <<>>
    BY <1>6 DEF Passed
  <2>3. Len(rest) = 0 /\ Len(stop.piece) = 0
    BY <1>5, <2>2
  <2>4. Len(dir) = Len(from.root_dir) /\ \A i \in 1 .. Len(dir) : dir[i] = from.root_dir[i]
    BY <1>5, <1>7, <2>1, <2>3
  <2> QED BY <1>5, <1>7, <2>4, SeqEqual
<1>13. ASSUME NEW j \in Entries(n)
       PROVE  \/ j \in Entries(from) /\ n.root_dir[j] = from.root_dir[j]
              \/ j \in Entries(to) /\ n.root_dir[j] = to.root_dir[j]
              \/ j \in Entries(from) /\ First(n, j) = 0 /\ stop.piece # <<>>
  <2>1. j \in 1 .. Len(dir)
    BY <1>5, <1>8 DEF Entries
  <2>2. newer \in Nat /\ Len(rest) \in Nat /\ newer <= Len(from.root_dir)
    BY <1>5, <1>7
  <2>6. n.root_dir[j] = dir[j] /\ j \in Nat
    BY <1>8, <2>1
  <2>3. CASE j <= newer
    <3>1. j \in 1 .. newer /\ j \in 1 .. Len(from.root_dir)
      BY <1>7, <2>1, <2>2, <2>3
    <3>2. dir[j] = front[j]
      BY <1>5, <2>1, <2>3
    <3>3. front[j] = from.root_dir[j]
      BY <1>5, <3>1
    <3> QED BY <1>7, <2>6, <3>1, <3>2, <3>3
  <2>4. CASE ~(j <= newer) /\ j <= newer + Len(rest)
    <3>1. dir[j] = rest[j - newer]
      BY <1>5, <2>1, <2>4
    <3>4. j - newer \in 1 .. Len(rest) /\ newer + (j - newer) = j
      BY <2>1, <2>2, <2>4
    <3>2. dir[j] = to.root_dir[j]
      BY <1>5, <3>1, <3>4
    <3>3. newer + Len(rest) <= Len(to.root_dir)
      BY <1>5, <1>7, <2>2, <2>4
    <3>5. j \in 1 .. Len(to.root_dir)
      BY <1>7, <2>1, <2>2, <2>4, <3>3
    <3> QED BY <1>7, <2>6, <3>2, <3>5
  <2>5. CASE ~(j <= newer) /\ ~(j <= newer + Len(rest))
    <3>1. Len(stop.piece) = 1
      <4>1. Len(stop.piece) \in {0, 1} /\ Len(dir) = newer + Len(rest) + Len(stop.piece)
        BY <1>5
      <4>2. ASSUME Len(stop.piece) = 0 PROVE FALSE
        <5>1. Len(dir) = newer + Len(rest)
          BY <2>2, <4>1, <4>2
        <5> QED BY <2>1, <2>2, <2>5, <5>1
      <4> QED BY <4>1, <4>2
    <3>2. newer < Len(from.root_dir) /\ Len(rest) = 0 /\ stop.piece[1].first_block = 0
      BY <1>5, <3>1
    <3>3. j = newer + 1 /\ j - newer - Len(rest) = 1
      BY <1>5, <2>1, <2>2, <2>5, <3>1, <3>2
    <3>4. dir[j] = stop.piece[1]
      BY <1>5, <2>1, <2>5, <3>3
    <3>5. stop.piece # <<>>
      BY <3>1
    <3>6. j \in 1 .. Len(from.root_dir)
      BY <1>7, <2>1, <2>2, <3>2, <3>3
    <3>7. First(n, j) = 0
      BY <2>6, <3>2, <3>4 DEF First
    <3> QED BY <1>7, <3>5, <3>6, <3>7
  <2> QED BY <2>3, <2>4, <2>5
<1>14. stop.block = 2 /\ to.root_dir = <<>> /\ stop.piece = <<>> =>
         \A j \in Entries(n) : j \in Entries(from) /\ n.root_dir[j] = from.root_dir[j]
  <2>1. to.root_dir = <<>> => Entries(to) = {}
    BY EmptySound
  <2> QED BY <1>13, <2>1
<1>15. Complete(stop) => \A b \in Allocated(from) : n.data[b] = from.data[b]
  <2> SUFFICES ASSUME Complete(stop), NEW b \in Allocated(from) PROVE data[b] = from.data[b]
    BY <1>8
  <2>1. b \in DataBlock /\ Passed(stop, b)
    BY Sizes DEF Complete, Passed, Allocated, DataBlock
  <2>2. \A o \in Offset : data[b][o] = from.data[b][o]
    BY <1>4, <2>1 DEF PartPassed
  <2>3. data[b] \in [Offset -> Bytes \cup {0}] /\ from.data[b] \in [Offset -> Bytes \cup {0}]
    BY <1>2, <1>3, <2>1
  <2> QED BY <2>2, <2>3
<1>16. \A b \in DataBlock : n.fat[b] \in {from.fat[b], to.fat[b]}
  BY <1>4, <1>8
<1>17. CopiedTo(from, to, stop, n)
  BY <1>8, <1>9, <1>10, <1>11, <1>12, <1>13, <1>14, <1>15, <1>16 DEF CopiedTo
<1> QED BY <1>17 DEF n

LEMMA SameFiles ==
  ASSUME NEW m \in Blocks, Sound(m), NEW n, n.fat = m.fat, n.root_dir = m.root_dir,
         \A b \in Allocated(m) : n.data[b] = m.data[b]
  PROVE  FilesOf(n) = FilesOf(m)
<1>1. Entries(n) = Entries(m)
  BY DEF Entries
<1>2. ASSUME NEW i \in Entries(m)
      PROVE  BytesOf(n, m.root_dir[i].first_block) = BytesOf(m, m.root_dir[i].first_block)
  <2>1. Walk(n, m.root_dir[i].first_block) = Way(m, i) /\ Walk(m, m.root_dir[i].first_block) = Way(m, i)
    BY DEF Walk, Way, First
  <2>2. ASSUME NEW k \in 0 .. MaxBlocks, Way(m, i)[k] \in DataBlock
        PROVE  n.data[Way(m, i)[k]] = m.data[Way(m, i)[k]]
    <3>1. Way(m, i)[k] \notin FreeBlocks(m)
      BY <2>2, SoundWays DEF Index
    <3> QED BY <2>2, <3>1 DEF Allocated
  <2> QED BY <2>1, <2>2 DEF BytesOf
<1> QED BY <1>1, <1>2 DEF FilesOf

LEMMA FormattedFacts ==
  /\ Formatted \in Blocks /\ Formatted.root_dir = <<>>
  /\ Sound(Formatted) /\ Counted(Formatted, {})
  /\ BlankDisk \in Blocks /\ BlankDisk.root_dir = <<>> /\ Sound(BlankDisk)
  /\ \A b \in DataBlock : BlankDisk.fat[b] = Free
<1> DEFINE fat == [b \in DataBlock |-> Free]
           data == [b \in DataBlock |-> [o \in Offset |-> 0]]
<1>1. IsFiniteSet(DataBlock) /\ Cardinality(DataBlock) = FatEntries - 3
  BY FS_Interval, Sizes DEF DataBlock
<1>2. MaxBlocks - 3 \in 0 .. CountRange - 1 /\ 0 \in 0 .. CountRange - 1
  BY Sizes
<1>3. fat \in [DataBlock -> FatValue] /\ data \in [DataBlock -> [Offset -> Bytes \cup {0}]]
  BY DEF FatValue
<1>4. <<>> \in Seq([name : Names, first_block : DataBlock \cup {0}, size : 0 .. MaxSize, type : {"file", "dir"}])
  OBVIOUS
<1>5. /\ Formatted = [magic |-> TRUE, free_blocks |-> MaxBlocks - 3, fat |-> fat,
                      root_dir |-> <<>>, data |-> data]
      /\ \A b \in DataBlock : fat[b] = Free
  BY DEF Formatted
<1> HIDE DEF fat, data
<1>6. /\ Formatted \in Blocks /\ Formatted.root_dir = <<>> /\ Formatted.fat = fat
      /\ Formatted.free_blocks = MaxBlocks - 3
  BY <1>2, <1>3, <1>4, <1>5 DEF Blocks
<1>7. BlankDisk \in Blocks /\ BlankDisk.root_dir = <<>> /\ BlankDisk.fat = fat
  <2> DEFINE unmarked == [Formatted EXCEPT !.magic = FALSE]
  <2>1. BlankDisk = [unmarked EXCEPT !.free_blocks = 0]
    BY DEF BlankDisk
  <2>2. unmarked \in Blocks /\ unmarked.root_dir = <<>> /\ unmarked.fat = fat
    BY <1>6 DEF Blocks
  <2> HIDE DEF unmarked
  <2> QED BY <1>2, <2>1, <2>2 DEF Blocks
<1>8. Counted(Formatted, {})
  <2>1. FreeBlocks(Formatted) = DataBlock
    BY <1>5, <1>6 DEF FreeBlocks
  <2>2. MaxBlocks - 3 = (FatEntries - 3) + (MaxBlocks - FatEntries)
    BY Sizes
  <2> QED BY <1>1, <1>6, <2>1, <2>2 DEF Counted
<1> QED BY <1>5, <1>6, <1>7, <1>8, EmptySound

-----------------------------------------------------------------------------
(***************************************************************************)
(* The inductive invariant.  The FAT is saved before the directory, and    *)
(* the blocks in memory are a later state of those on the drive: whatever  *)
(* part of them is on the drive, no two chains of it meet.  They all end   *)
(* when the FAT is of one of the two states and no entry is half a one.    *)
(***************************************************************************)
OnDrive ==
  /\ disk \in Blocks
  /\ history # "mixed" => NeverMeet(disk) /\ ("drive" \notin torn => Sound(disk))
  /\ history = "one" => Within(disk, mem) /\ Older(disk.fat, mem.fat)
  /\ saved.complete => history # "mixed" /\ "drive" \notin torn /\ saved.files = FilesOf(disk)

Flags ==
  /\ {drive, fs_disk_enabled} \subseteq BOOLEAN
  /\ saves \in Nat /\ history \in {"one", "two", "mixed"}
  /\ torn \subseteq {"memory", "drive"}
  /\ saved.complete \in BOOLEAN

\* Until the next boot.
HalfInMemory == mem \in Blocks /\ NeverMeet(mem) /\ fd_table = [d \in Fd |-> Closed] /\ Marks

Memory == IF "memory" \in torn THEN HalfInMemory ELSE InMemory

IInv == Memory /\ OnDrive /\ Flags /\ (saves = 0 => Counted(mem, unnamed))

LEMMA WithinSame == ASSUME NEW m \in Blocks, NEW n, n.root_dir = m.root_dir PROVE Within(m, n)
BY DEF Within, Entries, First

LEMMA WithinLater ==
  ASSUME NEW o, NEW m, NEW n, Within(o, m), Older(o.fat, m.fat), Grows(m, n)
  PROVE  Within(o, n) /\ Older(o.fat, n.fat)
<1>1. Within(o, n)
  BY DEF Within, Grows, Extends, SameEntry, First
<1> QED BY <1>1, OlderFurther DEF Grows

LEMMA ChainBlocks ==
  ASSUME NEW m, NEW i
  PROVE  \A b \in Chain(m, First(m, i)) : b \in DataBlock /\ \E k \in Index : b = Way(m, i)[k]
BY DEF Chain, Way, Index

LEMMA ChainsApart == ASSUME NEW m, NeverMeet(m) PROVE ChainsApartIn(m)
<1>1. ASSUME NEW i \in Entries(m), NEW j \in Entries(m), i # j,
             NEW b \in Chain(m, First(m, i)) \cap Chain(m, First(m, j))
      PROVE  FALSE
  <2>1. PICK k \in Index : b = Way(m, i)[k]
    BY ChainBlocks
  <2>2. PICK l \in Index : b = Way(m, j)[l]
    BY ChainBlocks
  <2>3. b \in DataBlock
    BY ChainBlocks
  <2> QED BY <1>1, <2>1, <2>2, <2>3 DEF NeverMeet
<1> QED BY <1>1 DEF ChainsApartIn, First

LEMMA ChainsEnd == ASSUME NEW m, Sound(m) PROVE ChainsEndIn(m)
BY DEF Sound, ChainsEndIn, Ends, Way, First

-----------------------------------------------------------------------------
LEMMA InitIInv == Init => IInv
<1> SUFFICES ASSUME Init PROVE IInv
  OBVIOUS
<1>1. /\ mem = Formatted /\ fd_table = [d \in Fd |-> Closed] /\ overrun = FALSE /\ unnamed = {} /\ exact = TRUE
      /\ drive \in BOOLEAN /\ disk = BlankDisk /\ fs_disk_enabled = FALSE /\ saves = 0
      /\ history = "one" /\ torn = {} /\ saved = [complete |-> FALSE, files |-> {}]
  BY DEF Init, FsInit
<1>2. Memory
  <2>1. FdsIn(mem, fd_table)
    BY <1>1 DEF FdsIn
  <2> QED BY <1>1, <2>1, FormattedFacts DEF Memory, InMemory, Marks
<1>3. OnDrive
  <2>1. Within(disk, mem)
    BY <1>1, FormattedFacts, EmptySound DEF Within
  <2>2. Older(disk.fat, mem.fat)
    BY <1>1, FormattedFacts DEF Older
  <2> QED BY <1>1, <2>1, <2>2, FormattedFacts, SoundApart DEF OnDrive
<1>4. Flags
  BY <1>1 DEF Flags
<1>5. Counted(mem, unnamed)
  BY <1>1, FormattedFacts
<1> QED BY <1>2, <1>3, <1>4, <1>5 DEF IInv

(* What is on the drive when a later state was copied there up to a stop.  *)
LEMMA CopiedIsOlder ==
  ASSUME NEW m \in Blocks, Sound(m), NEW o \in Blocks, Within(o, m), Older(o.fat, m.fat),
         NEW stop, NEW n, CopiedTo(m, o, stop, n)
  PROVE  Within(n, m) /\ Older(n.fat, m.fat) /\ NeverMeet(n)
<1>1. Older(n.fat, m.fat)
  BY DEF CopiedTo, Older
<1>2. Within(n, m)
  <2> SUFFICES ASSUME NEW j \in Entries(n)
               PROVE  /\ j \in Entries(m)
                      /\ First(n, j) = 0 \/ /\ m.root_dir[j].name = n.root_dir[j].name
                                            /\ First(m, j) = First(n, j)
    BY DEF Within
  <2>1. CASE j \in Entries(m) /\ n.root_dir[j] = m.root_dir[j]
    BY <2>1 DEF First
  <2>2. CASE j \in Entries(o) /\ n.root_dir[j] = o.root_dir[j]
    BY <2>2 DEF Within, First
  <2>3. CASE j \in Entries(m) /\ First(n, j) = 0
    BY <2>3
  <2> QED BY <2>1, <2>2, <2>3 DEF CopiedTo
<1>3. n \in Blocks
  BY DEF CopiedTo
<1> QED BY <1>1, <1>2, <1>3, OlderApart

(* It is sound when what was there is, the FAT is of one state and no      *)
(* entry is half a one.                                                    *)
LEMMA CopiedIsSound ==
  ASSUME NEW m \in Blocks, Sound(m), NEW o \in Blocks, Sound(o), Within(o, m), Older(o.fat, m.fat),
         NEW stop, stop.block \in Nat, NEW n, CopiedTo(m, o, stop, n), n.fat \in {o.fat, m.fat}, stop.piece = <<>>
  PROVE  Sound(n)
<1>1. CASE n.fat = m.fat
  <2>1. Within(n, m)
    BY CopiedIsOlder
  <2>2. ASSUME NEW j \in Entries(n) PROVE First(n, j) # 0
    <3>1. 0 \notin DataBlock
      BY Sizes DEF Free
    <3>2. CASE j \in Entries(m) /\ n.root_dir[j] = m.root_dir[j]
      BY <3>1, <3>2, SoundFirst DEF First
    <3>3. CASE j \in Entries(o) /\ n.root_dir[j] = o.root_dir[j]
      BY <3>1, <3>3, SoundFirst DEF First
    <3> QED BY <3>2, <3>3 DEF CopiedTo
  <2> QED BY <1>1, <2>1, <2>2, OlderDirectory
<1>2. CASE n.fat # m.fat
  <2>1. ~Passed(stop, 1)
    BY <1>2 DEF CopiedTo
  <2>2. stop.block < 2
    BY <2>1 DEF Passed
  <2>3. n.fat = o.fat /\ n.root_dir = o.root_dir
    BY <1>2, <2>2 DEF CopiedTo
  <2> QED BY <2>3, SameBlocks
<1> QED BY <1>1, <1>2

LEMMA SaveKeeps ==
  ASSUME IInv, history # "mixed", "memory" \notin torn, NEW stop \in Stops(mem, disk), Save(stop)
  PROVE  IInv'
<1>1. /\ InMemory /\ mem \in Blocks /\ Sound(mem) /\ disk \in Blocks /\ NeverMeet(disk) /\ Flags
      /\ "drive" \notin torn => Sound(disk)
      /\ history = "one" => Within(disk, mem) /\ Older(disk.fat, mem.fat)
  BY DEF IInv, Memory, InMemory, OnDrive
<1> DEFINE tears == disk'.fat \notin {disk.fat, mem.fat} \/ stop.piece # <<>>
<1>2. /\ UNCHANGED <<mem, fd_table, overrun, unnamed, exact, drive, fs_disk_enabled>>
      /\ disk' = CopyBlocks(mem, disk, stop)
      /\ saved' = [complete |-> Complete(stop), files |-> IF Complete(stop) THEN FilesOf(mem) ELSE {}]
      /\ history' = IF Complete(stop) THEN "one"
                    ELSE IF history = "two" /\ (stop.block > 0 \/ stop.part > 0) THEN "mixed" ELSE history
      /\ torn' = IF Passed(stop, 2) THEN torn \ {"drive"}
                 ELSE IF tears THEN torn \cup {"drive"} ELSE torn
      /\ saves' = saves + 1
  BY DEF Save
<1>3. torn' \subseteq {"memory", "drive"} /\ "memory" \notin torn'
  BY <1>1, <1>2 DEF Flags
<1>4. Memory'
  BY <1>1, <1>2, <1>3 DEF Memory, InMemory, Marks
<1>5. CopiedTo(mem, disk, stop, disk')
  BY <1>1, <1>2, CopyFacts
<1>6. /\ stop.block \in Nat /\ (stop.block = 0 => stop.part = 0)
      /\ stop.piece # <<>> => stop.block = 2
  BY <1>1, StopFacts
<1>7. saves' \in Nat /\ saves' # 0
  BY <1>1, <1>2 DEF Flags
<1>8. disk' \in Blocks
  BY <1>5 DEF CopiedTo
<1>9. Passed(stop, 2) => disk'.fat = mem.fat /\ disk'.root_dir = mem.root_dir /\ Sound(disk')
  <2>1. ASSUME Passed(stop, 2) PROVE disk'.fat = mem.fat /\ disk'.root_dir = mem.root_dir
    BY <1>5, <1>6, <2>1 DEF CopiedTo, Passed
  <2> QED BY <1>1, <2>1, SameBlocks
<1>10. CASE Complete(stop)
  <2>1. Passed(stop, 2)
    BY <1>10, Sizes DEF Complete, Passed
  <2>2. \A b \in Allocated(mem) : disk'.data[b] = mem.data[b]
    BY <1>5, <1>10 DEF CopiedTo
  <2>3. FilesOf(disk') = FilesOf(mem) /\ Sound(disk') /\ NeverMeet(disk')
    BY <1>1, <1>9, <2>1, <2>2, SameFiles, SoundApart
  <2>4. history' = "one" /\ saved'.complete = TRUE /\ saved'.files = FilesOf(mem) /\ "drive" \notin torn'
    BY <1>2, <1>10, <2>1
  <2>5. Within(disk', mem') /\ Older(disk'.fat, mem'.fat)
    BY <1>2, <1>8, <1>9, <2>1, WithinSame DEF Older
  <2>6. OnDrive'
    BY <1>8, <2>3, <2>4, <2>5 DEF OnDrive
  <2>7. Flags'
    BY <1>1, <1>2, <1>3, <1>7, <2>4 DEF Flags
  <2> QED BY <1>4, <1>7, <2>6, <2>7 DEF IInv
<1>11. CASE ~Complete(stop)
  <2>1. saved'.complete = FALSE
    BY <1>2, <1>11
  <2>2. /\ history' \in {"one", "two", "mixed"} /\ (history' = "one" => history = "one")
        /\ history' = "two" => stop.block = 0
        /\ history' # "mixed" => history' = history
    BY <1>1, <1>2, <1>6, <1>11 DEF Flags
  <2>3. ASSUME history' = "one"
        PROVE  Within(disk', mem') /\ Older(disk'.fat, mem'.fat) /\ NeverMeet(disk')
    BY <1>1, <1>2, <1>5, <2>2, <2>3, CopiedIsOlder
  <2>4. ASSUME history' = "one", "drive" \notin torn' PROVE Sound(disk')
    <3>1. CASE Passed(stop, 2)
      BY <1>9, <3>1
    <3>2. CASE ~Passed(stop, 2)
      <4>1. ~tears /\ "drive" \notin torn
        BY <1>2, <2>4, <3>2
      <4>2. disk'.fat \in {disk.fat, mem.fat} /\ stop.piece = <<>>
        BY <4>1
      <4> QED BY <1>1, <1>5, <1>6, <2>2, <2>4, <4>1, <4>2, CopiedIsSound
    <3> QED BY <3>1, <3>2
  <2>5. ASSUME history' = "two"
        PROVE  NeverMeet(disk') /\ ("drive" \notin torn' => Sound(disk'))
    <3>1. disk'.fat = disk.fat /\ disk'.root_dir = disk.root_dir /\ stop.piece = <<>> /\ ~Passed(stop, 2)
      BY <1>5, <1>6, <2>2, <2>5 DEF CopiedTo, Passed
    <3>2. NeverMeet(disk') /\ (Sound(disk) => Sound(disk'))
      BY <1>1, <3>1, SameBlocks DEF NeverMeet
    <3>3. torn' = torn
      BY <1>2, <3>1
    <3> QED BY <1>1, <3>2, <3>3
  <2>6. OnDrive'
    BY <1>8, <2>1, <2>2, <2>3, <2>4, <2>5 DEF OnDrive
  <2>7. Flags'
    BY <1>1, <1>2, <1>3, <1>7, <2>1, <2>2 DEF Flags
  <2> QED BY <1>4, <1>7, <2>6, <2>7 DEF IInv
<1> QED BY <1>10, <1>11

(* What a boot finds in memory.                                            *)
LEMMA LoadedFacts ==
  ASSUME disk \in Blocks, NeverMeet(disk), "drive" \notin torn => Sound(disk),
         NEW stop \in Stops(disk, Formatted), NEW l, l = Loaded(stop)
  PROVE  /\ l \in Blocks /\ NeverMeet(l)
         /\ stop.piece = <<>> /\ ("drive" \notin torn \/ l.root_dir = <<>>) => Sound(l)
         /\ Complete(stop) => /\ l.fat = disk.fat /\ l.root_dir = disk.root_dir
                              /\ Sound(disk) => FilesOf(l) = FilesOf(disk)
<1>1. CopiedTo(disk, Formatted, stop, l)
  BY CopyFacts, FormattedFacts DEF Loaded
<1>2. l \in Blocks /\ stop.block \in Nat
  BY <1>1, StopFacts, FormattedFacts DEF CopiedTo
<1>3. Entries(Formatted) = {}
  BY FormattedFacts, EmptySound
<1>4. CASE stop.block < 2
  <2>1. l.root_dir = <<>> /\ ~Complete(stop)
    BY <1>1, <1>4, FormattedFacts, Sizes DEF CopiedTo, Complete
  <2>2. Sound(l)
    BY <2>1, EmptySound
  <2> QED BY <1>2, <2>1, <2>2, SoundApart
<1>5. CASE stop.block >= 2
  <2>1. l.fat = disk.fat
    BY <1>1, <1>2, <1>5 DEF CopiedTo, Passed
  <2>2. Within(l, disk)
    <3> SUFFICES ASSUME NEW j \in Entries(l)
                 PROVE  /\ j \in Entries(disk)
                        /\ First(l, j) = 0 \/ /\ disk.root_dir[j].name = l.root_dir[j].name
                                              /\ First(disk, j) = First(l, j)
      BY DEF Within
    <3>1. CASE j \in Entries(disk) /\ l.root_dir[j] = disk.root_dir[j]
      BY <3>1 DEF First
    <3>2. CASE j \in Entries(disk) /\ First(l, j) = 0
      BY <3>2
    <3> QED BY <1>1, <1>3, <3>1, <3>2 DEF CopiedTo
  <2>3. NeverMeet(l)
    BY <1>2, <2>1, <2>2, PieceApart
  <2>4. ASSUME stop.piece = <<>>, "drive" \notin torn \/ l.root_dir = <<>> PROVE Sound(l)
    <3>1. CASE l.root_dir = <<>>
      BY <3>1, EmptySound
    <3>2. CASE "drive" \notin torn
      <4>1. ASSUME NEW j \in Entries(l) PROVE First(l, j) # 0
        <5>1. j \in Entries(disk) /\ l.root_dir[j] = disk.root_dir[j]
          BY <1>1, <1>3, <2>4 DEF CopiedTo
        <5>2. First(disk, j) \in DataBlock /\ 0 \notin DataBlock
          BY <3>2, <5>1, SoundFirst, Sizes DEF Free
        <5> QED BY <5>1, <5>2 DEF First
      <4> QED BY <2>1, <2>2, <3>2, <4>1, OlderDirectory
    <3> QED BY <2>4, <3>1, <3>2
  <2>5. ASSUME Complete(stop)
        PROVE  l.root_dir = disk.root_dir /\ (Sound(disk) => FilesOf(l) = FilesOf(disk))
    <3>1. Passed(stop, 2)
      BY <2>5, Sizes DEF Complete, Passed
    <3>2. l.root_dir = disk.root_dir /\ \A b \in Allocated(disk) : l.data[b] = disk.data[b]
      BY <1>1, <2>5, <3>1 DEF CopiedTo
    <3> QED BY <2>1, <3>2, SameFiles
  <2> QED BY <1>2, <2>1, <2>3, <2>4, <2>5
<1> QED BY <1>2, <1>4, <1>5

LEMMA BootKeeps ==
  ASSUME IInv, history # "mixed", NEW stop \in Stops(disk, Formatted), Boot(stop)
  PROVE  IInv'
<1>1. disk \in Blocks /\ NeverMeet(disk) /\ ("drive" \notin torn => Sound(disk)) /\ Flags
  BY DEF IInv, OnDrive
<1> DEFINE tears == stop.piece # <<>> \/ ("drive" \in torn /\ mem'.root_dir # <<>>)
<1>2. /\ mem' = Loaded(stop) /\ fd_table' = [d \in Fd |-> Closed]
      /\ overrun' = FALSE /\ unnamed' = {} /\ exact' = FALSE
      /\ fs_disk_enabled' = LoadSucceeds(stop)
      /\ history' = IF LoadSucceeds(stop) \/ disk = BlankDisk THEN "one" ELSE "two"
      /\ torn' = IF tears THEN torn \cup {"memory"} ELSE torn \ {"memory"}
      /\ saves' = saves + 1
      /\ UNCHANGED <<drive, disk, saved>>
  BY DEF Boot
<1>3. /\ mem' \in Blocks /\ NeverMeet(mem')
      /\ stop.piece = <<>> /\ ("drive" \notin torn \/ mem'.root_dir = <<>>) => Sound(mem')
      /\ Complete(stop) => mem'.fat = disk.fat /\ mem'.root_dir = disk.root_dir
  BY <1>1, <1>2, LoadedFacts
<1>4. "drive" \in torn' <=> "drive" \in torn
  BY <1>2
<1>5. Memory'
  <2>1. Marks' /\ FdsIn(mem', fd_table')
    BY <1>2 DEF FdsIn, Marks
  <2>2. "memory" \notin torn' => Sound(mem')
    BY <1>2, <1>3
  <2> QED BY <1>2, <1>3, <2>1, <2>2 DEF Memory, HalfInMemory, InMemory
<1>6. history' = "one" => Within(disk', mem') /\ Older(disk'.fat, mem'.fat)
  <2>1. CASE LoadSucceeds(stop)
    BY <1>1, <1>2, <1>3, <2>1, WithinSame DEF LoadSucceeds, Older
  <2>2. CASE disk = BlankDisk
    <3>1. Within(disk, mem')
      BY <2>2, FormattedFacts, EmptySound DEF Within
    <3>2. Older(disk.fat, mem'.fat)
      BY <2>2, FormattedFacts DEF Older
    <3> QED BY <1>2, <3>1, <3>2
  <2>3. CASE ~(LoadSucceeds(stop) \/ disk = BlankDisk)
    BY <1>2, <2>3
  <2> QED BY <2>1, <2>2, <2>3
<1>7. saves' \in Nat /\ saves' # 0 /\ history' \in {"one", "two"}
  BY <1>1, <1>2 DEF Flags
<1>8. OnDrive'
  BY <1>1, <1>2, <1>4, <1>6, <1>7 DEF OnDrive, IInv
<1>9. Flags'
  <2>1. LoadSucceeds(stop) \in BOOLEAN /\ torn' \subseteq {"memory", "drive"}
    BY <1>1, <1>2 DEF LoadSucceeds, Blocks, Flags
  <2> QED BY <1>1, <1>2, <1>7, <2>1 DEF Flags
<1> QED BY <1>5, <1>7, <1>8, <1>9 DEF IInv

LEMMA NextIInv == IInv /\ [Next]_vars => IInv'
<1> SUFFICES ASSUME IInv, [Next]_vars PROVE IInv'
  OBVIOUS
<1>1. CASE Usable /\ FileOperation /\ UNCHANGED diskVars
  <2>1. InMemory /\ "memory" \notin torn
    BY <1>1 DEF IInv, Memory, Usable
  <2>2. InMemory' /\ Grows(mem, mem') /\ (Counted(mem, unnamed) => Counted(mem', unnamed'))
    BY <1>1, <2>1, FileOperationKeeps DEF MemoryGrows
  <2>3. UNCHANGED <<drive, disk, fs_disk_enabled, saves, history, torn, saved>>
    BY <1>1 DEF diskVars
  <2>4. history = "one" => Within(disk, mem') /\ Older(disk.fat, mem'.fat)
    BY <2>2, WithinLater DEF IInv, OnDrive
  <2>5. OnDrive'
    BY <2>3, <2>4 DEF OnDrive, IInv
  <2>6. Flags'
    BY <2>3 DEF Flags, IInv
  <2>7. saves' = 0 => Counted(mem', unnamed')
    BY <2>2, <2>3 DEF IInv
  <2>8. Memory'
    BY <2>1, <2>2, <2>3 DEF Memory
  <2> QED BY <2>5, <2>6, <2>7, <2>8 DEF IInv
<1>2. CASE SetDiskMode
  <2>1. /\ UNCHANGED <<mem, fd_table, overrun, unnamed, exact, drive, disk, saves, history, torn, saved>>
        /\ fs_disk_enabled' \in BOOLEAN
    BY <1>2 DEF SetDiskMode
  <2> QED BY <2>1 DEF IInv, Memory, InMemory, HalfInMemory, Marks, OnDrive, Flags
<1>3. CASE history # "mixed" /\ Usable /\ \E stop \in Stops(mem, disk) : Save(stop)
  BY <1>3, SaveKeeps DEF Usable
<1>4. CASE history # "mixed" /\ \E stop \in Stops(disk, Formatted) : Boot(stop)
  BY <1>4, BootKeeps
<1>5. CASE UNCHANGED vars
  <2>1. UNCHANGED <<mem, fd_table, overrun, unnamed, exact, drive, disk, fs_disk_enabled, saves, history, torn, saved>>
    BY <1>5 DEF vars, diskVars
  <2> QED BY <2>1 DEF IInv, Memory, InMemory, HalfInMemory, Marks, OnDrive, Flags
<1> QED BY <1>1, <1>2, <1>3, <1>4, <1>5 DEF Next

(* The invariant holds in every state.                                     *)
THEOREM InvariantHolds == Spec => []IInv
BY InitIInv, NextIInv, PTL DEF Spec

(* In memory chains never meet, through any calls on any number of files,  *)
(* and after a load that stopped in any sector; they end unless the last   *)
(* entry is half a one or the drive was torn.  The state is well typed.    *)
(* (fs_alloc_block, fs_write, fs_load_from_disk)                           *)
THEOREM MemoryStaysSound == Spec => []MemorySound
<1>1. IInv => MemorySound
  <2> SUFFICES ASSUME IInv PROVE MemorySound
    OBVIOUS
  <2>1. /\ mem \in Blocks /\ NeverMeet(mem) /\ ("memory" \notin torn => Sound(mem)) /\ Marks
        /\ fd_table \in [Fd -> Descriptor \cup {Closed}]
    BY SoundApart DEF IInv, Memory, InMemory, HalfInMemory, FdsIn
  <2>2. TypeOK
    BY <2>1 DEF IInv, OnDrive, Flags, Marks, TypeOK
  <2> QED BY <2>1, <2>2, ChainsApart, ChainsEnd DEF MemorySound
<1> QED BY <1>1, InvariantHolds, PTL

(* On the drive they never meet either, wherever in whichever sector a     *)
(* save stopped, and end unless that was between two entries of the FAT or *)
(* in an entry: the order in which fs_save_to_disk writes the blocks       *)
(* matters.                                                                *)
THEOREM DriveStaysSound == Spec => []DriveSound
<1>1. IInv => DriveSound
  BY ChainsApart, ChainsEnd DEF IInv, OnDrive, DriveSound
<1> QED BY <1>1, InvariantHolds, PTL

(* Every block that is taken is in a file or was given to a file without a *)
(* name, and free blocks are counted right, also after calls that failed   *)
(* half way.  (fs_create, fs_open, fs_write)                               *)
THEOREM BlocksAreNotLost == Spec => []NoBlockLost
<1>1. IInv => NoBlockLost
  <2> SUFFICES ASSUME IInv, saves = 0
               PROVE  /\ mem.free_blocks + Cardinality(Allocated(mem)) = MaxBlocks - 3
                      /\ \A b \in Allocated(mem) \ unnamed :
                           \E i \in Entries(mem) : b \in Chain(mem, mem.root_dir[i].first_block)
    BY DEF NoBlockLost
  <2>1. Counted(mem, unnamed)
    BY DEF IInv
  <2>2. ASSUME NEW b \in Allocated(mem) \ unnamed
        PROVE  \E i \in Entries(mem) : b \in Chain(mem, mem.root_dir[i].first_block)
    <3>1. PICK i \in Entries(mem), k \in Index : b = Way(mem, i)[k]
      BY <2>1 DEF Counted, Allocated
    <3> QED BY <3>1 DEF Chain, Way, First, Index, Allocated
  <2>3. mem.free_blocks + Cardinality(Allocated(mem)) = MaxBlocks - 3
    <3>1. IsFiniteSet(DataBlock) /\ Cardinality(DataBlock) = FatEntries - 3
      BY FS_Interval, Sizes DEF DataBlock
    <3>2. FreeBlocks(mem) \subseteq DataBlock /\ DataBlock \cap FreeBlocks(mem) = FreeBlocks(mem)
      BY DEF FreeBlocks
    <3>3. IsFiniteSet(FreeBlocks(mem)) /\ Cardinality(FreeBlocks(mem)) \in Nat
      BY <3>1, <3>2, FS_Subset, FS_CardinalityType
    <3>4. Cardinality(Allocated(mem)) = (FatEntries - 3) - Cardinality(FreeBlocks(mem))
      <4>1. \A S, T : IsFiniteSet(S) =>
                      Cardinality(S \ T) = Cardinality(S) - Cardinality(S \cap T)
        BY FS_Difference
      <4>2. Cardinality(DataBlock \ FreeBlocks(mem))
              = Cardinality(DataBlock) - Cardinality(DataBlock \cap FreeBlocks(mem))
        BY <3>1, <4>1
      <4> QED BY <3>1, <3>2, <4>2 DEF Allocated
    <3>5. mem.free_blocks = Cardinality(FreeBlocks(mem)) + (MaxBlocks - FatEntries)
      BY <2>1 DEF Counted
    <3> QED BY <3>3, <3>4, <3>5, Sizes
  <2> QED BY <2>2, <2>3
<1> QED BY <1>1, InvariantHolds, PTL

(* A descriptor stays in the chain of its file, whatever is written        *)
(* through others.  (fs_open, fs_read, fs_write, fs_close)                 *)
THEOREM DescriptorsStayInTheirFile == Spec => []DescriptorsInTheirFile
<1>1. IInv => DescriptorsInTheirFile
  <2> SUFFICES ASSUME IInv, NEW d \in OpenFds
               PROVE  /\ \E i \in Entries(mem) : mem.root_dir[i].first_block = fd_table[d].first_block
                      /\ fd_table[d].current_block \in Chain(mem, fd_table[d].first_block)
    BY DEF DescriptorsInTheirFile
  <2>1. InMemory
    BY DEF IInv, Memory, HalfInMemory, OpenFds
  <2>2. fd_table[d] \in Descriptor /\ \E i, k : FdAt(mem, fd_table[d], i, k)
    BY <2>1, OpenFdFacts
  <2>3. PICK i, k : FdAt(mem, fd_table[d], i, k)
    BY <2>2
  <2>4. /\ i \in Entries(mem) /\ k \in Index /\ fd_table[d].first_block = First(mem, i)
        /\ fd_table[d].current_block = Way(mem, i)[k] /\ fd_table[d].current_block \in DataBlock
    BY <2>2, <2>3 DEF FdAt, Descriptor
  <2> QED BY <2>4 DEF Chain, Way, First, Index
<1> QED BY <1>1, InvariantHolds, PTL

(* A boot that loads everything brings back the files of the last complete *)
(* save, names, sizes and bytes.  (fs_save_to_disk, fs_load_from_disk)     *)
THEOREM LoadsWhatWasSaved == Spec => LoadBringsBackTheSave
<1> DEFINE Back == saved.complete =>
                     \A stop \in Stops(disk, Formatted) :
                       LoadSucceeds(stop) /\ Boot(stop) => FilesOf(mem') = saved.files
<1>1. IInv => [Back]_vars
  <2> SUFFICES ASSUME IInv, saved.complete, NEW stop \in Stops(disk, Formatted), LoadSucceeds(stop), Boot(stop)
               PROVE  FilesOf(mem') = saved.files
    OBVIOUS
  <2>1. /\ disk \in Blocks /\ NeverMeet(disk) /\ Sound(disk) /\ saved.files = FilesOf(disk)
        /\ "drive" \notin torn
    BY DEF IInv, OnDrive
  <2>2. mem' = Loaded(stop) /\ Complete(stop)
    BY DEF Boot, LoadSucceeds
  <2> QED BY <2>1, <2>2, LoadedFacts
<1>2. []IInv => [][Back]_vars
  BY <1>1, PTL
<1> QED BY <1>2, InvariantHolds DEF LoadBringsBackTheSave

(***************************************************************************)
(* The files a client sees, of blocks m and descriptors fds.  Exactly: of  *)
(* the descriptors of a file with one to write, it is the only one;        *)
(* another has the size of its entry; every byte up to a size has its      *)
(* block; and no name was cut, so that no two files have the same.         *)
(***************************************************************************)
Opened(fds) == { d \in Fd : fds[d] # Closed }
Writers(m, fds, i) ==
  { d \in Opened(fds) : fds[d].first_block = First(m, i) /\ "write" \in fds[d].mode }
SizeIn(m, fds, i) ==
  IF Writers(m, fds, i) = {} THEN m.root_dir[i].size ELSE fds[Min(Writers(m, fds, i))].file_size
EntryNamed(m, name) == CHOOSE j \in Entries(m) : m.root_dir[j].name = name
ContentsIn(m, fds) ==
  [name \in { m.root_dir[i].name : i \in Entries(m) } |->
     Content(m, First(m, EntryNamed(m, name)), SizeIn(m, fds, EntryNamed(m, name)))]
NameIn(m, fd) == m.root_dir[CHOOSE i \in Entries(m) : First(m, i) = fd.first_block].name
HandleIn(m, fd) == [name |-> NameIn(m, fd), position |-> fd.position, mode |-> fd.mode]
HandlesIn(m, fds) == [d \in Fd |-> IF fds[d] # Closed THEN HandleIn(m, fds[d]) ELSE Closed]

Backed(m, i, size) ==
  \A p \in 0 .. size - 1 : p \div BlockSize \in Index /\ Way(m, i)[p \div BlockSize] \in DataBlock

Distinct(m) == \A i, j \in Entries(m) : m.root_dir[i].name = m.root_dir[j].name => i = j

Exactly(m, fds) ==
  /\ Distinct(m)
  /\ \A d, e \in Opened(fds) : d # e /\ fds[d].first_block = fds[e].first_block => "write" \notin fds[d].mode
  /\ \A i \in Entries(m) : Backed(m, i, m.root_dir[i].size)
  /\ \A d \in Opened(fds), i \in Entries(m) : fds[d].first_block = First(m, i) =>
       /\ fds[d].position <= fds[d].file_size
       /\ Backed(m, i, fds[d].file_size)
       /\ "write" \notin fds[d].mode => fds[d].file_size = m.root_dir[i].size

Ok(m, fds) == m \in Blocks /\ Sound(m) /\ FdsIn(m, fds) /\ Exactly(m, fds)

LEMMA WhatIsSeen ==
  /\ exact => Contents = ContentsIn(mem, fd_table) /\ Handles = HandlesIn(mem, fd_table)
  /\ ~exact => Contents = [n \in {} |-> <<>>] /\ Handles = [d \in Fd |-> Closed]
<1>1. ASSUME exact PROVE Contents = ContentsIn(mem, fd_table)
  <2>1. ASSUME NEW i PROVE SizeOf(i) = SizeIn(mem, fd_table, i)
    BY DEF SizeOf, SizeIn, Writers, Opened, OpenFds, First
  <2> QED BY <1>1, <2>1 DEF Contents, ContentsIn, EntryNamed, First
<1>2. ASSUME exact PROVE Handles = HandlesIn(mem, fd_table)
  BY <1>2 DEF Handles, HandlesIn, HandleIn, NameOf, NameIn, First, OpenFds
<1>3. ASSUME ~exact PROVE Contents = [n \in {} |-> <<>>] /\ Handles = [d \in Fd |-> Closed]
  BY <1>3 DEF Contents, Handles
<1> QED BY <1>1, <1>2, <1>3

(* A first block is the first block of one file only.                      *)
LEMMA OneFile ==
  ASSUME NEW m \in Blocks, Sound(m), NEW i \in Entries(m), NEW j \in Entries(m), First(m, i) = First(m, j)
  PROVE  i = j
<1>1. 0 \in Index /\ Way(m, i)[0] = First(m, i) /\ Way(m, j)[0] = First(m, j) /\ First(m, i) \in DataBlock
  BY WayFacts, SoundFirst, Sizes DEF Index
<1> QED BY <1>1 DEF Sound

LEMMA EntryOfName ==
  ASSUME NEW m, Distinct(m), NEW i \in Entries(m)
  PROVE  EntryNamed(m, m.root_dir[i].name) = i
BY DEF Distinct, EntryNamed

LEMMA NameOfEntry ==
  ASSUME NEW m \in Blocks, Sound(m), NEW i \in Entries(m), NEW fd, fd.first_block = First(m, i)
  PROVE  NameIn(m, fd) = m.root_dir[i].name
<1>1. (CHOOSE j \in Entries(m) : First(m, j) = fd.first_block) = i
  BY OneFile
<1> QED BY <1>1 DEF NameIn

Shows(f, m, fds) ==
  /\ f = [x \in DOMAIN f |-> f[x]]
  /\ DOMAIN f = { m.root_dir[i].name : i \in Entries(m) }
  /\ \A i \in Entries(m) : f[m.root_dir[i].name] = Content(m, First(m, i), SizeIn(m, fds, i))

LEMMA ContentsAre ==
  ASSUME NEW m, Distinct(m), NEW fds
  PROVE  Shows(ContentsIn(m, fds), m, fds)
<1> DEFINE f == ContentsIn(m, fds)
<1>1. DOMAIN f = { m.root_dir[i].name : i \in Entries(m) } /\ f = [x \in DOMAIN f |-> f[x]]
  BY DEF ContentsIn
<1>2. ASSUME NEW i \in Entries(m)
      PROVE  f[m.root_dir[i].name] = Content(m, First(m, i), SizeIn(m, fds, i))
  BY EntryOfName DEF ContentsIn
<1> HIDE DEF f
<1>3. Shows(f, m, fds)
  BY <1>1, <1>2 DEF Shows
<1> QED BY <1>3 DEF f

LEMMA SizeFacts ==
  ASSUME NEW m, NEW fds, Ok(m, fds), NEW i \in Entries(m)
  PROVE  /\ SizeIn(m, fds, i) \in 0 .. MaxSize /\ Backed(m, i, SizeIn(m, fds, i))
         /\ \A d \in Opened(fds) : fds[d].first_block = First(m, i) =>
              SizeIn(m, fds, i) = fds[d].file_size
         /\ (\A d \in Opened(fds) : fds[d].first_block # First(m, i)) =>
              SizeIn(m, fds, i) = m.root_dir[i].size
<1>1. m \in Blocks /\ Exactly(m, fds) /\ FdsIn(m, fds)
  BY DEF Ok
<1>2. m.root_dir[i].size \in 0 .. MaxSize
  BY <1>1, BlockFacts DEF Entry
<1>3. \A d \in Opened(fds) : d \in Fd /\ fds[d].file_size \in 0 .. MaxSize
  BY <1>1 DEF FdsIn, Opened, Descriptor
<1>4. \A i1 \in Writers(m, fds, i) : i1 \in Opened(fds) /\ fds[i1].first_block = First(m, i) /\ "write" \in fds[i1].mode
  BY DEF Writers
<1>5. Writers(m, fds, i) # {} => Min(Writers(m, fds, i)) \in Writers(m, fds, i)
  <2>1. Writers(m, fds, i) \subseteq Nat
    BY Sizes DEF Writers, Opened
  <2> QED BY <2>1, MinIsLeast
<1>6. SizeIn(m, fds, i) \in 0 .. MaxSize /\ Backed(m, i, SizeIn(m, fds, i))
  BY <1>1, <1>2, <1>3, <1>4, <1>5 DEF SizeIn, Exactly
<1>7. ASSUME NEW d \in Opened(fds), fds[d].first_block = First(m, i)
      PROVE  SizeIn(m, fds, i) = fds[d].file_size
  <2>1. CASE "write" \in fds[d].mode
    <3>1. d \in Writers(m, fds, i)
      BY <1>7, <2>1 DEF Writers
    <3>2. Min(Writers(m, fds, i)) = d
      BY <1>1, <1>4, <1>5, <1>7, <3>1 DEF Exactly
    <3> QED BY <3>1, <3>2 DEF SizeIn
  <2>2. CASE "write" \notin fds[d].mode
    <3>1. Writers(m, fds, i) = {}
      BY <1>1, <1>4, <1>7, <2>2 DEF Exactly
    <3> QED BY <1>1, <1>7, <2>2, <3>1 DEF SizeIn, Exactly
  <2> QED BY <2>1, <2>2
<1>8. ASSUME \A d \in Opened(fds) : fds[d].first_block # First(m, i)
      PROVE  SizeIn(m, fds, i) = m.root_dir[i].size
  BY <1>4, <1>8 DEF SizeIn
<1> QED BY <1>6, <1>7, <1>8

LEMMA SameContent ==
  ASSUME NEW m, NEW n, NEW i, NEW j, NEW size \in Nat,
         \A p \in 0 .. size - 1 :
           n.data[Way(n, j)[p \div BlockSize]][p % BlockSize]
             = m.data[Way(m, i)[p \div BlockSize]][p % BlockSize]
  PROVE  Content(n, First(n, j), size) = Content(m, First(m, i), size)
<1>1. \A x \in 1 .. size : x - 1 \in 0 .. size - 1
  OBVIOUS
<1> QED BY <1>1 DEF Content, Way

\* Of the same blocks, what is backed has the same content.
LEMMA UnchangedContent ==
  ASSUME NEW m \in Blocks, Sound(m), NEW n, Grows(m, n), NEW i \in Entries(m), NEW size \in Nat,
         Backed(m, i, size), \A c \in DataBlock \ FreeBlocks(m) : n.data[c] = m.data[c]
  PROVE  /\ Content(n, First(n, i), size) = Content(m, First(m, i), size)
         /\ Backed(n, i, size)
<1>1. ASSUME NEW p \in 0 .. size - 1
      PROVE  /\ p \div BlockSize \in Index /\ Way(m, i)[p \div BlockSize] \in DataBlock \ FreeBlocks(m)
             /\ Way(n, i)[p \div BlockSize] = Way(m, i)[p \div BlockSize]
  <2>1. p \div BlockSize \in Index /\ Way(m, i)[p \div BlockSize] \in DataBlock
    BY DEF Backed
  <2> QED BY <2>1, SoundWays DEF Grows, Extends
<1>2. Backed(n, i, size)
  BY <1>1 DEF Backed
<1>3. Content(n, First(n, i), size) = Content(m, First(m, i), size)
  BY <1>1, SameContent
<1> QED BY <1>2, <1>3

\* The files with one of them new or changed.
Having(files, name, content) ==
  [n \in DOMAIN files \cup {name} |-> IF n = name THEN content ELSE files[n]]

LEMMA SameContents ==
  ASSUME NEW m, Distinct(m), NEW n, NEW fds, NEW fds2,
         Entries(n) = Entries(m),
         \A i \in Entries(m) :
           /\ n.root_dir[i].name = m.root_dir[i].name
           /\ Content(n, First(n, i), SizeIn(n, fds2, i)) = Content(m, First(m, i), SizeIn(m, fds, i))
  PROVE  ContentsIn(n, fds2) = ContentsIn(m, fds)
<1> DEFINE f == ContentsIn(m, fds)
           g == ContentsIn(n, fds2)
<1>1. Shows(f, m, fds) /\ Shows(g, n, fds2)
  <2>1. Distinct(n)
    BY DEF Distinct
  <2> QED BY <2>1, ContentsAre
<1> HIDE DEF f, g
<1>2. DOMAIN f = { m.root_dir[i].name : i \in Entries(m) } /\ DOMAIN g = DOMAIN f
  BY <1>1 DEF Shows
<1>3. \A i \in Entries(m) : g[m.root_dir[i].name] = f[m.root_dir[i].name]
  BY <1>1 DEF Shows
<1>4. f = g
  BY <1>1, <1>2, <1>3 DEF Shows
<1> QED BY <1>4 DEF f, g

LEMMA OneContentChanged ==
  ASSUME NEW m, Distinct(m), NEW n, NEW fds, NEW fds2,
         NEW e \in Entries(m), NEW content, Entries(n) = Entries(m),
         \A i \in Entries(m) :
           /\ n.root_dir[i].name = m.root_dir[i].name
           /\ Content(n, First(n, i), SizeIn(n, fds2, i))
                = IF i = e THEN content ELSE Content(m, First(m, i), SizeIn(m, fds, i))
  PROVE  ContentsIn(n, fds2) = Having(ContentsIn(m, fds), m.root_dir[e].name, content)
<1> DEFINE f == ContentsIn(m, fds)
           g == ContentsIn(n, fds2)
           h == Having(f, m.root_dir[e].name, content)
<1>1. Shows(f, m, fds) /\ Shows(g, n, fds2)
  <2>1. Distinct(n)
    BY DEF Distinct
  <2> QED BY <2>1, ContentsAre
<1> HIDE DEF f, g
<1>2. DOMAIN f = { m.root_dir[i].name : i \in Entries(m) } /\ DOMAIN g = DOMAIN f
  BY <1>1 DEF Shows
<1>3. \A i \in Entries(m) : g[m.root_dir[i].name] = IF i = e THEN content ELSE f[m.root_dir[i].name]
  BY <1>1 DEF Shows
<1>4. \A i \in Entries(m) : m.root_dir[i].name = m.root_dir[e].name <=> i = e
  BY DEF Distinct
<1>5. /\ DOMAIN h = DOMAIN f /\ h = [x \in DOMAIN h |-> h[x]]
      /\ \A x \in DOMAIN f : h[x] = IF x = m.root_dir[e].name THEN content ELSE f[x]
  BY <1>2 DEF Having
<1> HIDE DEF h
<1>6. \A x \in DOMAIN f : g[x] = h[x]
  BY <1>2, <1>3, <1>4, <1>5
<1>7. g = h
  BY <1>1, <1>2, <1>5, <1>6 DEF Shows
<1> QED BY <1>7 DEF f, g, h

LEMMA HandlesStay ==
  ASSUME NEW m \in Blocks, Sound(m), NEW n, Grows(m, n), NEW fds, FdsIn(m, fds)
  PROVE  HandlesIn(n, fds) = HandlesIn(m, fds)
<1>1. ASSUME NEW d \in Fd, fds[d] # Closed PROVE NameIn(n, fds[d]) = NameIn(m, fds[d])
  <2>1. PICK i, k : FdAt(m, fds[d], i, k)
    BY <1>1 DEF FdsIn
  <2>2. i \in Entries(m) /\ i \in Entries(n) /\ fds[d].first_block = First(m, i)
        /\ First(n, i) = First(m, i) /\ n.root_dir[i].name = m.root_dir[i].name
        /\ n \in Blocks /\ Sound(n)
    BY <2>1 DEF FdAt, Grows, Extends, SameEntry, First
  <2>3. NameIn(m, fds[d]) = m.root_dir[i].name /\ NameIn(n, fds[d]) = n.root_dir[i].name
    BY <2>2, NameOfEntry
  <2> QED BY <2>2, <2>3
<1> QED BY <1>1 DEF HandlesIn, HandleIn

LEMMA HandlesWith ==
  ASSUME NEW m, NEW fds, FdsIn(m, fds), NEW d \in Fd, NEW fd \in Descriptor
  PROVE  HandlesIn(m, [fds EXCEPT ![d] = fd]) = [HandlesIn(m, fds) EXCEPT ![d] = HandleIn(m, fd)]
<1>1. fd # Closed /\ fds \in [Fd -> Descriptor \cup {Closed}]
  BY SimpleFsAssumption DEF FdsIn
<1> QED BY <1>1 DEF HandlesIn

LEMMA HandlesWithout ==
  ASSUME NEW m, NEW fds, FdsIn(m, fds), NEW d \in Fd
  PROVE  HandlesIn(m, [fds EXCEPT ![d] = Closed]) = [HandlesIn(m, fds) EXCEPT ![d] = Closed]
<1>1. fds \in [Fd -> Descriptor \cup {Closed}]
  BY DEF FdsIn
<1> QED BY <1>1 DEF HandlesIn

LEMMA EmptyContent == ASSUME NEW m, NEW first PROVE Content(m, first, 0) = <<>>
<1>1. Content(m, first, 0) = [x \in 1 .. 0 |-> m.data[Walk(m, first)[(x - 1) \div BlockSize]][(x - 1) % BlockSize]]
  BY DEF Content
<1>2. 1 .. 0 = {}
  OBVIOUS
<1>3. <<>> = [x \in {} |-> m.data[Walk(m, first)[(x - 1) \div BlockSize]][(x - 1) % BlockSize]]
  OBVIOUS
<1> QED BY <1>1, <1>2, <1>3

LEMMA NothingBacked == ASSUME NEW m, NEW i PROVE Backed(m, i, 0)
BY DEF Backed

-----------------------------------------------------------------------------
(* A new file, as a client sees it: an empty one of this name.             *)
Made(m, n, fds, name) ==
  /\ Ok(n, fds) /\ HandlesIn(n, fds) = HandlesIn(m, fds)
  /\ name \notin DOMAIN ContentsIn(m, fds)
  /\ ContentsIn(n, fds) = Having(ContentsIn(m, fds), name, <<>>)
  /\ Lookup(n, name) # {}

LEMMA NewFileSeen ==
  ASSUME NEW m, NEW fds, Ok(m, fds), NEW name \in Names, NEW type \in {"file", "dir"},
         NEW n, n = NewFile(m, name, type), n # m
  PROVE  Made(m, n, fds, name)
<1> DEFINE b == Min(FreeBlocks(m))
           last == Len(m.root_dir) + 1
<1>1. m \in Blocks /\ Sound(m) /\ FdsIn(m, fds) /\ Exactly(m, fds) /\ Distinct(m)
  BY DEF Ok, Exactly
<1>2. /\ Grows(m, n) /\ Lookup(m, name) = {} /\ FreeBlocks(m) # {}
      /\ n.root_dir = Append(m.root_dir, NewEntry(name, b, type)) /\ Stored(name) = name
      /\ \A c \in DataBlock \ FreeBlocks(m) : n.data[c] = m.data[c]
      /\ \A i \in Entries(m) : n.root_dir[i] = m.root_dir[i]
  <2>1. name \in PathName /\ name # Nameless /\ Stored(name) = name
    BY NameFacts DEF PathName
  <2> QED BY <1>1, <2>1, NewFileKeeps
<1>3. b \in FreeBlocks(m)
  BY <1>1, <1>2, AllocEffect
<1> HIDE DEF b
<1>4. n \in Blocks /\ Sound(n) /\ Extends(m, n)
  BY <1>2 DEF Grows
<1>5. /\ Entries(m) = 1 .. last - 1 /\ Entries(n) = 1 .. last /\ last \in Nat
      /\ n.root_dir[last] = NewEntry(name, b, type)
  <2>1. m.root_dir \in Seq(Entry) /\ Len(m.root_dir) \in Nat /\ Entries(m) = 1 .. Len(m.root_dir)
    BY <1>1, BlockFacts
  <2> QED BY <1>2, <2>1 DEF Entries
<1>6. /\ last \in Entries(n) /\ last \notin Entries(m) /\ Entries(n) = Entries(m) \cup {last}
      /\ n.root_dir[last].name = name /\ First(n, last) = b /\ n.root_dir[last].size = 0
  BY <1>2, <1>5 DEF NewEntry, First
<1>7. \A i \in Entries(m) : First(n, i) = First(m, i) /\ i \in Entries(n) /\ n.root_dir[i].name # name
  BY <1>2, <1>6 DEF First, Lookup
<1>8. \A d \in Opened(fds) : fds[d].first_block # First(n, last)
  <2> SUFFICES ASSUME NEW d \in Opened(fds), fds[d].first_block = b PROVE FALSE
    BY <1>6
  <2>1. PICK i, k : FdAt(m, fds[d], i, k)
    BY <1>1 DEF FdsIn, Opened
  <2>2. i \in Entries(m) /\ 0 \in Index /\ Way(m, i)[0] = b /\ First(m, i) = b /\ b \in DataBlock
    BY <1>1, <2>1, WayFacts, SoundFirst, Sizes DEF FdAt, Index
  <2> QED BY <1>1, <1>3, <2>2, SoundWays
<1>9. ASSUME NEW i \in Entries(m)
      PROVE  /\ SizeIn(n, fds, i) = SizeIn(m, fds, i)
             /\ Content(n, First(n, i), SizeIn(n, fds, i)) = Content(m, First(m, i), SizeIn(m, fds, i))
             /\ \A size \in 0 .. MaxSize : Backed(m, i, size) => Backed(n, i, size)
  <2>1. Writers(n, fds, i) = Writers(m, fds, i)
    BY <1>7 DEF Writers
  <2>2. SizeIn(n, fds, i) = SizeIn(m, fds, i)
    BY <1>2, <2>1 DEF SizeIn
  <2>3. ASSUME NEW size \in 0 .. MaxSize, Backed(m, i, size)
        PROVE  /\ Content(n, First(n, i), size) = Content(m, First(m, i), size)
               /\ Backed(n, i, size)
    <3>1. size \in Nat
      BY Sizes
    <3> QED BY <1>1, <1>2, <2>3, <3>1, UnchangedContent
  <2> QED BY <1>1, <2>2, <2>3, SizeFacts
<1>10. Exactly(n, fds)
  <2>1. ASSUME NEW i \in Entries(n) PROVE Backed(n, i, n.root_dir[i].size)
    <3>1. CASE i \in Entries(m)
      <4>1. m.root_dir[i].size \in 0 .. MaxSize
        BY <1>1, <3>1, BlockFacts DEF Entry
      <4> QED BY <1>1, <1>2, <1>9, <3>1, <4>1 DEF Exactly
    <3>2. CASE i = last
      BY <1>6, <3>2, NothingBacked
    <3> QED BY <1>6, <3>1, <3>2
  <2>2. ASSUME NEW d \in Opened(fds), NEW i \in Entries(n), fds[d].first_block = First(n, i)
        PROVE  /\ fds[d].position <= fds[d].file_size
               /\ Backed(n, i, fds[d].file_size)
               /\ "write" \notin fds[d].mode => fds[d].file_size = n.root_dir[i].size
    <3>1. i \in Entries(m) /\ fds[d].first_block = First(m, i)
      BY <1>6, <1>7, <1>8, <2>2
    <3>2. fds[d].file_size \in 0 .. MaxSize
      BY <1>1 DEF FdsIn, Opened, Descriptor
    <3> QED BY <1>1, <1>2, <1>9, <3>1, <3>2 DEF Exactly
  <2>3. Distinct(n)
    <3> SUFFICES ASSUME NEW i \in Entries(n), NEW j \in Entries(n),
                        n.root_dir[i].name = n.root_dir[j].name
                 PROVE  i = j
      BY DEF Distinct
    <3>1. CASE i \in Entries(m) /\ j \in Entries(m)
      BY <1>1, <1>2, <3>1 DEF Distinct
    <3>2. CASE i = last \/ j = last
      BY <1>6, <1>7, <3>2
    <3> HIDE DEF last
    <3> QED BY <1>6, <3>1, <3>2
  <2> QED BY <1>1, <2>1, <2>2, <2>3 DEF Exactly
<1>11. Ok(n, fds)
  BY <1>1, <1>2, <1>4, <1>10, FdsStay DEF Ok
<1>12. HandlesIn(n, fds) = HandlesIn(m, fds)
  BY <1>1, <1>2, HandlesStay
<1>13. name \notin DOMAIN ContentsIn(m, fds)
  <2>1. Shows(ContentsIn(m, fds), m, fds)
    BY <1>1, ContentsAre
  <2> QED BY <1>2, <1>7, <2>1 DEF Shows
<1>14. ContentsIn(n, fds) = Having(ContentsIn(m, fds), name, <<>>)
  <2> DEFINE f == ContentsIn(m, fds)
             g == ContentsIn(n, fds)
             h == Having(f, name, <<>>)
  <2>1. SizeIn(n, fds, last) = 0
    BY <1>6, <1>8, <1>11, SizeFacts
  <2>2. Shows(f, m, fds) /\ Shows(g, n, fds)
    BY <1>1, <1>10, ContentsAre DEF Exactly
  <2> HIDE DEF f, g
  <2>3. g[name] = <<>>
    BY <1>6, <2>1, <2>2, EmptyContent DEF Shows
  <2>4. ASSUME NEW i \in Entries(m) PROVE g[m.root_dir[i].name] = f[m.root_dir[i].name]
    <3>1. /\ i \in Entries(n) /\ n.root_dir[i].name = m.root_dir[i].name
          /\ Content(n, First(n, i), SizeIn(n, fds, i)) = Content(m, First(m, i), SizeIn(m, fds, i))
      BY <1>2, <1>7, <1>9
    <3>2. g[n.root_dir[i].name] = Content(n, First(n, i), SizeIn(n, fds, i))
      BY <2>2, <3>1 DEF Shows
    <3>3. f[m.root_dir[i].name] = Content(m, First(m, i), SizeIn(m, fds, i))
      BY <2>2 DEF Shows
    <3> QED BY <3>1, <3>2, <3>3
  <2>5. DOMAIN f = { m.root_dir[i].name : i \in Entries(m) }
    BY <2>2 DEF Shows
  <2>6. DOMAIN g = DOMAIN f \cup {name}
    <3>1. DOMAIN g = { n.root_dir[i].name : i \in Entries(n) }
      BY <2>2 DEF Shows
    <3>2. \A i \in Entries(m) : n.root_dir[i].name = m.root_dir[i].name
      BY <1>2
    <3>3. Entries(n) = Entries(m) \cup {last} /\ n.root_dir[last].name = name
      BY <1>6
    <3> HIDE DEF last
    <3>4. \A x : x \in DOMAIN g <=> x \in DOMAIN f \cup {name}
      BY <2>5, <3>1, <3>2, <3>3
    <3> QED BY <3>4
  <2>7. /\ DOMAIN h = DOMAIN g /\ h = [x \in DOMAIN h |-> h[x]]
        /\ \A x \in DOMAIN h : h[x] = IF x = name THEN <<>> ELSE f[x]
    BY <2>6 DEF Having
  <2> HIDE DEF h
  <2>8. \A x \in DOMAIN g : g[x] = h[x]
    BY <1>13, <2>3, <2>4, <2>5, <2>6, <2>7 DEF f
  <2>9. g = h
    BY <2>2, <2>7, <2>8 DEF Shows
  <2> QED BY <2>9 DEF f, g, h
<1>15. Lookup(n, name) # {}
  BY <1>6 DEF Lookup
<1> QED BY <1>11, <1>12, <1>13, <1>14, <1>15 DEF Made

(* A file without a name takes a block; a client sees nothing of it.       *)
LooksTheSame(m, n, fds) ==
  Ok(n, fds) /\ HandlesIn(n, fds) = HandlesIn(m, fds) /\ ContentsIn(n, fds) = ContentsIn(m, fds)

LEMMA NamelessSeen ==
  ASSUME NEW m, NEW fds, Ok(m, fds), NEW type \in {"file", "dir"}, NEW n, n = NewFile(m, Nameless, type)
  PROVE  LooksTheSame(m, n, fds)
<1>1. m \in Blocks /\ Sound(m) /\ FdsIn(m, fds) /\ Exactly(m, fds) /\ Distinct(m)
  BY DEF Ok, Exactly
<1>2. /\ Grows(m, n) /\ n.root_dir = m.root_dir
      /\ \A c \in DataBlock \ FreeBlocks(m) : n.data[c] = m.data[c]
  <2>1. Nameless \in PathName
    BY DEF PathName
  <2> QED BY <1>1, <2>1, NewFileKeeps
<1>3. /\ Entries(n) = Entries(m) /\ n \in Blocks /\ Sound(n)
      /\ \A i \in Entries(m) : First(n, i) = First(m, i) /\ SizeIn(n, fds, i) = SizeIn(m, fds, i)
  BY <1>2 DEF Grows, Entries, First, SizeIn, Writers
<1>4. ASSUME NEW i \in Entries(m), NEW size \in 0 .. MaxSize, Backed(m, i, size)
      PROVE  /\ Content(n, First(n, i), size) = Content(m, First(m, i), size)
             /\ Backed(n, i, size)
  <2>1. size \in Nat
    BY Sizes
  <2> QED BY <1>1, <1>2, <1>4, <2>1, UnchangedContent
<1>5. Exactly(n, fds)
  <2>1. Distinct(n)
    BY <1>1, <1>2, <1>3 DEF Distinct
  <2>2. ASSUME NEW i \in Entries(n) PROVE Backed(n, i, n.root_dir[i].size)
    <3>1. m.root_dir[i].size \in 0 .. MaxSize
      BY <1>1, <1>3, BlockFacts DEF Entry
    <3> QED BY <1>1, <1>2, <1>3, <1>4, <3>1 DEF Exactly
  <2>3. ASSUME NEW d \in Opened(fds), NEW i \in Entries(n), fds[d].first_block = First(n, i)
        PROVE  /\ fds[d].position <= fds[d].file_size
               /\ Backed(n, i, fds[d].file_size)
               /\ "write" \notin fds[d].mode => fds[d].file_size = n.root_dir[i].size
    <3>1. fds[d].file_size \in 0 .. MaxSize
      BY <1>1 DEF FdsIn, Opened, Descriptor
    <3> QED BY <1>1, <1>2, <1>3, <1>4, <2>3, <3>1 DEF Exactly
  <2> QED BY <1>1, <2>1, <2>2, <2>3 DEF Exactly
<1>6. Ok(n, fds)
  BY <1>1, <1>2, <1>3, <1>5, FdsStay DEF Ok
<1>7. ASSUME NEW i \in Entries(m)
      PROVE  Content(n, First(n, i), SizeIn(n, fds, i)) = Content(m, First(m, i), SizeIn(m, fds, i))
  BY <1>3, <1>4, SizeFacts
<1>8. ContentsIn(n, fds) = ContentsIn(m, fds)
  BY <1>1, <1>2, <1>3, <1>7, SameContents
<1> QED BY <1>1, <1>2, <1>6, <1>8, HandlesStay DEF LooksTheSame

-----------------------------------------------------------------------------
Replaced(fds, d, fd, fds2) == fds2 = [fds EXCEPT ![d] = fd]

(* Entry i has this size now, or has it still.                             *)
Resized(m, n, i, size) ==
  /\ Grows(m, n) /\ Entries(n) = Entries(m)
  /\ \A j \in Entries(m) :
       /\ First(n, j) = First(m, j) /\ n.root_dir[j].name = m.root_dir[j].name
       /\ n.root_dir[j].size = IF j = i THEN size ELSE m.root_dir[j].size
       /\ \A length \in Nat : /\ Content(n, First(n, j), length) = Content(m, First(m, j), length)
                              /\ Backed(m, j, length) => Backed(n, j, length)

LEMMA ResizedIs ==
  ASSUME NEW m \in Blocks, Sound(m), NEW i \in Entries(m), NEW size \in 0 .. MaxSize, NEW n,
         n = [m EXCEPT !.root_dir[i].size = size] \/ (n = m /\ size = m.root_dir[i].size)
  PROVE  Resized(m, n, i, size)
<1>1. CASE n = [m EXCEPT !.root_dir[i].size = size]
  <2>1. /\ Grows(m, n) /\ Entries(n) = Entries(m) /\ n.data = m.data
        /\ \A j \in Entries(m) :
             /\ Way(n, j) = Way(m, j) /\ First(n, j) = First(m, j) /\ SameEntry(m, n, j)
             /\ n.root_dir[j].size = IF j = i THEN size ELSE m.root_dir[j].size
    BY <1>1, SetSize DEF Keeps
  <2>2. ASSUME NEW j \in Entries(m), NEW length \in Nat
        PROVE  /\ Content(n, First(n, j), length) = Content(m, First(m, j), length)
               /\ Backed(m, j, length) => Backed(n, j, length)
    <3>1. Way(n, j) = Way(m, j) /\ n.data = m.data
      BY <2>1
    <3>2. Content(n, First(n, j), length) = Content(m, First(m, j), length)
      BY <3>1, SameContent
    <3> QED BY <3>1, <3>2 DEF Backed
  <2> QED BY <2>1, <2>2 DEF Resized, SameEntry
<1>2. CASE n = m /\ size = m.root_dir[i].size
  BY <1>2, KeepsSelf DEF Resized, Keeps
<1> QED BY <1>1, <1>2

(* A descriptor that is opened, of a file with no other one, or to read.   *)
OpenedAs(m, fds, n, fds2, d, name, mode, truncate) ==
  /\ Ok(n, fds2)
  /\ HandlesIn(n, fds2) = [HandlesIn(m, fds) EXCEPT ![d] = [name |-> name, position |-> 0, mode |-> mode]]
  /\ ContentsIn(n, fds2) = IF truncate THEN Having(ContentsIn(m, fds), name, <<>>) ELSE ContentsIn(m, fds)

LEMMA OpenSeen ==
  ASSUME NEW m, NEW fds, Ok(m, fds), NEW i \in Entries(m), NEW d \in Fd, fds[d] = Closed,
         NEW truncate \in BOOLEAN, NEW fd \in Descriptor, NEW n, NEW fds2,
         Replaced(fds, d, fd, fds2), FdAt(m, fd, i, 0), fd.position = 0,
         fd.file_size = IF truncate THEN 0 ELSE m.root_dir[i].size,
         Resized(m, n, i, fd.file_size),
         \A e \in Opened(fds) : fds[e].first_block = First(m, i) =>
           ~truncate /\ "write" \notin fd.mode /\ "write" \notin fds[e].mode
  PROVE  OpenedAs(m, fds, n, fds2, d, m.root_dir[i].name, fd.mode, truncate)
<1>1. m \in Blocks /\ Sound(m) /\ FdsIn(m, fds) /\ Exactly(m, fds) /\ Distinct(m)
  BY DEF Ok, Exactly
<1>2. n \in Blocks /\ Sound(n) /\ Grows(m, n) /\ Entries(n) = Entries(m)
  BY DEF Resized, Grows
<1>3. \A j \in Entries(m) :
        /\ First(n, j) = First(m, j) /\ n.root_dir[j].name = m.root_dir[j].name
        /\ n.root_dir[j].size = IF j = i THEN fd.file_size ELSE m.root_dir[j].size
  BY DEF Resized
<1>4. \A j \in Entries(m), length \in Nat :
        /\ Content(n, First(n, j), length) = Content(m, First(m, j), length)
        /\ Backed(m, j, length) => Backed(n, j, length)
  BY DEF Resized
<1>5. /\ Opened(fds2) = Opened(fds) \cup {d} /\ d \notin Opened(fds)
      /\ fds2[d] = fd /\ \A e \in Opened(fds) : fds2[e] = fds[e]
  <2>1. fds \in [Fd -> Descriptor \cup {Closed}] /\ fd # Closed
    BY <1>1, SimpleFsAssumption DEF FdsIn
  <2> QED BY <2>1 DEF Opened, Replaced
<1>6. fd.first_block = First(m, i) /\ fd.file_size \in 0 .. MaxSize /\ fd.file_size \in Nat
  BY Sizes DEF FdAt, Descriptor
<1>7. \A j \in Entries(m) : First(m, j) = First(m, i) => j = i
  BY <1>1, OneFile
<1>8. FdsIn(n, fds2)
  <2>1. FdsIn(n, fds) /\ FdAt(n, fd, i, 0)
    BY <1>1, <1>2, FdsStay, FdStays
  <2> QED BY <2>1, FdsWith DEF Replaced
<1>9. \A j \in Entries(m) : m.root_dir[j].size \in 0 .. MaxSize /\ m.root_dir[j].size \in Nat
                            /\ Backed(m, j, m.root_dir[j].size)
  BY <1>1, BlockFacts, Sizes DEF Entry, Exactly
<1>10. Backed(n, i, fd.file_size)
  <2>1. Backed(m, i, fd.file_size)
    BY <1>9, NothingBacked
  <2> QED BY <1>4, <1>6, <2>1
<1>11. \A e \in Opened(fds) : fds[e].position \in Nat /\ fds[e].file_size \in Nat
  <2>1. \A e \in Opened(fds) : fds[e] \in Descriptor
    BY <1>1 DEF FdsIn, Opened
  <2> QED BY <2>1, Sizes DEF Descriptor
<1>12. Exactly(n, fds2)
  <2>1. ASSUME NEW e \in Opened(fds2), NEW f \in Opened(fds2), e # f,
               fds2[e].first_block = fds2[f].first_block
        PROVE  "write" \notin fds2[e].mode
    BY <1>1, <1>5, <1>6, <2>1 DEF Exactly
  <2>2. ASSUME NEW j \in Entries(n) PROVE Backed(n, j, n.root_dir[j].size)
    BY <1>2, <1>3, <1>4, <1>9, <1>10
  <2>3. ASSUME NEW e \in Opened(fds2), NEW j \in Entries(n), fds2[e].first_block = First(n, j)
        PROVE  /\ fds2[e].position <= fds2[e].file_size
               /\ Backed(n, j, fds2[e].file_size)
               /\ "write" \notin fds2[e].mode => fds2[e].file_size = n.root_dir[j].size
    <3>1. CASE e = d
      <4>1. j = i
        BY <1>2, <1>3, <1>5, <1>6, <1>7, <2>3, <3>1
      <4> QED BY <1>3, <1>5, <1>6, <1>10, <3>1, <4>1
    <3>2. CASE e \in Opened(fds)
      <4>1. /\ fds[e].first_block = First(m, j) /\ fds[e].position <= fds[e].file_size
            /\ Backed(m, j, fds[e].file_size)
            /\ "write" \notin fds[e].mode => fds[e].file_size = m.root_dir[j].size
        BY <1>1, <1>2, <1>3, <1>5, <2>3, <3>2 DEF Exactly
      <4>2. n.root_dir[j].size = m.root_dir[j].size
        BY <1>2, <1>3, <3>2, <4>1
      <4> QED BY <1>2, <1>4, <1>5, <1>11, <3>2, <4>1, <4>2
    <3> QED BY <1>5, <3>1, <3>2
  <2>4. Distinct(n)
    BY <1>1, <1>2, <1>3 DEF Distinct
  <2> QED BY <2>1, <2>2, <2>3, <2>4 DEF Exactly
<1>13. Ok(n, fds2)
  BY <1>2, <1>8, <1>12 DEF Ok
<1>14. ASSUME NEW j \in Entries(m), j # i PROVE SizeIn(n, fds2, j) = SizeIn(m, fds, j)
  <2>1. fd.first_block # First(m, j) /\ j \in Entries(n) /\ First(n, j) = First(m, j)
        /\ n.root_dir[j].size = m.root_dir[j].size
    BY <1>2, <1>3, <1>6, <1>7, <1>14
  <2>2. CASE \E e \in Opened(fds) : fds[e].first_block = First(m, j)
    <3>1. PICK e \in Opened(fds) : fds[e].first_block = First(m, j)
      BY <2>2
    <3>2. e \in Opened(fds2) /\ fds2[e] = fds[e]
      BY <1>5
    <3>3. SizeIn(m, fds, j) = fds[e].file_size
      BY <3>1, SizeFacts
    <3>4. SizeIn(n, fds2, j) = fds2[e].file_size
      BY <1>13, <2>1, <3>1, <3>2, SizeFacts
    <3> QED BY <3>2, <3>3, <3>4
  <2>3. CASE \A e \in Opened(fds) : fds[e].first_block # First(m, j)
    <3>1. \A e \in Opened(fds2) : fds2[e].first_block # First(n, j)
      BY <1>5, <2>1, <2>3
    <3>2. SizeIn(m, fds, j) = m.root_dir[j].size
      BY <2>3, SizeFacts
    <3>3. SizeIn(n, fds2, j) = n.root_dir[j].size
      BY <1>13, <2>1, <3>1, SizeFacts
    <3> QED BY <2>1, <3>2, <3>3
  <2> QED BY <2>2, <2>3
<1>15. SizeIn(n, fds2, i) = fd.file_size
  <2>1. d \in Opened(fds2) /\ fds2[d] = fd /\ fd.first_block = First(n, i) /\ i \in Entries(n)
    BY <1>2, <1>3, <1>5, <1>6
  <2> QED BY <1>13, <2>1, SizeFacts
<1>16. ~truncate => SizeIn(m, fds, i) = m.root_dir[i].size
  <2>1. CASE \E e \in Opened(fds) : fds[e].first_block = First(m, i)
    BY <1>1, <2>1, SizeFacts DEF Exactly
  <2>2. CASE \A e \in Opened(fds) : fds[e].first_block # First(m, i)
    BY <2>2, SizeFacts
  <2> QED BY <2>1, <2>2
<1>17. \A j \in Entries(m) : SizeIn(m, fds, j) \in Nat
  BY SizeFacts, Sizes
<1>18. ASSUME NEW j \in Entries(m), j # i
       PROVE  Content(n, First(n, j), SizeIn(n, fds2, j)) = Content(m, First(m, j), SizeIn(m, fds, j))
  BY <1>4, <1>14, <1>17, <1>18
<1>19. CASE truncate
  <2>1. Content(n, First(n, i), SizeIn(n, fds2, i)) = <<>>
    BY <1>15, <1>19, EmptyContent
  <2>2. ContentsIn(n, fds2) = Having(ContentsIn(m, fds), m.root_dir[i].name, <<>>)
    BY <1>1, <1>2, <1>3, <1>18, <2>1, OneContentChanged
  <2> HIDE DEF Having
  <2>3. HandlesIn(n, fds2) = [HandlesIn(m, fds) EXCEPT ![d] = HandleIn(n, fd)]
    <3>1. FdsIn(n, fds) /\ HandlesIn(n, fds) = HandlesIn(m, fds)
      BY <1>1, <1>2, FdsStay, HandlesStay
    <3>2. HandlesIn(n, [fds EXCEPT ![d] = fd]) = [HandlesIn(n, fds) EXCEPT ![d] = HandleIn(n, fd)]
      BY <3>1, HandlesWith
    <3> QED BY <3>1, <3>2 DEF Replaced
  <2>4. HandleIn(n, fd) = [name |-> m.root_dir[i].name, position |-> 0, mode |-> fd.mode]
    BY <1>2, <1>3, <1>6, NameOfEntry DEF HandleIn
  <2> QED BY <1>13, <1>19, <2>2, <2>3, <2>4 DEF OpenedAs
<1>20. CASE ~truncate
  <2>1. Content(n, First(n, i), SizeIn(n, fds2, i)) = Content(m, First(m, i), SizeIn(m, fds, i))
    BY <1>4, <1>6, <1>15, <1>16, <1>20
  <2>2. ContentsIn(n, fds2) = ContentsIn(m, fds)
    BY <1>1, <1>2, <1>3, <1>18, <2>1, SameContents
  <2>3. HandlesIn(n, fds2) = [HandlesIn(m, fds) EXCEPT ![d] = HandleIn(n, fd)]
    <3>1. FdsIn(n, fds) /\ HandlesIn(n, fds) = HandlesIn(m, fds)
      BY <1>1, <1>2, FdsStay, HandlesStay
    <3>2. HandlesIn(n, [fds EXCEPT ![d] = fd]) = [HandlesIn(n, fds) EXCEPT ![d] = HandleIn(n, fd)]
      BY <3>1, HandlesWith
    <3> QED BY <3>1, <3>2 DEF Replaced
  <2>4. HandleIn(n, fd) = [name |-> m.root_dir[i].name, position |-> 0, mode |-> fd.mode]
    BY <1>2, <1>3, <1>6, NameOfEntry DEF HandleIn
  <2> QED BY <1>13, <1>20, <2>2, <2>3, <2>4 DEF OpenedAs
<1> QED BY <1>19, <1>20

(* A descriptor that is closed.                                            *)
ClosedAs(m, fds, n, fds2, d) ==
  /\ Ok(n, fds2)
  /\ HandlesIn(n, fds2) = [HandlesIn(m, fds) EXCEPT ![d] = Closed]
  /\ ContentsIn(n, fds2) = ContentsIn(m, fds)

LEMMA CloseSeen ==
  ASSUME NEW m, NEW fds, Ok(m, fds), NEW i \in Entries(m), NEW d \in Fd, fds[d] # Closed,
         NEW n, NEW fds2, Replaced(fds, d, Closed, fds2), fds[d].first_block = First(m, i),
         Resized(m, n, i, fds[d].file_size)
  PROVE  ClosedAs(m, fds, n, fds2, d)
<1>1. m \in Blocks /\ Sound(m) /\ FdsIn(m, fds) /\ Exactly(m, fds) /\ Distinct(m)
  BY DEF Ok, Exactly
<1>2. n \in Blocks /\ Sound(n) /\ Grows(m, n) /\ Entries(n) = Entries(m)
  BY DEF Resized, Grows
<1>3. \A j \in Entries(m) :
        /\ First(n, j) = First(m, j) /\ n.root_dir[j].name = m.root_dir[j].name
        /\ n.root_dir[j].size = IF j = i THEN fds[d].file_size ELSE m.root_dir[j].size
  BY DEF Resized
<1>4. \A j \in Entries(m), length \in Nat :
        /\ Content(n, First(n, j), length) = Content(m, First(m, j), length)
        /\ Backed(m, j, length) => Backed(n, j, length)
  BY DEF Resized
<1>5. /\ Opened(fds) = Opened(fds2) \cup {d} /\ d \notin Opened(fds2)
      /\ \A e \in Opened(fds2) : fds2[e] = fds[e]
  <2>1. fds \in [Fd -> Descriptor \cup {Closed}]
    BY <1>1 DEF FdsIn
  <2> QED BY <2>1 DEF Opened, Replaced
<1>6. \A e \in Opened(fds) : fds[e].position \in Nat /\ fds[e].file_size \in Nat
  BY <1>1, Sizes DEF FdsIn, Opened, Descriptor
<1>7. \A j \in Entries(m) : First(m, j) = First(m, i) => j = i
  BY <1>1, OneFile
<1>8. FdsIn(n, fds2)
  BY <1>1, <1>2, FdsStay, FdsWith DEF Replaced
<1>9. Backed(m, i, fds[d].file_size) /\ Backed(n, i, fds[d].file_size)
  <2>1. Backed(m, i, fds[d].file_size)
    BY <1>1, <1>5 DEF Exactly
  <2> QED BY <1>4, <1>5, <1>6, <2>1
<1>10. \A j \in Entries(m) : m.root_dir[j].size \in Nat /\ Backed(m, j, m.root_dir[j].size)
  BY <1>1, BlockFacts, Sizes DEF Entry, Exactly
<1>11. \A e \in Opened(fds2) : fds[e].first_block = First(m, i) => fds[d].file_size = m.root_dir[i].size
  BY <1>1, <1>5 DEF Exactly
<1>12. Exactly(n, fds2)
  <2>1. ASSUME NEW e \in Opened(fds2), NEW f \in Opened(fds2), e # f,
               fds2[e].first_block = fds2[f].first_block
        PROVE  "write" \notin fds2[e].mode
    BY <1>1, <1>5, <2>1 DEF Exactly
  <2>2. ASSUME NEW j \in Entries(n) PROVE Backed(n, j, n.root_dir[j].size)
    BY <1>2, <1>3, <1>4, <1>9, <1>10
  <2>3. ASSUME NEW e \in Opened(fds2), NEW j \in Entries(n), fds2[e].first_block = First(n, j)
        PROVE  /\ fds2[e].position <= fds2[e].file_size
               /\ Backed(n, j, fds2[e].file_size)
               /\ "write" \notin fds2[e].mode => fds2[e].file_size = n.root_dir[j].size
    <3>1. /\ fds[e].first_block = First(m, j) /\ fds[e].position <= fds[e].file_size
          /\ Backed(m, j, fds[e].file_size)
          /\ "write" \notin fds[e].mode => fds[e].file_size = m.root_dir[j].size
      BY <1>1, <1>2, <1>3, <1>5, <2>3 DEF Exactly
    <3>2. n.root_dir[j].size = m.root_dir[j].size
      BY <1>2, <1>3, <1>11, <3>1
    <3> QED BY <1>2, <1>4, <1>5, <1>6, <3>1, <3>2
  <2>4. Distinct(n)
    BY <1>1, <1>2, <1>3 DEF Distinct
  <2> QED BY <2>1, <2>2, <2>3, <2>4 DEF Exactly
<1>13. Ok(n, fds2)
  BY <1>2, <1>8, <1>12 DEF Ok
<1>14. ASSUME NEW j \in Entries(m) PROVE SizeIn(n, fds2, j) = SizeIn(m, fds, j)
  <2>1. j \in Entries(n) /\ First(n, j) = First(m, j)
    BY <1>2, <1>3
  <2>2. CASE \E e \in Opened(fds2) : fds2[e].first_block = First(m, j)
    <3>1. PICK e \in Opened(fds2) : fds2[e].first_block = First(m, j)
      BY <2>2
    <3>2. e \in Opened(fds) /\ fds2[e] = fds[e]
      BY <1>5
    <3>3. SizeIn(m, fds, j) = fds[e].file_size
      BY <3>1, <3>2, SizeFacts
    <3>4. SizeIn(n, fds2, j) = fds2[e].file_size
      BY <1>13, <2>1, <3>1, SizeFacts
    <3> QED BY <3>2, <3>3, <3>4
  <2>3. CASE \A e \in Opened(fds2) : fds2[e].first_block # First(m, j)
    <3>1. SizeIn(n, fds2, j) = n.root_dir[j].size
      BY <1>13, <2>1, <2>3, SizeFacts
    <3>2. CASE j = i
      <4>1. SizeIn(m, fds, i) = fds[d].file_size
        BY <1>5, SizeFacts
      <4> QED BY <1>3, <3>1, <3>2, <4>1
    <3>3. CASE j # i
      <4>1. \A e \in Opened(fds) : fds[e].first_block # First(m, j)
        BY <1>5, <1>7, <2>3, <3>3
      <4>2. SizeIn(m, fds, j) = m.root_dir[j].size
        BY <4>1, SizeFacts
      <4> QED BY <1>3, <3>1, <3>3, <4>2
    <3> QED BY <3>2, <3>3
  <2> QED BY <2>2, <2>3
<1>15. ASSUME NEW j \in Entries(m)
       PROVE  Content(n, First(n, j), SizeIn(n, fds2, j)) = Content(m, First(m, j), SizeIn(m, fds, j))
  <2>1. SizeIn(m, fds, j) \in Nat
    BY SizeFacts, Sizes
  <2> QED BY <1>4, <1>14, <2>1
<1>16. ContentsIn(n, fds2) = ContentsIn(m, fds)
  BY <1>1, <1>2, <1>3, <1>15, SameContents
<1>17. HandlesIn(n, fds2) = [HandlesIn(m, fds) EXCEPT ![d] = Closed]
  <2>1. FdsIn(n, fds) /\ HandlesIn(n, fds) = HandlesIn(m, fds)
    BY <1>1, <1>2, FdsStay, HandlesStay
  <2>2. HandlesIn(n, [fds EXCEPT ![d] = Closed]) = [HandlesIn(n, fds) EXCEPT ![d] = Closed]
    BY <2>1, HandlesWithout
  <2> QED BY <2>1, <2>2 DEF Replaced
<1> QED BY <1>13, <1>16, <1>17 DEF ClosedAs

-----------------------------------------------------------------------------
(* A descriptor that has moved k bytes on.                                 *)
LEMMA HandleMoved ==
  ASSUME NEW m, NEW fds, Ok(m, fds), NEW i \in Entries(m), NEW d \in Fd, fds[d] # Closed,
         fds[d].first_block = First(m, i), NEW n, Grows(m, n), NEW fd \in Descriptor, NEW fds2,
         Replaced(fds, d, fd, fds2), fd.first_block = First(m, i), fd.mode = fds[d].mode,
         NEW k, fd.position = fds[d].position + k
  PROVE  /\ HandlesIn(m, fds)[d] = [name |-> m.root_dir[i].name, position |-> fds[d].position,
                                    mode |-> fds[d].mode]
         /\ HandlesIn(n, fds2) = [HandlesIn(m, fds) EXCEPT ![d].position = @ + k]
<1> DEFINE name == m.root_dir[i].name
           h == [name |-> name, position |-> fds[d].position, mode |-> fds[d].mode]
<1>1. m \in Blocks /\ Sound(m) /\ FdsIn(m, fds)
  BY DEF Ok
<1>2. /\ n \in Blocks /\ Sound(n) /\ i \in Entries(n) /\ First(n, i) = First(m, i)
      /\ n.root_dir[i].name = name
  BY DEF Grows, Extends, SameEntry, First
<1>3. HandlesIn(m, fds)[d] = h
  BY <1>1, NameOfEntry DEF HandlesIn, HandleIn
<1>4. HandleIn(n, fd) = [name |-> name, position |-> fds[d].position + k, mode |-> fds[d].mode]
  BY <1>2, NameOfEntry DEF HandleIn
<1>5. FdsIn(n, fds) /\ HandlesIn(n, fds) = HandlesIn(m, fds)
  BY <1>1, FdsStay, HandlesStay
<1>6. HandlesIn(n, [fds EXCEPT ![d] = fd]) = [HandlesIn(n, fds) EXCEPT ![d] = HandleIn(n, fd)]
  BY <1>5, HandlesWith
<1>7. HandlesIn(n, fds2) = [HandlesIn(m, fds) EXCEPT ![d] = HandleIn(n, fd)]
  BY <1>5, <1>6 DEF Replaced
<1>8. [HandlesIn(m, fds) EXCEPT ![d].position = @ + k] = [HandlesIn(m, fds) EXCEPT ![d] = [h EXCEPT !.position = @ + k]]
  BY <1>3
<1>9. [h EXCEPT !.position = @ + k] = HandleIn(n, fd)
  BY <1>4
<1> QED BY <1>3, <1>7, <1>8, <1>9

(* A descriptor through which something was read.                          *)
ReadAs(m, fds, fds2, d, name, k) ==
  /\ Ok(m, fds2)
  /\ HandlesIn(m, fds)[d] = [name |-> name, position |-> fds[d].position, mode |-> fds[d].mode]
  /\ HandlesIn(m, fds2) = [HandlesIn(m, fds) EXCEPT ![d].position = @ + k]
  /\ ContentsIn(m, fds2) = ContentsIn(m, fds)
  /\ fds[d].position + k <= Len(ContentsIn(m, fds)[name])

LEMMA ContentLength ==
  ASSUME NEW m, NEW first, NEW size \in Nat
  PROVE  Len(Content(m, first, size)) = size
BY DEF Content

LEMMA ReadSeen ==
  ASSUME NEW m, NEW fds, Ok(m, fds), NEW i \in Entries(m), NEW d \in Fd, fds[d] # Closed,
         fds[d].first_block = First(m, i), NEW fd \in Descriptor, NEW fds2, Replaced(fds, d, fd, fds2),
         NEW l, FdAt(m, fd, i, l), fd.mode = fds[d].mode, fd.file_size = fds[d].file_size,
         NEW k \in Nat, fd.position = fds[d].position + k, fd.position <= fd.file_size
  PROVE  ReadAs(m, fds, fds2, d, m.root_dir[i].name, k)
<1>1. m \in Blocks /\ Sound(m) /\ FdsIn(m, fds) /\ Exactly(m, fds) /\ Distinct(m)
  BY DEF Ok, Exactly
<1>2. fd.first_block = First(m, i)
  BY DEF FdAt
<1>3. /\ Opened(fds2) = Opened(fds) /\ d \in Opened(fds) /\ fds2[d] = fd
      /\ \A e \in Opened(fds) : e # d => fds2[e] = fds[e]
  <2>1. fds \in [Fd -> Descriptor \cup {Closed}] /\ fd # Closed
    BY <1>1, SimpleFsAssumption DEF FdsIn
  <2> QED BY <2>1 DEF Opened, Replaced
<1>4. \A e \in Opened(fds) : /\ fds2[e].first_block = fds[e].first_block /\ fds2[e].mode = fds[e].mode
                             /\ fds2[e].file_size = fds[e].file_size
  BY <1>2, <1>3
<1>5. Exactly(m, fds2)
  BY <1>1, <1>3, <1>4 DEF Exactly
<1>6. Ok(m, fds2)
  BY <1>1, <1>5, FdsWith DEF Ok, Replaced
<1>7. ASSUME NEW j \in Entries(m) PROVE SizeIn(m, fds2, j) = SizeIn(m, fds, j)
  <2>1. Writers(m, fds2, j) = Writers(m, fds, j)
    BY <1>3, <1>4 DEF Writers
  <2>2. CASE \E e \in Opened(fds) : fds[e].first_block = First(m, j)
    BY <1>3, <1>4, <1>6, <2>2, SizeFacts
  <2>3. CASE \A e \in Opened(fds) : fds[e].first_block # First(m, j)
    <3>1. \A e \in Opened(fds2) : fds2[e].first_block # First(m, j)
      BY <1>3, <1>4, <2>3
    <3> QED BY <1>6, <2>3, <3>1, SizeFacts
  <2> QED BY <2>2, <2>3
<1>8. ContentsIn(m, fds2) = ContentsIn(m, fds)
  BY <1>1, <1>7, SameContents
<1>9. fds[d].position + k <= Len(ContentsIn(m, fds)[m.root_dir[i].name])
  <2>1. SizeIn(m, fds, i) = fds[d].file_size /\ SizeIn(m, fds, i) \in Nat
    BY <1>3, SizeFacts, Sizes
  <2>2. ContentsIn(m, fds)[m.root_dir[i].name] = Content(m, First(m, i), SizeIn(m, fds, i))
    BY <1>1, ContentsAre DEF Shows
  <2> QED BY <2>1, <2>2, ContentLength
<1>10. /\ HandlesIn(m, fds)[d] = [name |-> m.root_dir[i].name, position |-> fds[d].position,
                                 mode |-> fds[d].mode]
       /\ HandlesIn(m, fds2) = [HandlesIn(m, fds) EXCEPT ![d].position = @ + k]
  BY <1>1, <1>2, KeepsSelf, HandleMoved DEF Keeps
<1> QED BY <1>6, <1>8, <1>9, <1>10 DEF ReadAs

(* A descriptor through which k bytes were written.                        *)
WrittenAs(m, fds, n, fds2, d, name, byte, k) ==
  /\ Ok(n, fds2)
  /\ HandlesIn(m, fds)[d] = [name |-> name, position |-> fds[d].position, mode |-> fds[d].mode]
  /\ HandlesIn(n, fds2) = [HandlesIn(m, fds) EXCEPT ![d].position = @ + k]
  /\ ContentsIn(n, fds2) =
       Having(ContentsIn(m, fds), name,
              Store!Overwritten(ContentsIn(m, fds)[name], fds[d].position, byte, k))

LEMMA BackedStill ==
  ASSUME NEW m, NEW n, Grows(m, n), NEW j \in Entries(m), NEW size, Backed(m, j, size)
  PROVE  Backed(n, j, size)
BY DEF Backed, Grows, Extends

LEMMA WriteSeen ==
  ASSUME NEW start, NEW fds, Ok(start.mem, fds), NEW i \in Entries(start.mem), NEW d \in Fd,
         fds[d] # Closed, fds[d].first_block = First(start.mem, i), start.fd = fds[d],
         "write" \in fds[d].mode, NEW byte \in Bytes, NEW count \in Nat, NEW s,
         Wrote(start, s, i, byte, count), WroteBytes(start, s, i, byte, count, count),
         s.fd.position > fds[d].position, NEW fds2, Replaced(fds, d, s.fd, fds2),
         FdsIn(s.mem, fds2)
  PROVE  WrittenAs(start.mem, fds, s.mem, fds2, d, start.mem.root_dir[i].name, byte,
                   s.fd.position - fds[d].position)
<1> DEFINE m == start.mem
           n == s.mem
           fd == s.fd
           p == fds[d].position
           q == fd.position
           old == fds[d].file_size
           new == Larger(old, q)
<1>1. m \in Blocks /\ Sound(m) /\ FdsIn(m, fds) /\ Exactly(m, fds) /\ Distinct(m)
  BY DEF Ok, Exactly
<1>2. /\ Grows(m, n) /\ n \in Blocks /\ Sound(n) /\ n.root_dir = m.root_dir
      /\ fd.first_block = First(m, i) /\ fd.mode = fds[d].mode /\ fd.file_size = new
      /\ fd \in Descriptor
  BY DEF Wrote, Keeps, Grows, At, Transfers
<1>3. \A x \in p .. q - 1 :
        /\ x \div BlockSize \in Index /\ Way(n, i)[x \div BlockSize] \in DataBlock
        /\ n.data[Way(n, i)[x \div BlockSize]][x % BlockSize] = byte
  BY DEF WroteBytes
<1>4. \A j \in Entries(m), x \in Nat :
        /\ x \div BlockSize \in Index /\ Way(m, j)[x \div BlockSize] \in DataBlock
        /\ ~(j = i /\ x \in p .. q - 1)
        => n.data[Way(m, j)[x \div BlockSize]][x % BlockSize]
             = m.data[Way(m, j)[x \div BlockSize]][x % BlockSize]
  BY DEF WroteBytes
<1>5. /\ Entries(n) = Entries(m)
      /\ \A j \in Entries(m) :
           /\ First(n, j) = First(m, j) /\ n.root_dir[j] = m.root_dir[j]
           /\ \A l \in Index : Way(m, j)[l] \in DataBlock => Way(n, j)[l] = Way(m, j)[l]
  BY <1>2 DEF Entries, First, Grows, Extends
<1>6. /\ p \in Nat /\ q \in Nat /\ old \in Nat /\ p < q /\ p <= old
      /\ new \in Nat /\ q <= new /\ old <= new /\ new = IF q > old THEN q ELSE old
  <2>1. fds[d] \in Descriptor /\ d \in Opened(fds)
    BY <1>1 DEF FdsIn, Opened
  <2>2. p \in Nat /\ old \in Nat /\ q \in Nat /\ p < q
    BY <1>2, <2>1, Sizes DEF Descriptor
  <2>3. p <= old
    BY <1>1, <2>1 DEF Exactly
  <2> QED BY <2>2, <2>3 DEF Larger
<1> HIDE DEF m, n, fd, p, q, old, new
<1>7. /\ Opened(fds2) = Opened(fds) /\ d \in Opened(fds) /\ fds2[d] = fd
      /\ \A e \in Opened(fds) : e # d => fds2[e] = fds[e]
  <2>1. fds \in [Fd -> Descriptor \cup {Closed}] /\ fd # Closed
    BY <1>1, <1>2, SimpleFsAssumption DEF FdsIn
  <2> QED BY <2>1 DEF Opened, Replaced, fd
<1>8. \A e \in Opened(fds) : /\ fds2[e].first_block = fds[e].first_block /\ fds2[e].mode = fds[e].mode
                             /\ e # d => fds[e].first_block # First(m, i)
  BY <1>1, <1>2, <1>7 DEF Exactly, m
<1>9. \A j \in Entries(m) : First(m, j) = First(m, i) => j = i
  BY <1>1, OneFile DEF m
<1>10. ASSUME NEW j \in Entries(m), NEW size, Backed(m, j, size) PROVE Backed(n, j, size)
  BY <1>2, <1>10, BackedStill
<1>11. Backed(m, i, old) /\ fds[d].first_block = First(m, i) /\ i \in Entries(m)
  BY <1>1, <1>7 DEF Exactly, m, old
<1>12. Backed(n, i, new)
  <2> SUFFICES ASSUME NEW x \in 0 .. new - 1
               PROVE  x \div BlockSize \in Index /\ Way(n, i)[x \div BlockSize] \in DataBlock
    BY DEF Backed
  <2>1. CASE x \in p .. q - 1
    BY <1>3, <2>1
  <2>2. CASE x \notin p .. q - 1
    <3>1. x \in 0 .. old - 1
      BY <1>6, <2>2
    <3> QED BY <1>10, <1>11, <3>1 DEF Backed
  <2> QED BY <2>1, <2>2
<1>13. Exactly(n, fds2)
  <2>1. ASSUME NEW e \in Opened(fds2), NEW f \in Opened(fds2), e # f,
               fds2[e].first_block = fds2[f].first_block
        PROVE  "write" \notin fds2[e].mode
    BY <1>1, <1>7, <1>8, <2>1 DEF Exactly
  <2>2. ASSUME NEW j \in Entries(n) PROVE Backed(n, j, n.root_dir[j].size)
    BY <1>1, <1>5, <1>10 DEF Exactly
  <2>3. ASSUME NEW e \in Opened(fds2), NEW j \in Entries(n), fds2[e].first_block = First(n, j)
        PROVE  /\ fds2[e].position <= fds2[e].file_size
               /\ Backed(n, j, fds2[e].file_size)
               /\ "write" \notin fds2[e].mode => fds2[e].file_size = n.root_dir[j].size
    <3>1. CASE e = d
      <4>1. j = i
        BY <1>2, <1>5, <1>7, <1>9, <2>3, <3>1
      <4> QED BY <1>2, <1>6, <1>7, <1>12, <3>1, <4>1 DEF q
    <3>2. CASE e # d
      <4>1. /\ fds[e].position <= fds[e].file_size /\ Backed(m, j, fds[e].file_size)
            /\ "write" \notin fds[e].mode => fds[e].file_size = m.root_dir[j].size
        BY <1>1, <1>5, <1>7, <2>3, <3>2 DEF Exactly
      <4> QED BY <1>5, <1>7, <1>10, <3>2, <4>1
    <3> QED BY <3>1, <3>2
  <2>4. Distinct(n)
    BY <1>1, <1>5 DEF Distinct, m
  <2> QED BY <2>1, <2>2, <2>3, <2>4 DEF Exactly
<1>14. Ok(n, fds2) /\ Ok(m, fds)
  BY <1>2, <1>13 DEF Ok, n, m
<1>15. ASSUME NEW j \in Entries(m), j # i
       PROVE  Content(n, First(n, j), SizeIn(n, fds2, j)) = Content(m, First(m, j), SizeIn(m, fds, j))
  <2>1. First(m, j) # First(m, i) /\ j \in Entries(n) /\ First(n, j) = First(m, j)
        /\ n.root_dir[j].size = m.root_dir[j].size
    BY <1>5, <1>9, <1>15
  <2>2. SizeIn(n, fds2, j) = SizeIn(m, fds, j)
    <3>1. CASE \E e \in Opened(fds) : fds[e].first_block = First(m, j)
      <4>1. PICK e \in Opened(fds) : fds[e].first_block = First(m, j)
        BY <3>1
      <4>2. e \in Opened(fds2) /\ fds2[e] = fds[e]
        BY <1>7, <1>11, <2>1, <4>1
      <4>3. SizeIn(m, fds, j) = fds[e].file_size
        BY <1>14, <4>1, SizeFacts
      <4>4. SizeIn(n, fds2, j) = fds2[e].file_size
        BY <1>14, <2>1, <4>1, <4>2, SizeFacts
      <4> QED BY <4>2, <4>3, <4>4
    <3>2. CASE \A e \in Opened(fds) : fds[e].first_block # First(m, j)
      <4>1. \A e \in Opened(fds2) : fds2[e].first_block # First(n, j)
        BY <1>7, <1>8, <2>1, <3>2
      <4>2. SizeIn(m, fds, j) = m.root_dir[j].size
        BY <1>14, <3>2, SizeFacts
      <4>3. SizeIn(n, fds2, j) = n.root_dir[j].size
        BY <1>14, <2>1, <4>1, SizeFacts
      <4> QED BY <2>1, <4>2, <4>3
    <3> QED BY <3>1, <3>2
  <2>3. SizeIn(m, fds, j) \in Nat /\ Backed(m, j, SizeIn(m, fds, j))
    BY <1>14, SizeFacts, Sizes
  <2>4. ASSUME NEW x \in 0 .. SizeIn(m, fds, j) - 1
        PROVE  n.data[Way(n, j)[x \div BlockSize]][x % BlockSize]
                 = m.data[Way(m, j)[x \div BlockSize]][x % BlockSize]
    <3>1. x \div BlockSize \in Index /\ Way(m, j)[x \div BlockSize] \in DataBlock /\ x \in Nat
      BY <2>3 DEF Backed
    <3> QED BY <1>4, <1>5, <1>15, <3>1
  <2> QED BY <2>2, <2>3, <2>4, SameContent
<1> DEFINE was == Content(m, First(m, i), old)
           content == Store!Overwritten(was, p, byte, q - p)
<1>16. Content(n, First(n, i), SizeIn(n, fds2, i)) = content
  <2>1. SizeIn(n, fds2, i) = new
    <3>1. d \in Opened(fds2) /\ fds2[d].first_block = First(n, i) /\ fds2[d].file_size = new
          /\ i \in Entries(n)
      BY <1>2, <1>5, <1>7, <1>11
    <3> QED BY <1>14, <3>1, SizeFacts
  <2>2. /\ Len(was) = old
        /\ \A x \in 1 .. old : was[x] = m.data[Way(m, i)[(x - 1) \div BlockSize]][(x - 1) % BlockSize]
    BY <1>6, ContentLength DEF Content, Way
  <2> HIDE DEF was
  <2>3. content = [x \in 1 .. new |-> IF x \in p + 1 .. q THEN byte ELSE was[x]]
    <3>1. p + (q - p) = q /\ (IF q > Len(was) THEN q ELSE Len(was)) = new
      BY <1>6, <2>2
    <3> QED BY <3>1 DEF Store!Overwritten
  <2>4. Content(n, First(n, i), new)
          = [x \in 1 .. new |-> n.data[Way(n, i)[(x - 1) \div BlockSize]][(x - 1) % BlockSize]]
    BY DEF Content, Way
  <2>5. ASSUME NEW x \in 1 .. new
        PROVE  n.data[Way(n, i)[(x - 1) \div BlockSize]][(x - 1) % BlockSize]
                 = IF x \in p + 1 .. q THEN byte ELSE was[x]
    <3> DEFINE y == x - 1
    <3>1. y \in Nat /\ (x \in p + 1 .. q <=> y \in p .. q - 1)
      BY <1>6
    <3>2. CASE y \in p .. q - 1
      BY <1>3, <3>1, <3>2
    <3>3. CASE y \notin p .. q - 1
      <4>1. y \in 0 .. old - 1 /\ x \in 1 .. old
        BY <1>6, <3>3
      <4> HIDE DEF y
      <4>2. y \div BlockSize \in Index /\ Way(m, i)[y \div BlockSize] \in DataBlock
        BY <1>11, <4>1 DEF Backed
      <4>3. Way(n, i)[y \div BlockSize] = Way(m, i)[y \div BlockSize]
        BY <1>5, <1>11, <4>2
      <4>4. n.data[Way(m, i)[y \div BlockSize]][y % BlockSize]
              = m.data[Way(m, i)[y \div BlockSize]][y % BlockSize]
        BY <1>4, <1>11, <3>1, <3>3, <4>2
      <4>5. was[x] = m.data[Way(m, i)[y \div BlockSize]][y % BlockSize]
        BY <2>2, <4>1 DEF y
      <4>6. n.data[Way(n, i)[y \div BlockSize]][y % BlockSize] = was[x] /\ x \notin p + 1 .. q
        BY <3>1, <3>3, <4>3, <4>4, <4>5
      <4> QED BY <4>6 DEF y
    <3> QED BY <3>2, <3>3
  <2> HIDE DEF content
  <2> QED BY <2>1, <2>3, <2>4, <2>5
<1>17. ContentsIn(m, fds)[m.root_dir[i].name] = was
  <2>1. SizeIn(m, fds, i) = old
    BY <1>7, <1>11, <1>14, SizeFacts DEF old
  <2> QED BY <1>1, <1>11, <2>1, ContentsAre DEF Shows, m
<1> HIDE DEF was, content
<1>18. ContentsIn(n, fds2) = Having(ContentsIn(m, fds), m.root_dir[i].name, content)
  <2>1. Distinct(m)
    BY <1>1 DEF m
  <2> QED BY <1>5, <1>11, <1>15, <1>16, <2>1, OneContentChanged
<1>19. /\ HandlesIn(m, fds)[d] = [name |-> m.root_dir[i].name, position |-> p, mode |-> fds[d].mode]
       /\ HandlesIn(n, fds2) = [HandlesIn(m, fds) EXCEPT ![d].position = @ + (q - p)]
  <2>1. q = p + (q - p)
    BY <1>6
  <2> QED BY <1>2, <1>14, <2>1, HandleMoved DEF fd, m, n, p, q
<1> QED BY <1>14, <1>17, <1>18, <1>19 DEF WrittenAs, content, was, m, n, p, q, fd

-----------------------------------------------------------------------------
(* Each call of a client is an operation of FileStore, or none.            *)
KeptInv == exact => Exactly(mem, fd_table)
StoreInv == IInv /\ KeptInv

WhileKept == exact = TRUE /\ InMemory /\ Ok(mem, fd_table)
StoreStep == Exactly(mem', fd_table') /\ [Store!Next]_(Store!vars)

LEMMA WhatIsSeenNext ==
  /\ exact' => /\ Contents' = ContentsIn(mem', fd_table')
               /\ Handles' = HandlesIn(mem', fd_table')
  /\ ~exact' => Contents' = [n \in {} |-> <<>>] /\ Handles' = [d \in Fd |-> Closed]
<1>1. (/\ exact => Contents = ContentsIn(mem, fd_table) /\ Handles = HandlesIn(mem, fd_table)
       /\ ~exact => Contents = [n \in {} |-> <<>>] /\ Handles = [d \in Fd |-> Closed])'
  BY WhatIsSeen, PTL
<1> QED BY <1>1

LEMMA Views ==
  ASSUME exact, exact'
  PROVE  /\ Contents = ContentsIn(mem, fd_table) /\ Handles = HandlesIn(mem, fd_table)
         /\ Contents' = ContentsIn(mem', fd_table') /\ Handles' = HandlesIn(mem', fd_table')
         /\ \A name, content : Store!With(name, content) = Having(ContentsIn(mem, fd_table), name, content)
<1>1. Contents = ContentsIn(mem, fd_table)
  BY WhatIsSeen
<1>2. \A name, content : Store!With(name, content) = Having(Contents, name, content)
  BY DEF Store!With, Having
<1> QED BY <1>1, <1>2, WhatIsSeen, WhatIsSeenNext

LEMMA NothingSeen ==
  ASSUME exact = TRUE, exact' = TRUE, mem' = mem, fd_table' = fd_table
  PROVE  UNCHANGED Store!vars
BY Views DEF Store!vars

LEMMA NothingIsSeen ==
  ASSUME exact = TRUE, exact' = TRUE, fd_table' = fd_table, LooksTheSame(mem, mem', fd_table)
  PROVE  StoreStep
<1>1. UNCHANGED Store!vars
  BY Views DEF Store!vars, LooksTheSame
<1> QED BY <1>1 DEF StoreStep, LooksTheSame, Ok

LEMMA FileIsMade ==
  ASSUME exact = TRUE, exact' = TRUE, NEW name \in Names, fd_table' = fd_table,
         Made(mem, mem', fd_table, name)
  PROVE  StoreStep
<1>1. Store!Create(name)
  BY Views DEF Store!Create, Made
<1>2. Store!Next
  BY <1>1 DEF Store!Next
<1> QED BY <1>2 DEF StoreStep, Made, Ok

LEMMA CreateIsCreate ==
  ASSUME WhileKept, exact' = TRUE, NEW name \in PathName, NEW type \in {"file", "dir"}, Create(name, type)
  PROVE  StoreStep
<1>1. /\ mem' = NewFile(mem, name, type) /\ fd_table' = fd_table
      /\ name \in LongName => mem' = mem
  BY DEF Create
<1>2. CASE mem' = mem
  BY <1>1, <1>2, NothingSeen DEF StoreStep, WhileKept, Ok
<1>3. CASE mem' # mem /\ name \in Names
  <2>1. Made(mem, mem', fd_table, name)
    BY <1>1, <1>3, NewFileSeen DEF WhileKept
  <2> QED BY <1>1, <1>3, <2>1, FileIsMade DEF WhileKept
<1>4. CASE name = Nameless
  <2>1. LooksTheSame(mem, mem', fd_table)
    BY <1>1, <1>4, NamelessSeen DEF WhileKept
  <2> QED BY <1>1, <2>1, NothingIsSeen DEF WhileKept
<1> QED BY <1>1, <1>2, <1>3, <1>4 DEF PathName

LEMMA HavingTwice ==
  ASSUME NEW f, NEW name, NEW a, NEW b
  PROVE  Having(Having(f, name, a), name, b) = Having(f, name, b)
BY DEF Having

LEMMA OpenIsOpen ==
  ASSUME WhileKept, exact' = TRUE, NEW name \in Names, NEW mode \in Modes, NEW truncate \in BOOLEAN,
         NEW m, m = mem \/ Made(mem, m, fd_table, name), Lookup(m, name) # {},
         OpenIn(m, name, mode, truncate)
  PROVE  StoreStep
<1> DEFINE i == Min(Lookup(m, name))
           entry == EntryOf(m, name)
           d == Min(FreeFds)
           fd == [first_block |-> entry.first_block, current_block |-> entry.first_block, position |-> 0,
                  file_size |-> IF truncate THEN 0 ELSE entry.size, mode |-> mode]
           shared == { e \in OpenFds : fd_table[e].first_block = entry.first_block }
<1>1. /\ Ok(m, fd_table) /\ m \in Blocks /\ Sound(m) /\ Distinct(m)
      /\ HandlesIn(m, fd_table) = HandlesIn(mem, fd_table)
  BY DEF WhileKept, Made, Ok, Exactly
<1>2. i \in Entries(m) /\ m.root_dir[i].name = name /\ entry = m.root_dir[i]
  <2>1. Lookup(m, name) \subseteq Nat
    BY <1>1, BlockFacts DEF Lookup
  <2> QED BY <2>1, MinIsLeast DEF Lookup, EntryOf
<1>3. CASE entry.type = "dir" \/ FreeFds = {}
  <2>1. mem' = m /\ fd_table' = fd_table
    BY <1>3 DEF OpenIn
  <2>2. CASE m = mem
    BY <2>1, <2>2, NothingSeen DEF StoreStep, WhileKept, Ok
  <2>3. CASE Made(mem, m, fd_table, name)
    BY <2>1, <2>3, FileIsMade DEF WhileKept
  <2> QED BY <2>2, <2>3
<1>4. CASE ~(entry.type = "dir" \/ FreeFds = {})
  <2>1. /\ Replaced(fd_table, d, fd, fd_table')
        /\ mem' = IF truncate THEN [m EXCEPT !.root_dir[i].size = 0] ELSE m
        /\ shared # {} => ~truncate /\ \A e \in shared : "write" \notin mode \cup fd_table[e].mode
    BY <1>4 DEF OpenIn, Replaced
  <2>2. d \in Fd /\ fd_table[d] = Closed
    <3>1. FreeFds \subseteq Nat /\ \A e \in FreeFds : e \in Fd /\ fd_table[e] = Closed
      BY Sizes DEF FreeFds, OpenFds
    <3> QED BY <1>4, <3>1, MinIsLeast
  <2>3. entry \in Entry /\ entry.type = "file" /\ entry.first_block = First(m, i)
        /\ First(m, i) \in DataBlock
    BY <1>1, <1>2, <1>4, BlockFacts, SoundFirst DEF Entry, First
  <2>4. \A e \in Opened(fd_table) : fd_table[e].first_block = First(m, i) =>
          ~truncate /\ "write" \notin mode /\ "write" \notin fd_table[e].mode
    BY <2>1, <2>3 DEF Opened, OpenFds
  <2> HIDE DEF d, i, entry, shared
  <2>5. fd \in Descriptor /\ fd.position = 0 /\ fd.mode = mode
        /\ fd.file_size = (IF truncate THEN 0 ELSE m.root_dir[i].size)
        /\ fd.first_block = First(m, i) /\ fd.current_block = First(m, i)
    BY <1>2, <2>3, Sizes DEF Descriptor, Entry
  <2> HIDE DEF fd
  <2>6. FdAt(m, fd, i, 0)
    <3>1. 0 \in Index /\ Way(m, i)[0] = First(m, i)
      BY <1>1, <1>2, WayFacts, Sizes DEF Index
    <3> QED BY <1>2, <2>3, <2>5, <3>1 DEF FdAt
  <2>7. Resized(m, mem', i, fd.file_size)
    <3>1. fd.file_size \in 0 .. MaxSize
      BY <2>5 DEF Descriptor
    <3>2. mem' = [m EXCEPT !.root_dir[i].size = fd.file_size]
          \/ (mem' = m /\ fd.file_size = m.root_dir[i].size)
      BY <2>1, <2>5
    <3> QED BY <1>1, <1>2, <3>1, <3>2, ResizedIs
  <2>8. OpenedAs(m, fd_table, mem', fd_table', d, name, mode, truncate)
    BY <1>1, <1>2, <2>1, <2>2, <2>4, <2>5, <2>6, <2>7, OpenSeen
  <2>9. name \in DOMAIN ContentsIn(m, fd_table)
    <3>1. Shows(ContentsIn(m, fd_table), m, fd_table)
      BY <1>1, ContentsAre
    <3> QED BY <1>2, <3>1 DEF Shows
  <2>10. \/ name \in DOMAIN Contents /\ Contents' = Contents
         \/ Contents' = Store!With(name, <<>>)
    <3>1. CASE m = mem
      BY <2>8, <2>9, <3>1, Views DEF OpenedAs, WhileKept
    <3>2. CASE Made(mem, m, fd_table, name)
      BY <2>8, <3>2, Views, HavingTwice DEF OpenedAs, WhileKept, Made
    <3> QED BY <3>1, <3>2
  <2>11. Handles[d] = Closed
    BY <2>2, Views DEF HandlesIn, WhileKept
  <2>12. Handles' = [Handles EXCEPT ![d] = [name |-> name, position |-> 0, mode |-> mode]]
    BY <1>1, <2>8, Views DEF OpenedAs, WhileKept
  <2>13. Store!Open(d, name, mode)
    BY <2>10, <2>11, <2>12 DEF Store!Open, WhileKept
  <2>14. mode \in SUBSET {"read", "write"}
    BY SimpleFsAssumption
  <2>15. Store!Next
    BY <2>2, <2>13, <2>14 DEF Store!Next, WhileKept
  <2> QED BY <2>8, <2>15 DEF StoreStep, OpenedAs, Ok
<1> QED BY <1>3, <1>4

LEMMA OpenCallIsOpen ==
  ASSUME WhileKept, exact' = TRUE, NEW name \in PathName, NEW mode \in Modes, NEW create \in BOOLEAN,
         NEW truncate \in BOOLEAN, Open(name, mode, create, truncate)
  PROVE  StoreStep
<1> DEFINE m == IF create THEN NewFile(mem, name, "file") ELSE mem
<1>1. /\ name \in Names => m = mem \/ Made(mem, m, fd_table, name)
      /\ name = Nameless => m = mem \/ LooksTheSame(mem, m, fd_table)
  BY NewFileSeen, NamelessSeen DEF WhileKept
<1>2. CASE Lookup(m, name) = {}
  <2>1. mem' = m /\ fd_table' = fd_table /\ (name \in LongName => m = mem)
    BY <1>2 DEF Open
  <2>2. m = mem \/ LooksTheSame(mem, m, fd_table)
    BY <1>1, <1>2, <2>1 DEF Made, PathName
  <2>3. CASE m = mem
    BY <2>1, <2>3, NothingSeen DEF StoreStep, WhileKept, Ok
  <2>4. CASE LooksTheSame(mem, m, fd_table)
    BY <2>1, <2>4, NothingIsSeen DEF WhileKept
  <2> QED BY <2>2, <2>3, <2>4
<1>3. CASE Lookup(m, name) # {}
  <2>1. OpenIn(m, name, mode, truncate)
    BY <1>3 DEF Open
  <2>2. m \in Blocks
    <3>1. mem \in Blocks /\ Sound(mem)
      BY DEF WhileKept, Ok
    <3> QED BY <3>1, NewFileKeeps DEF Grows
  <2>3. name \in Names
    BY <1>3, <2>2, NameFacts
  <2> HIDE DEF m
  <2> QED BY <1>1, <1>3, <2>1, <2>3, OpenIsOpen
<1> QED BY <1>2, <1>3

\* The place of a position that is backed, or is the end of what is backed.
LEMMA PlaceOfPosition ==
  ASSUME NEW m \in Blocks, Sound(m), NEW i \in Entries(m), NEW size \in Nat, Backed(m, i, size),
         NEW p \in Nat, p <= size
  PROVE  p \div BlockSize \in Index
<1>1. CASE p = 0
  BY <1>1, Parts, Sizes DEF Index
<1>2. CASE p # 0
  <2> DEFINE o == p - 1
             k == o \div BlockSize
  <2>1. o \in Nat /\ o + 1 = p /\ o \in 0 .. size - 1
    BY <1>2
  <2>2. k \in Index /\ Way(m, i)[k] \in DataBlock
    BY <2>1 DEF Backed
  <2>3. k + 1 \in 0 .. MaxBlocks - 1
    BY <2>2, Room
  <2>4. (o + 1) \div BlockSize = k \/ (o + 1) \div BlockSize = k + 1
    BY <2>1, Parts
  <2> QED BY <2>1, <2>2, <2>3, <2>4, Sizes DEF Index
<1> QED BY <1>1, <1>2

LEMMA OpenHandle ==
  ASSUME NEW m, NEW fds, Ok(m, fds), NEW i \in Entries(m), NEW d \in Fd, fds[d] # Closed,
         HandlesIn(m, fds)[d] = [name |-> m.root_dir[i].name, position |-> fds[d].position,
                                 mode |-> fds[d].mode]
  PROVE  HandlesIn(m, fds)[d] # Closed
<1>1. fds[d] \in Descriptor /\ m.root_dir[i] \in Entry
  BY BlockFacts DEF Ok, FdsIn
<1>2. HandlesIn(m, fds)[d] \in Handle
  BY <1>1 DEF Handle, Descriptor, Entry
<1> QED BY <1>2, SimpleFsAssumption

LEMMA WriteIsWrite ==
  ASSUME WhileKept, InMemory', exact' = TRUE, NEW d \in OpenFds, NEW byte \in Bytes,
         NEW count \in 1 .. MaxSize, Write(d, byte, count)
  PROVE  StoreStep
<1> DEFINE s == AfterWrite(d, byte, count)
           start == Start(d)
           p == fd_table[d].position
<1>1. InMemory /\ Ok(mem, fd_table) /\ mem \in Blocks /\ Sound(mem) /\ Exactly(mem, fd_table)
  BY DEF WhileKept, Ok
<1>2. PICK i, l : FdAt(mem, fd_table[d], i, l)
  BY <1>1, OpenFdFacts
<1>3. /\ At(start, i, l) /\ d \in Fd /\ fd_table[d] \in Descriptor /\ fd_table[d] # Closed
      /\ p \in Nat /\ d \in Opened(fd_table)
      /\ i \in Entries(mem) /\ fd_table[d].first_block = First(mem, i)
  BY <1>1, <1>2, OpenFdFacts DEF FdAt, OpenFds, Opened
<1>4. start.mem = mem /\ start.fd = fd_table[d] /\ ~start.stopped
  BY DEF Start
<1>5. /\ count \in Nat /\ count >= 1 /\ count <= MaxSize
      /\ start.fd.position + count <= MaxSize /\ "write" \in fd_table[d].mode
  BY <1>4, Sizes DEF Write
<1>6. /\ Wrote(start, s, i, byte, count)
      /\ At(start, i, p \div BlockSize) => WroteBytes(start, s, i, byte, count, count)
  BY <1>3, <1>4, <1>5, WriteKeeps DEF AfterWrite
<1>7. /\ mem' = s.mem /\ Replaced(fd_table, d, s.fd, fd_table')
      /\ s.fd # fd_table[d] => InStep(fd_table[d])
  BY DEF Write, Transfer, Replaced
<1> HIDE DEF s
<1>8. s.fd.position \in p .. p + count /\ s.fd.position # p
  BY <1>4, <1>5, <1>6 DEF Wrote
<1>9. Walk(mem, fd_table[d].first_block)[p \div BlockSize] = fd_table[d].current_block
  BY <1>7, <1>8 DEF InStep
<1>10. p \div BlockSize \in Index
  <2>1. p <= fd_table[d].file_size /\ Backed(mem, i, fd_table[d].file_size)
    BY <1>1, <1>3 DEF Exactly
  <2>2. fd_table[d].file_size \in Nat
    BY <1>3, Sizes DEF Descriptor
  <2> QED BY <1>1, <1>3, <2>1, <2>2, PlaceOfPosition
<1>11. At(start, i, p \div BlockSize)
  BY <1>3, <1>4, <1>9, <1>10 DEF At, Way
<1> DEFINE k == s.fd.position - p
           name == mem.root_dir[i].name
<1>12. k \in 1 .. MaxSize
  BY <1>3, <1>5, <1>8, Sizes
<1>13. FdsIn(s.mem, fd_table')
  BY <1>7 DEF InMemory
<1>14. s.fd.position > fd_table[d].position
  BY <1>3, <1>5, <1>8
<1>15. WrittenAs(mem, fd_table, mem', fd_table', d, name, byte, k)
  BY <1>1, <1>3, <1>4, <1>5, <1>6, <1>7, <1>11, <1>13, <1>14, WriteSeen
<1> HIDE DEF k, name, start, p
<1>16. Handles[d] = [name |-> name, position |-> p, mode |-> fd_table[d].mode]
  BY <1>15, Views DEF WrittenAs, WhileKept, p
<1>17. Handles[d] # Closed
  BY <1>1, <1>3, <1>15, OpenHandle, Views DEF WrittenAs, WhileKept, name
<1>18. Handles[d].name = name /\ Handles[d].position = p /\ "write" \in Handles[d].mode
  BY <1>5, <1>16
<1>19. Contents' = Store!With(name, Store!Overwritten(Contents[name], p, byte, k))
  BY <1>15, Views DEF WrittenAs, WhileKept, p
<1>20. Handles' = [Handles EXCEPT ![d].position = @ + k]
  BY <1>15, Views DEF WrittenAs, WhileKept
<1>21. Store!Write(d, byte, k)
  BY <1>18, <1>19, <1>20 DEF Store!Write, WhileKept
<1>22. Store!Next
  BY <1>3, <1>12, <1>17, <1>21 DEF Store!Next, WhileKept
<1> QED BY <1>15, <1>22 DEF StoreStep, WrittenAs, Ok

LEMMA ReadIsRead ==
  ASSUME WhileKept, exact' = TRUE, NEW d \in OpenFds, NEW count \in 1 .. MaxSize, Read(d, count)
  PROVE  StoreStep
<1> DEFINE s == AfterRead(d, count)
           start == Start(d)
           p == fd_table[d].position
<1>1. InMemory /\ Ok(mem, fd_table) /\ mem \in Blocks /\ Sound(mem) /\ Exactly(mem, fd_table)
  BY DEF WhileKept, Ok
<1>2. PICK i, l : FdAt(mem, fd_table[d], i, l)
  BY <1>1, OpenFdFacts
<1>3. /\ At(start, i, l) /\ d \in Fd /\ fd_table[d] \in Descriptor /\ fd_table[d] # Closed
      /\ p \in Nat /\ i \in Entries(mem) /\ fd_table[d].first_block = First(mem, i)
      /\ mem.root_dir[i].type = "file"
  BY <1>1, <1>2, OpenFdFacts DEF FdAt, OpenFds
<1>4. start.mem = mem /\ start.fd = fd_table[d]
  BY DEF Start
<1>5. count \in Nat /\ count <= MaxSize /\ "read" \in fd_table[d].mode
  BY Sizes DEF Read
<1>6. Got(start, s, i, count)
  BY <1>3, <1>5, ReadKeeps DEF AfterRead
<1>7. mem' = mem /\ Replaced(fd_table, d, s.fd, fd_table')
  BY DEF Read, Transfer, Replaced
<1> HIDE DEF s
<1>8. CASE s.fd = fd_table[d]
  <2>1. fd_table' = fd_table
    BY <1>1, <1>7, <1>8 DEF Replaced, InMemory, FdsIn
  <2> QED BY <1>1, <1>7, <2>1, NothingSeen DEF StoreStep, WhileKept
<1>9. CASE s.fd # fd_table[d]
  <2> DEFINE k == s.fd.position - p
             name == mem.root_dir[i].name
  <2>1. PICK j \in Index : At(s, i, j)
    BY <1>6 DEF Got
  <2>2. /\ s.fd \in Descriptor /\ FdAt(mem, s.fd, i, j)
        /\ s.fd.mode = fd_table[d].mode /\ s.fd.file_size = fd_table[d].file_size
    BY <1>3, <1>4, <1>6, <2>1 DEF Got, At, Transfers, FdAt
  <2>3. /\ k \in Nat /\ k \in 1 .. MaxSize /\ s.fd.position = fd_table[d].position + k
        /\ s.fd.position <= s.fd.file_size
    <3>1. s.fd.position \in p .. p + count /\ s.fd.position # p
          /\ (s.fd.position > p => s.fd.position <= s.fd.file_size)
      BY <1>4, <1>6, <1>9 DEF Got
    <3> QED BY <1>3, <1>5, <3>1, Sizes
  <2> HIDE DEF k
  <2>4. ReadAs(mem, fd_table, fd_table', d, name, k)
    BY <1>1, <1>3, <1>7, <2>2, <2>3, ReadSeen
  <2> HIDE DEF name
  <2>5. Handles[d] = [name |-> name, position |-> p, mode |-> fd_table[d].mode]
    BY <2>4, Views DEF ReadAs, WhileKept
  <2>6. Handles[d] # Closed
    BY <1>1, <1>3, <2>4, OpenHandle, Views DEF ReadAs, WhileKept, name
  <2>7. Handles[d].name = name /\ Handles[d].position = p /\ "read" \in Handles[d].mode
    BY <1>5, <2>5
  <2>8. p + k <= Len(Contents[name]) /\ Contents' = Contents
    BY <1>7, <2>4, Views DEF ReadAs, WhileKept
  <2>9. Handles' = [Handles EXCEPT ![d].position = @ + k]
    BY <1>7, <2>4, Views DEF ReadAs, WhileKept
  <2>10. Store!Len(Contents[name]) = Len(Contents[name])
    OBVIOUS
  <2>11. Store!Read(d, k)
    BY <2>7, <2>8, <2>9, <2>10 DEF Store!Read, WhileKept
  <2>12. Store!Next
    BY <1>3, <2>3, <2>6, <2>11 DEF Store!Next, WhileKept
  <2> QED BY <1>7, <2>4, <2>12 DEF StoreStep, ReadAs, Ok
<1> QED BY <1>8, <1>9

LEMMA CloseIsClose ==
  ASSUME WhileKept, exact' = TRUE, NEW d \in OpenFds, Close(d)
  PROVE  StoreStep
<1> DEFINE fd == fd_table[d]
           same == { i \in Entries(mem) : /\ mem.root_dir[i].first_block = fd.first_block
                                          /\ mem.root_dir[i].type = "file" }
<1>1. InMemory /\ Ok(mem, fd_table) /\ mem \in Blocks /\ Sound(mem) /\ Exactly(mem, fd_table)
  BY DEF WhileKept, Ok
<1>2. PICK i, l : FdAt(mem, fd, i, l)
  BY <1>1, OpenFdFacts
<1>3. /\ d \in Fd /\ fd \in Descriptor /\ fd # Closed /\ d \in Opened(fd_table)
      /\ i \in Entries(mem) /\ fd.first_block = First(mem, i) /\ mem.root_dir[i].type = "file"
  BY <1>1, <1>2, OpenFdFacts DEF FdAt, OpenFds, Opened
<1>4. /\ Replaced(fd_table, d, Closed, fd_table')
      /\ mem' = IF "write" \notin fd.mode \/ same = {} THEN mem
                ELSE [mem EXCEPT !.root_dir[Min(same)].size = fd.file_size]
  BY DEF Close, Replaced
<1>5. same # {} /\ Min(same) = i
  <2>1. i \in same /\ \A j \in same : j = i
    BY <1>1, <1>3, OneFile DEF First
  <2>2. same \subseteq Nat
    BY <1>1, BlockFacts
  <2> HIDE DEF same
  <2> QED BY <2>1, <2>2, MinIsLeast
<1> HIDE DEF same
<1>6. Resized(mem, mem', i, fd.file_size)
  <2>1. fd.file_size \in 0 .. MaxSize
    BY <1>3 DEF Descriptor
  <2>2. mem' = [mem EXCEPT !.root_dir[i].size = fd.file_size]
        \/ (mem' = mem /\ fd.file_size = mem.root_dir[i].size)
    BY <1>1, <1>3, <1>4, <1>5 DEF Exactly
  <2> QED BY <1>1, <1>3, <2>1, <2>2, ResizedIs
<1>7. ClosedAs(mem, fd_table, mem', fd_table', d)
  BY <1>1, <1>3, <1>4, <1>6, CloseSeen
<1>8. HandlesIn(mem, fd_table)[d] # Closed
  <2>1. HandlesIn(mem, fd_table)[d] = [name |-> mem.root_dir[i].name, position |-> fd.position,
                                       mode |-> fd.mode]
    BY <1>1, <1>3, NameOfEntry DEF HandlesIn, HandleIn
  <2> QED BY <1>1, <1>3, <2>1, OpenHandle
<1>9. Handles[d] # Closed
  BY <1>8, Views DEF WhileKept
<1>10. Store!Close(d)
  BY <1>7, Views DEF Store!Close, ClosedAs, WhileKept
<1>11. Store!Next
  BY <1>3, <1>9, <1>10 DEF Store!Next, WhileKept
<1> QED BY <1>7, <1>11 DEF StoreStep, ClosedAs, Ok

LEMMA OperationIsOperation ==
  ASSUME WhileKept, InMemory', exact' = TRUE, FileOperation
  PROVE  StoreStep
BY CreateIsCreate, OpenCallIsOpen, WriteIsWrite, ReadIsRead, CloseIsClose DEF FileOperation

(* The promise is given up once, by a call or by a boot.                   *)
LEMMA OnceGivenUp ==
  ASSUME IInv, [Next]_vars, exact'
  PROVE  exact = TRUE
<1>1. exact \in BOOLEAN
  BY DEF IInv, Memory, InMemory, HalfInMemory, Marks
<1>2. CASE FileOperation
  <2>1. ASSUME NEW m, NEW name, NEW mode, NEW truncate, OpenIn(m, name, mode, truncate) PROVE exact
    BY <2>1 DEF OpenIn
  <2>2. ASSUME NEW name, NEW type, Create(name, type) PROVE exact
    BY <2>2 DEF Create
  <2>3. ASSUME NEW name, NEW mode, NEW create, NEW truncate, Open(name, mode, create, truncate) PROVE exact
    BY <2>1, <2>3 DEF Open
  <2>4. ASSUME NEW d, NEW byte, NEW count, Write(d, byte, count) PROVE exact
    BY <2>4 DEF Write, Transfer
  <2>5. ASSUME NEW d, NEW count, Read(d, count) PROVE exact
    BY <2>5 DEF Read, Transfer
  <2>6. ASSUME NEW d, Close(d) PROVE exact
    BY <2>6 DEF Close
  <2> QED BY <1>1, <1>2, <2>2, <2>3, <2>4, <2>5, <2>6 DEF FileOperation
<1>3. CASE SetDiskMode
  BY <1>1, <1>3 DEF SetDiskMode
<1>4. ASSUME NEW stop, Save(stop) \/ Boot(stop) PROVE exact = TRUE
  BY <1>1, <1>4 DEF Save, Boot
<1>5. CASE UNCHANGED vars
  BY <1>1, <1>5 DEF vars
<1> QED BY <1>2, <1>3, <1>4, <1>5 DEF Next

LEMMA StepOfStore ==
  ASSUME StoreInv, [Next]_vars
  PROVE  StoreInv' /\ [Store!Next]_(Store!vars)
<1>1. IInv /\ IInv'
  BY NextIInv DEF StoreInv
<1>2. exact \in BOOLEAN /\ exact' \in BOOLEAN
  BY <1>1 DEF IInv, Memory, InMemory, HalfInMemory, Marks
<1>3. CASE exact'
  <2>1. exact = TRUE /\ exact' = TRUE /\ Exactly(mem, fd_table)
    BY <1>1, <1>2, <1>3, OnceGivenUp DEF StoreInv, KeptInv
  <2>2. CASE Usable /\ FileOperation
    <3>1. InMemory
      BY <1>1, <2>2 DEF IInv, Memory, Usable
    <3>2. InMemory'
      BY <2>2, <3>1, FileOperationKeeps DEF MemoryGrows
    <3>3. WhileKept
      BY <2>1, <3>1 DEF WhileKept, Ok, InMemory
    <3>4. StoreStep
      BY <2>1, <2>2, <3>2, <3>3, OperationIsOperation
    <3> QED BY <1>1, <3>4 DEF StoreStep, StoreInv, KeptInv
  <2>3. CASE UNCHANGED <<mem, fd_table, exact>>
    <3>1. UNCHANGED Store!vars
      BY <2>1, <2>3, NothingSeen
    <3> QED BY <1>1, <2>1, <2>3, <3>1 DEF StoreInv, KeptInv
  <2>4. (Usable /\ FileOperation) \/ UNCHANGED <<mem, fd_table, exact>>
    <3>1. \A stop : ~Boot(stop)
      BY <1>3 DEF Boot
    <3>2. \A stop : Save(stop) => UNCHANGED <<mem, fd_table, exact>>
      BY DEF Save
    <3> QED BY <3>1, <3>2 DEF Next, SetDiskMode, vars
  <2> QED BY <2>2, <2>3, <2>4
<1>4. CASE exact /\ ~exact'
  <2>1. Contents' = [n \in {} |-> <<>>] /\ Handles' = [d \in Fd |-> Closed] /\ exact' = FALSE
    BY <1>2, <1>4, WhatIsSeenNext
  <2>2. Store!GiveUp
    BY <2>1 DEF Store!GiveUp, Store!Nothing
  <2>3. Store!Next
    BY <1>4, <2>2 DEF Store!Next
  <2> QED BY <1>1, <1>4, <2>3 DEF StoreInv, KeptInv
<1>5. CASE ~exact
  <2>1. exact = FALSE /\ exact' = FALSE
    BY <1>1, <1>2, <1>5, OnceGivenUp
  <2>2. Contents' = Contents /\ Handles' = Handles
    BY <2>1, WhatIsSeen, WhatIsSeenNext
  <2> QED BY <1>1, <2>1, <2>2 DEF StoreInv, KeptInv, Store!vars
<1> QED BY <1>3, <1>4, <1>5

LEMMA InitOfStore == Init => StoreInv /\ Store!Init
<1> SUFFICES ASSUME Init PROVE StoreInv /\ Store!Init
  OBVIOUS
<1>1. mem = Formatted /\ fd_table = [d \in Fd |-> Closed] /\ exact = TRUE
  BY DEF Init, FsInit
<1>2. Opened(fd_table) = {} /\ Entries(mem) = {}
  BY <1>1, FormattedFacts, EmptySound DEF Opened
<1>3. Exactly(mem, fd_table)
  BY <1>2 DEF Exactly, Distinct
<1>4. Contents = [n \in {} |-> <<>>]
  <2>1. Contents = ContentsIn(mem, fd_table)
    BY <1>1, WhatIsSeen
  <2> QED BY <1>2, <2>1 DEF ContentsIn
<1>5. Handles = [d \in Fd |-> Closed]
  <2>1. Handles = HandlesIn(mem, fd_table)
    BY <1>1, WhatIsSeen
  <2> QED BY <1>1, <2>1 DEF HandlesIn
<1> QED BY <1>1, <1>3, <1>4, <1>5, InitIInv DEF StoreInv, KeptInv, Store!Init, Store!Nothing

(* Files are what was written to them, at the position of the descriptor   *)
(* it was written through, through any order of calls, until a file is     *)
(* opened twice to be changed, a transfer goes on after one that ended a   *)
(* block, a name is cut, the blocks below FatEntries are used up, or the   *)
(* kernel boots: what each call does to the blocks, the directory and the  *)
(* table of descriptors is one operation of FileStore, or none.            *)
(* (fs_create, fs_open, fs_write, fs_read, fs_close)                       *)
THEOREM FilesAreWhatWasWritten == Spec => ImplementsFileStore
<1>1. StoreInv /\ [Next]_vars => StoreInv' /\ [Store!Next]_(Store!vars)
  BY StepOfStore
<1> QED BY <1>1, InitOfStore, PTL DEF Spec, ImplementsFileStore, Store!Spec
=============================================================================
