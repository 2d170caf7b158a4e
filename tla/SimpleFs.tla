------------------------------ MODULE SimpleFs ------------------------------
(***************************************************************************)
(* SimpleFS, fs/simplefs.c, in memory: a superblock, a file allocation     *)
(* table (FAT), one directory and data blocks, all in one piece of memory, *)
(* and a table of open files.                                              *)
(*                                                                         *)
(* The blocks are a record mem; fs_* functions map it to the next one.     *)
(* SimpleFsDisk adds the copy of the blocks on a drive.                    *)
(*                                                                         *)
(* The FAT has MaxBlocks entries, of which FatEntries fit in its block;    *)
(* the others are the bytes of the directory.  Blocks from FatEntries on   *)
(* are handed out when all others are taken; from then on directory and    *)
(* FAT write over one another, and the model goes no further (overrun).    *)
(***************************************************************************)
EXTENDS Integers, FiniteSets, Sequences, FiniteSetsExt

CONSTANTS MaxBlocks,   (* SIMPLEFS_MAX_BLOCKS: 1024                        *)
          FatEntries,  (* entries that fit in the block of the FAT: 512    *)
          BlockSize,   (* SIMPLEFS_BLOCK_SIZE                              *)
          DirEntries,  (* entries that fit in the block of the directory   *)
          MaxFd,       (* SIMPLEFS_MAX_FD: 32                              *)
          CountRange,  (* 2^32: values of the counter of free blocks       *)
          Names,       (* names of 1 to 55 characters                      *)
          FullNames,   (* those of 55, to which longer names are cut       *)
          Nameless,    (* the empty name, of the path "/"                  *)
          Bytes,       (* what is written; blocks are cleared to 0         *)
          Modes,       (* what files are opened for                        *)
          Closed,      (* an unused descriptor                             *)
          MaxSize      (* bound of the model: positions in files           *)

DataBlock == 3 .. FatEntries - 1
Offset == 0 .. BlockSize - 1
Fd == 0 .. MaxFd - 1
Free == 0              (* allocated is 0                                   *)
EndOfFile == MaxBlocks (* FAT_END_OF_FILE                                  *)

\* Names as they are passed: a long one is what an entry keeps of it, and more.
LongName == [start : FullNames]
PathName == Names \cup {Nameless} \cup LongName
Stored(name) == IF name \in LongName THEN name.start ELSE name

FatValue == DataBlock \cup {Free, EndOfFile}
\* A first block of 0 is that of an entry of which only the name was copied.
Blocks == [magic : BOOLEAN, free_blocks : 0 .. CountRange - 1, fat : [DataBlock -> FatValue],
           root_dir : Seq([name : Names, first_block : DataBlock \cup {0}, size : 0 .. MaxSize,
                           type : {"file", "dir"}]),
           data : [DataBlock -> [Offset -> Bytes \cup {0}]]]
Descriptor == [first_block : DataBlock, current_block : DataBlock, position : 0 .. MaxSize,
               file_size : 0 .. MaxSize, mode : Modes]
Handle == [name : Names, position : 0 .. MaxSize, mode : Modes]

ASSUME SimpleFsAssumption ==
  /\ {MaxBlocks, FatEntries, BlockSize, DirEntries, MaxFd, CountRange, MaxSize} \subseteq Nat \ {0}
  /\ 3 < FatEntries /\ FatEntries < MaxBlocks /\ MaxBlocks < CountRange
  /\ FullNames \subseteq Names /\ Names \cap LongName = {} /\ Nameless \notin Names \cup LongName
  /\ Bytes \subseteq Nat
  /\ Modes \subseteq SUBSET {"read", "write"}
  /\ Closed \notin Descriptor \cup Handle

VARIABLES mem,       (* the blocks                                         *)
          fd_table,
          overrun,   (* a block from FatEntries on was handed out          *)
          unnamed,   (* blocks of files that were made without a name      *)
          exact      (* so far no file was opened twice to be changed, no  *)
                     (* transfer went on after one that ended a block, no  *)
                     (* name was cut, and no block was handed out that the *)
                     (* model does not have                                *)

Range32(n) == n % CountRange

\* fs_format, in memory that is cleared.
Formatted ==
  [magic |-> TRUE, free_blocks |-> MaxBlocks - 3, fat |-> [b \in DataBlock |-> Free],
   root_dir |-> <<>>, data |-> [b \in DataBlock |-> [o \in Offset |-> 0]]]

FreeBlocks(m) == { b \in DataBlock : m.fat[b] = Free }
Entries(m) == DOMAIN m.root_dir
Lookup(m, name) == { i \in Entries(m) : m.root_dir[i].name = name }
EntryOf(m, name) == m.root_dir[Min(Lookup(m, name))]

\* fs_alloc_block and fs_free_block.
AllocBlock_NotMarked(m) == [m EXCEPT !.free_blocks = Range32(@ - 1)]
AllocBlock(m) == [m EXCEPT !.fat[Min(FreeBlocks(m))] = EndOfFile, !.free_blocks = Range32(@ - 1)]
FreeBlock_Uncounted(m, b) == [m EXCEPT !.fat[b] = Free]
FreeBlock(m, b) == [m EXCEPT !.fat[b] = Free, !.free_blocks = Range32(@ + 1)]

\* fs_add_dir_entry, where there is room: without a name the slot stays empty.
AddDirEntry(m, name, b, type) ==
  IF name = Nameless THEN m
  ELSE [m EXCEPT !.root_dir = Append(@, [name |-> Stored(name), first_block |-> b, size |-> 0, type |-> type])]

\* fs_create: the block is taken before the directory is found full.
NewFile(m, name, type) ==
  IF Lookup(m, name) # {} \/ FreeBlocks(m) = {} THEN m
  ELSE LET b == Min(FreeBlocks(m)) IN
       IF Len(m.root_dir) = DirEntries THEN FreeBlock(AllocBlock(m), b)
       ELSE [AddDirEntry(AllocBlock(m), name, b, type) EXCEPT !.data[b] = [o \in Offset |-> 0]]

-----------------------------------------------------------------------------
\* The way from block b along the FAT, and the blocks on it.
Step(fat, b) == IF b \in DataBlock THEN fat[b] ELSE b
Walk(m, b) ==
  LET w[k \in 0 .. MaxBlocks] == IF k = 0 THEN b ELSE Step(m.fat, w[k - 1])
  IN w
Chain(m, b) == LET way == Walk(m, b) IN { way[k] : k \in 0 .. MaxBlocks } \cap DataBlock
Ends(m, b) == Walk(m, b)[MaxBlocks] = EndOfFile

Content(m, first, size) ==
  LET way == Walk(m, first)
  IN [i \in 1 .. size |-> m.data[way[(i - 1) \div BlockSize]][(i - 1) % BlockSize]]

OpenFds == { d \in Fd : fd_table[d] # Closed }
FreeFds == Fd \ OpenFds

\* A transfer that ends where a block ends may leave current_block there, and
\* the next one begins at the start of that block again.
InStep(fd) == Walk(mem, fd.first_block)[fd.position \div BlockSize] = fd.current_block

\* The body of fs_write's loop, for one byte; more are to come or not.
NextBlock_NotLinked(s) ==
  LET next == s.mem.fat[s.fd.current_block] IN
  IF next # EndOfFile THEN [s EXCEPT !.fd.current_block = next]
  ELSE IF FreeBlocks(s.mem) = {} THEN [s EXCEPT !.stopped = TRUE]
  ELSE [s EXCEPT !.mem = AllocBlock(s.mem), !.fd.current_block = Min(FreeBlocks(s.mem))]
NextBlock(s) ==
  LET next == s.mem.fat[s.fd.current_block] IN
  IF next # EndOfFile THEN [s EXCEPT !.fd.current_block = next]
  ELSE IF FreeBlocks(s.mem) = {} THEN [s EXCEPT !.stopped = TRUE]
  ELSE LET b == Min(FreeBlocks(s.mem))
       IN [s EXCEPT !.mem = [AllocBlock(s.mem) EXCEPT !.fat[s.fd.current_block] = b], !.fd.current_block = b]

Larger(a, b) == IF a > b THEN a ELSE b

WriteByte_SizeIsPosition(s, byte, more) ==
  LET put == [s EXCEPT !.mem.data[s.fd.current_block][s.fd.position % BlockSize] = byte,
                       !.fd.position = @ + 1, !.fd.file_size = s.fd.position + 1]
  IN IF s.stopped THEN s
     ELSE IF more /\ put.fd.position % BlockSize = 0 THEN NextBlock(put) ELSE put
WriteByte(s, byte, more) ==
  LET put == [s EXCEPT !.mem.data[s.fd.current_block][s.fd.position % BlockSize] = byte,
                       !.fd.position = @ + 1,
                       !.fd.file_size = Larger(@, s.fd.position + 1)]
  IN IF s.stopped THEN s
     ELSE IF more /\ put.fd.position % BlockSize = 0 THEN NextBlock(put) ELSE put

ReadByte(s) ==
  IF s.stopped \/ s.fd.position >= s.fd.file_size THEN s
  ELSE LET got == [s EXCEPT !.fd.position = @ + 1]
           next == s.mem.fat[s.fd.current_block]
       IN IF got.fd.position % BlockSize # 0 \/ got.fd.position >= got.fd.file_size THEN got
          ELSE IF next = EndOfFile THEN [got EXCEPT !.stopped = TRUE]
          ELSE [got EXCEPT !.fd.current_block = next]

Start(d) == [mem |-> mem, fd |-> fd_table[d], stopped |-> FALSE]
WriteLoop(start, byte, count) ==
  LET s[n \in 0 .. count] == IF n = 0 THEN start ELSE WriteByte(s[n - 1], byte, n < count)
  IN s
ReadLoop(start, count) ==
  LET s[n \in 0 .. count] == IF n = 0 THEN start ELSE ReadByte(s[n - 1])
  IN s
AfterWrite(d, byte, count) == WriteLoop(Start(d), byte, count)[count]
AfterRead(d, count) == ReadLoop(Start(d), count)[count]

-----------------------------------------------------------------------------
FsInit ==
  /\ mem = Formatted
  /\ fd_table = [d \in Fd |-> Closed]
  /\ overrun = FALSE
  /\ unnamed = {}
  /\ exact = TRUE

\* What fs_create does to the blocks that the model does not have, or loses,
\* when it makes n of mem.
Created(name, n) ==
  /\ overrun' = (Lookup(mem, name) = {} /\ FreeBlocks(mem) = {})
  /\ unnamed' = unnamed \cup IF name = Nameless THEN FreeBlocks(mem) \ FreeBlocks(n) ELSE {}
NotCreated == UNCHANGED <<overrun, unnamed>>

Create(name, type) ==
  /\ mem' = NewFile(mem, name, type)
  /\ Created(name, mem')
  /\ exact' = (exact /\ ~overrun' /\ (name \in LongName => mem' = mem))
  /\ UNCHANGED fd_table

\* The end of fs_open, for a file that is there.
OpenIn(m, name, mode, truncate) ==
  LET entry == EntryOf(m, name)
      index == Min(Lookup(m, name))
      d == Min(FreeFds)
      fd == [first_block |-> entry.first_block, current_block |-> entry.first_block, position |-> 0,
             file_size |-> IF truncate THEN 0 ELSE entry.size, mode |-> mode]
      shared == { e \in OpenFds : fd_table[e].first_block = entry.first_block }
  IN IF entry.type = "dir" \/ FreeFds = {} THEN mem' = m /\ UNCHANGED <<fd_table, exact>>
     ELSE /\ fd_table' = [fd_table EXCEPT ![d] = fd]
          /\ mem' = IF truncate THEN [m EXCEPT !.root_dir[index].size = 0] ELSE m
          /\ exact' = (exact /\ (shared # {} =>
                          ~truncate /\ \A e \in shared : "write" \notin mode \cup fd_table[e].mode))

\* A file that was created may not be found again: its name was cut, or empty.
Open(name, mode, create, truncate) ==
  LET m == IF create THEN NewFile(mem, name, "file") ELSE mem
  IN /\ IF create THEN Created(name, m) ELSE NotCreated
     /\ IF Lookup(m, name) # {} THEN OpenIn(m, name, mode, truncate)
        ELSE /\ mem' = m /\ UNCHANGED fd_table
             /\ exact' = (exact /\ ~overrun' /\ (name \in LongName => m = mem))

Transfer(d, after) ==
  /\ fd_table' = [fd_table EXCEPT ![d] = after.fd]
  /\ exact' = (exact /\ ~overrun' /\ (after.fd # fd_table[d] => InStep(fd_table[d])))
  /\ UNCHANGED unnamed

Write(d, byte, count) ==
  /\ "write" \in fd_table[d].mode
  /\ fd_table[d].position + count <= MaxSize
  /\ LET after == AfterWrite(d, byte, count)
     IN mem' = after.mem /\ overrun' = after.stopped /\ Transfer(d, after)

Read(d, count) ==
  /\ "read" \in fd_table[d].mode
  /\ UNCHANGED <<mem, overrun>>
  /\ Transfer(d, AfterRead(d, count))

\* fs_close: the size goes to the first file that begins at the same block.
Close(d) ==
  LET fd == fd_table[d]
      same == { i \in Entries(mem) : /\ mem.root_dir[i].first_block = fd.first_block
                                     /\ mem.root_dir[i].type = "file" }
  IN /\ fd_table' = [fd_table EXCEPT ![d] = Closed]
     /\ mem' = IF "write" \notin fd.mode \/ same = {} THEN mem
               ELSE [mem EXCEPT !.root_dir[Min(same)].size = fd.file_size]
     /\ UNCHANGED <<overrun, unnamed, exact>>

\* The calls of a client.
FileOperation ==
  \/ \E name \in PathName, type \in {"file", "dir"} : Create(name, type)
  \/ \E name \in PathName, mode \in Modes, create \in BOOLEAN, truncate \in BOOLEAN :
       Open(name, mode, create, truncate)
  \/ \E d \in OpenFds :
       \/ \E byte \in Bytes, count \in 1 .. MaxSize : Write(d, byte, count)
       \/ \E count \in 1 .. MaxSize : Read(d, count)
       \/ Close(d)

-----------------------------------------------------------------------------
(* No two entries of the directory have chains that meet.                 *)
ChainsApartIn(m) ==
  \A i \in Entries(m), j \in Entries(m) :
    i # j => Chain(m, m.root_dir[i].first_block) \cap Chain(m, m.root_dir[j].first_block) = {}

(* Every entry has a chain of blocks that are allocated and that ends, and *)
(* a name of its own, unless it was cut.                                   *)
ChainsEndIn(m) ==
  /\ \A i \in Entries(m) : Ends(m, m.root_dir[i].first_block)
  /\ \A i \in Entries(m), j \in Entries(m) :
       m.root_dir[i].name = m.root_dir[j].name => i = j \/ m.root_dir[i].name \in FullNames

(* A descriptor stays in the chain of its file, whatever other descriptors *)
(* wrote.  (fs_open, fs_read, fs_write)                                    *)
DescriptorsInTheirFile ==
  ~overrun =>
    \A d \in OpenFds :
      /\ \E i \in Entries(mem) : mem.root_dir[i].first_block = fd_table[d].first_block
      /\ fd_table[d].current_block \in Chain(mem, fd_table[d].first_block)

\* The files as a client sees them: a descriptor that may write has the size.
SizeOf(i) ==
  LET writers == { d \in OpenFds : /\ fd_table[d].first_block = mem.root_dir[i].first_block
                                   /\ "write" \in fd_table[d].mode }
  IN IF writers = {} THEN mem.root_dir[i].size ELSE fd_table[Min(writers)].file_size

NameOf(d) ==
  mem.root_dir[CHOOSE i \in Entries(mem) : mem.root_dir[i].first_block = fd_table[d].first_block].name

Contents ==
  [name \in IF exact THEN { mem.root_dir[i].name : i \in Entries(mem) } ELSE {} |->
     LET i == CHOOSE j \in Entries(mem) : mem.root_dir[j].name = name
     IN Content(mem, mem.root_dir[i].first_block, SizeOf(i))]

Handles ==
  [d \in Fd |-> IF exact /\ d \in OpenFds
                THEN [name |-> NameOf(d), position |-> fd_table[d].position, mode |-> fd_table[d].mode]
                ELSE Closed]

Store == INSTANCE FileStore WITH Descriptors <- Fd, MaxCount <- MaxSize, kept <- exact,
                                 files <- Contents, handles <- Handles

(* As long as no file is opened twice to be changed, no transfer goes on   *)
(* after one that ended a block, no name is cut, and the blocks of the     *)
(* model last, files are what was written to them: through any order of    *)
(* calls on several files, a full directory, a full table of descriptors,  *)
(* and files that are made without a name and not found again.             *)
(* (fs_create, fs_open, fs_write, fs_read, fs_close)                       *)
ImplementsFileStore == Store!Spec
=============================================================================
